---------------------------- MODULE ReplicaSyncProofs ---------------------------
(* The phone's cursor is sound, proved for any number of threads, projects,    *)
(* tombstones, revisions, restarts, frames and callers, on every schedule but  *)
(* those CursorSchedules leaves out.  What the bridge's steps do is in         *)
(* BridgeStoreProofs; here is what becomes of what is told about them.         *)
EXTENDS ReplicaSyncInv, BridgeStoreProofs, FiniteSetTheorems

LEMMA NewsIsNoAnswer == News \cap Answer = {}
  <1> SUFFICES ASSUME NEW n \in News, n \in Answer PROVE FALSE
    OBVIOUS
  <1>1. DOMAIN n = {"id", "rev", "gone"}
    BY DEF News
  <1>2. DOMAIN n = {"store", "rev", "reset", "put", "drop"}
    BY DEF Answer
  <1> QED
    BY <1>1, <1>2

LEMMA RangeTyped ==
  ASSUME NEW X, NEW q \in Seq(X)
  PROVE  /\ {q[i] : i \in DOMAIN q} \subseteq X
         /\ DOMAIN q = 1 .. Len(q) /\ Len(q) \in Nat
  OBVIOUS

(* The types of the parts, in a form the steps below use.                      *)
Shaped ==
  /\ cursor.store \in Nat /\ cursor.rev \in Nat /\ asked.store \in Nat /\ asked.rev \in Nat
  /\ savedCursor.store \in Nat /\ savedCursor.rev \in Nat
  /\ led.store \in Nat \ {0} /\ led.rev \in Nat /\ savedLed.rev \in Nat
  /\ OnLink \subseteq News /\ (\A s \in Store : DueOf(s) \subseteq News /\ NewsOf(s) \subseteq News)
  /\ DOMAIN link = 1 .. Len(link) /\ Len(link) \in Nat
  /\ \A i \in DOMAIN link : link[i] \in News \/ link[i] \in Answer
  /\ DOMAIN jobs = 1 .. Len(jobs) /\ Len(jobs) \in Nat
  /\ \A i \in DOMAIN jobs : jobs[i] \in Seq(Op) /\ jobs[i] # <<>>

LEMMA TypesOf == TypeOK => Shaped
  <1> SUFFICES ASSUME TypeOK PROVE Shaped
    OBVIOUS
  <1>1. /\ cursor \in Cursor /\ savedCursor \in Cursor /\ asked \in Cursor
        /\ led \in Ledger /\ savedLed \in Ledger
        /\ link \in Seq(News \cup Answer) /\ jobs \in Seq(Seq(Op) \ {<<>>})
        /\ due \in [Store -> Seq(News)]
        /\ tx \in [Store -> [news : Seq(News), todo : SUBSET Entity]]
    BY DEF TypeOK, BridgeTypeOK
  <1>2. /\ cursor.store \in Nat /\ cursor.rev \in Nat /\ asked.store \in Nat /\ asked.rev \in Nat
        /\ savedCursor.store \in Nat /\ savedCursor.rev \in Nat
        /\ led.store \in Nat \ {0} /\ led.rev \in Nat /\ savedLed.rev \in Nat
    BY <1>1 DEF Cursor, Ledger
  <1>3. \A s \in Store : DueOf(s) \subseteq News
    <2> SUFFICES ASSUME NEW s \in Store PROVE DueOf(s) \subseteq News
      OBVIOUS
    <2>1. due[s] \in Seq(News)
      BY <1>1
    <2> QED
      BY <2>1, RangeTyped DEF DueOf
  <1>4. \A s \in Store : NewsOf(s) \subseteq News
    <2> SUFFICES ASSUME NEW s \in Store PROVE NewsOf(s) \subseteq News
      OBVIOUS
    <2>1. tx[s].news \in Seq(News)
      BY <1>1
    <2> QED
      BY <2>1, RangeTyped DEF NewsOf
  <1>5. OnLink \subseteq News
    BY DEF OnLink
  <1>6. /\ DOMAIN link = 1 .. Len(link) /\ Len(link) \in Nat
        /\ {link[i] : i \in DOMAIN link} \subseteq News \cup Answer
    BY <1>1, RangeTyped
  <1>7. /\ DOMAIN jobs = 1 .. Len(jobs) /\ Len(jobs) \in Nat
        /\ {jobs[i] : i \in DOMAIN jobs} \subseteq Seq(Op) \ {<<>>}
    BY <1>1, RangeTyped
  <1>8. \A i \in DOMAIN link : link[i] \in News \/ link[i] \in Answer
    BY <1>6
  <1>9. \A i \in DOMAIN jobs : jobs[i] \in Seq(Op) /\ jobs[i] # <<>>
    BY <1>7
  <1> QED
    BY <1>2, <1>3, <1>4, <1>5, <1>6, <1>7, <1>8, <1>9 DEF Shaped

LEMMA TypesOfNext == TypeOK' => Shaped'
  BY TypesOf, PTL

(* What is heard, before and after a step.                                     *)
LEMMA HeardIs ==
  ASSUME NEW n
  PROVE  /\ n \in Due <=> \E s \in Store : n \in DueOf(s)
         /\ n \in Flushed <=> n \in OnLink \/ n \in Due
         /\ n \in Heard <=> n \in Flushed \/ \E s \in Store : n \in NewsOf(s)
  BY DEF Due, Flushed, Heard

LEMMA HeardBecomes ==
  ASSUME NEW n
  PROVE  /\ n \in Due' <=> \E s \in Store : n \in DueOf(s)'
         /\ n \in Flushed' <=> n \in OnLink' \/ n \in Due'
         /\ n \in Heard' <=> n \in Flushed' \/ \E s \in Store : n \in NewsOf(s)'
  BY DEF Due, Flushed, Heard

(* What is heard has a revision of the bridge's.                               *)
LEMMA HeardRevs ==
  ASSUME IInv
  PROVE  \A n \in Heard : n \in News /\ n.rev \in Nat /\ n.rev <= led.rev
  <1> SUFFICES ASSUME NEW n \in Heard
               PROVE  n \in News /\ n.rev \in Nat /\ n.rev <= led.rev
    OBVIOUS
  <1>0. Shaped /\ savedLed.rev <= led.rev
    BY TypesOf DEF IInv, BridgeInv, LedgerInv
  <1>1. CASE n \in Flushed
    <2>1. n \in News
      BY <1>0, <1>1, HeardIs DEF Shaped
    <2>2. n.rev \in Nat
      BY <2>1 DEF News
    <2>3. n.rev <= savedLed.rev
      BY <1>1 DEF IInv, NewsInv, Settled
    <2> QED
      BY <1>0, <2>1, <2>2, <2>3 DEF Shaped
  <1>2. CASE \E s \in Store : n \in NewsOf(s)
    BY <1>0, <1>2 DEF IInv, BridgeInv, TxInv, Shaped, News
  <1> QED
    BY <1>1, <1>2, HeardIs

(* A truth dates from the bridge's past.                                       *)
LEMMA DatesBound ==
  ASSUME BridgeInv, NEW S, NEW w \in Truths(S)
  PROVE  /\ w.on \in Entity
         /\ \A r \in w.dates : r \in Nat /\ r <= led.rev
  <1> USE Types
  <1>1. /\ savedLed.rev <= led.rev /\ savedLed.horizon <= led.rev /\ led.horizon <= led.rev
        /\ \A e \in Entity : /\ ents[e] <= led.rev /\ savedEnts[e] <= led.rev
                             /\ led.tomb[e] <= led.rev /\ savedLed.tomb[e] <= led.rev
    BY DEF BridgeInv, LedgerInv
  <1>2. ASSUME NEW e \in Entity
        PROVE  /\ \A r \in Dates(led, ents[e], e) : r \in Nat /\ r <= led.rev
               /\ \A r \in Dates(savedLed, savedEnts[e], e) : r \in Nat /\ r <= led.rev
    BY <1>1 DEF Dates
  <1>3. Sound \subseteq Entity
    BY DEF Sound
  <1> QED
    BY <1>2, <1>3, TruthIs, TruthFields
--------------------------------------------------------------------------------
(* The bridge moves.                                                           *)

\* What is new of what is heard is newer than all there was.
HeardGrows == \A n \in Heard' : n \in Heard \/ n.rev > led.rev

\* A truth of before that stands for w; if it may be newer than c, so may w.
From(w, W, c) == \E v \in W : v.on = w.on /\ v.is = w.is /\ (After(v, c) => After(w, c)')

Carries(S, R) == TruthsMove(S, R) /\ BridgeInv' /\ HeardGrows /\ Distinct'

(* A truth is one there was, or newer than what the client was told.           *)
LEMMA CarryTruth ==
  ASSUME IInv, NEW S, NEW R, Carries(S, R), NEW w \in Truths(R)',
         NEW c \in Nat, c <= led.rev, StoreOf(w.on) \in ReadOver(c) => StoreOf(w.on) \in S
  PROVE  After(w, c)' \/ From(w, Truths(S), c)
  <1>0. BridgeInv /\ BridgeInv'
    BY DEF IInv, Carries
  <1>1. CASE Same(w, Truths(S))
    <2>1. PICK v \in Truths(S) : v.on = w.on /\ v.is = w.is /\ v.dates \subseteq w.dates
      BY <1>1 DEF Same
    <2>2. ASSUME After(v, c) PROVE After(w, c)'
      <3>1. PICK r \in v.dates : r > c /\ \A n \in Heard : n.rev = r => n.id = v.on /\ Value(n) = v.is
        BY <2>2 DEF After
      <3>2. r \in Nat /\ r <= led.rev /\ led.rev \in Nat
        BY <1>0, DatesBound, Types
      <3>3. \A n \in Heard' : n.rev = r => n \in Heard
        BY <3>2 DEF Carries, HeardGrows
      <3>4. \A n \in Heard' : n.rev = r => n.id = w.on /\ Value(n) = w.is
        BY <2>1, <3>1, <3>3
      <3> QED
        BY <2>1, <3>1, <3>4 DEF After
    <2> QED
      BY <2>1, <2>2 DEF From
  <1>2. CASE Anew(w, S)
    <2>1. PICK n \in NewsOf(StoreOf(w.on))' :
            n \in News /\ n.id = w.on /\ Value(n) = w.is /\ n.rev \in w.dates /\ n.rev > c
      BY <1>0, <1>2, AnewLemma
    <2>2. n \in Heard'
      <3>1. StoreOf(w.on) \in Store
        BY DEF StoreOf, Store
      <3> QED
        BY <2>1, <3>1, HeardBecomes
    <2>3. \A m \in Heard' : m.rev = n.rev => m.id = w.on /\ Value(m) = w.is
      BY <2>1, <2>2 DEF Carries, Distinct
    <2> QED
      BY <2>1, <2>3 DEF After
  <1> QED
    BY <1>1, <1>2 DEF Carries, TruthsMove

(* What of a change or its end is due: what the flush finds in memory.         *)
NewDue(n) ==
  /\ n.rev > 0 /\ n.rev <= savedLed'.rev /\ NewsOf(StoreOf(n.id))' = {}
  /\ n \in Heard
  /\ \A w \in Truths({})' : w.on = n.id => w.is = Value(n) /\ n.rev \in w.dates

BridgeMoves ==
  /\ Moves /\ BridgeInv' /\ TypeOK'
  /\ UNCHANGED phoneVars
  /\ DueSays'
  /\ \A n \in Due' : n \in Due \/ NewDue(n)

LEMMA MovesHeard ==
  ASSUME IInv, BridgeMoves
  PROVE  HeardGrows /\ Distinct'
  <1>0. /\ Shaped /\ OnLink' = OnLink
        /\ \A s \in Store : NewsOf(s)' \in {NewsOf(s), {}} \/ Fresh(s)
        /\ \A n \in Due' : n \in Due \/ n \in Heard
    BY TypesOf DEF IInv, BridgeMoves, phoneVars, OnLink, Moves, Moved, NewDue
  <1>1. ASSUME NEW n \in Heard'
        PROVE  n \in Heard \/ \E s \in Store : n \in NewsOf(s)' /\ Fresh(s)
    <2>1. CASE n \in OnLink'
      BY <1>0, <2>1, HeardIs
    <2>2. CASE n \in Due'
      BY <1>0, <2>2, HeardIs
    <2>3. CASE \E s \in Store : n \in NewsOf(s)'
      BY <1>0, <2>3, HeardIs
    <2> QED
      BY <1>1, <2>1, <2>2, <2>3, HeardBecomes
  <1>2. HeardGrows
    BY <1>1 DEF HeardGrows, Fresh
  <1>3. ASSUME NEW n \in Heard', NEW m \in Heard', n.rev = m.rev
        PROVE  n = m
    <2>1. CASE n \in Heard /\ m \in Heard
      BY <1>3, <2>1 DEF IInv, NewsInv, Distinct
    <2>2. ASSUME NEW x \in Heard, NEW s \in Store, NEW y \in NewsOf(s)', Fresh(s)
          PROVE  x.rev # y.rev
      BY <1>0, <2>2, HeardRevs DEF Fresh, Shaped
    <2>3. ASSUME NEW s \in Store, NEW o \in Store, n \in NewsOf(s)', m \in NewsOf(o)',
                 Fresh(s), Fresh(o), n \notin Heard, m \notin Heard
          PROVE  n = m
      <3>1. s = o
        BY <2>3, HeardIs DEF Fresh
      <3> QED
        BY <1>3, <2>3, <3>1 DEF Fresh
    <2> QED
      BY <1>1, <1>3, <2>1, <2>2, <2>3
  <1> QED
    BY <1>2, <1>3 DEF Distinct

LEMMA MovesNews ==
  ASSUME IInv, BridgeMoves
  PROVE  NewsInv'
  <1>1. HeardGrows /\ Distinct' /\ DueSays' /\ BridgeInv' /\ BridgeInv /\ Shaped /\ Shaped'
    BY MovesHeard, TypesOf, TypesOfNext DEF BridgeMoves, IInv
  <1>2. Carries({}, {})
    <2>1. Left({}) = {}
      BY DEF Left
    <2>2. TruthsMove({}, {})
      BY <2>1 DEF BridgeMoves, Moves
    <2> QED
      BY <1>1, <2>2 DEF Carries
  <1>3. ASSUME NEW n \in Flushed', n \in Flushed
        PROVE  Settled(n)'
    <2>1. /\ n.rev > 0 /\ n.rev <= savedLed.rev
          /\ \A m \in NewsOf(StoreOf(n.id)) : n.rev < m.rev
          /\ \A w \in Truths({}) : w.on = n.id => After(w, n.rev - 1)
      BY <1>3 DEF IInv, NewsInv, Settled
    <2>2. n \in News /\ n.rev \in Nat /\ n.rev <= led.rev
      BY <1>3, HeardIs, HeardRevs
    <2>3. StoreOf(n.id) \in Store
      BY DEF StoreOf, Store
    <2>4. n.rev <= savedLed'.rev
      BY <1>1, <2>1, <2>2 DEF BridgeMoves, Moves, Moved, Shaped
    <2>5. \A m \in NewsOf(StoreOf(n.id))' : n.rev < m.rev
      <3>1. NewsOf(StoreOf(n.id))' \in {NewsOf(StoreOf(n.id)), {}} \/ Fresh(StoreOf(n.id))
        BY <2>3 DEF BridgeMoves, Moves, Moved
      <3>2. Fresh(StoreOf(n.id)) => \A m \in NewsOf(StoreOf(n.id))' : n.rev < m.rev
        <4>1. NewsOf(StoreOf(n.id))' \subseteq News
          BY <1>1, <2>3 DEF Shaped
        <4> QED
          BY <1>1, <2>2, <4>1 DEF Fresh, Shaped, News
      <3> QED
        BY <2>1, <3>1, <3>2
    <2>6. ASSUME NEW w \in Truths({})', w.on = n.id
          PROVE  After(w, n.rev - 1)'
      <3>0. n.rev - 1 \in Nat /\ n.rev - 1 <= led.rev /\ n.rev - 1 < n.rev
        <4>1. led.rev \in Nat
          BY <1>1 DEF Shaped
        <4> QED
          BY <2>1, <2>2, <4>1
      <3>1. PICK c \in Nat : c = n.rev - 1 /\ c <= led.rev /\ c < n.rev
        BY <3>0
      <3>2. StoreOf(w.on) \notin ReadOver(c)
        <4>1. ASSUME NEW m \in NewsOf(StoreOf(n.id)) PROVE ~(m.rev <= c)
          <5>1. m \in News
            BY <1>1, <2>3 DEF Shaped
          <5> QED
            BY <2>1, <2>2, <3>1, <5>1 DEF News
        <4> QED
          BY <2>6, <4>1 DEF ReadOver
      <3>3. After(w, c)' \/ From(w, Truths({}), c)
        BY <1>2, <2>6, <3>1, <3>2, CarryTruth
      <3>4. \A v \in Truths({}) : v.on = n.id => After(v, c)
        BY <2>1, <3>1
      <3>5. From(w, Truths({}), c) => After(w, c)'
        BY <2>6, <3>4 DEF From
      <3> QED
        BY <3>1, <3>3, <3>5
    <2> QED
      BY <2>1, <2>4, <2>5, <2>6 DEF Settled
  <1>4. ASSUME NEW n \in Flushed', n \notin Flushed
        PROVE  Settled(n)'
    <2>1. NewDue(n)
      <3>0. OnLink' = OnLink
        BY DEF BridgeMoves, phoneVars, OnLink
      <3>1. n \in Due' /\ n \notin Due
        BY <1>4, <3>0, HeardIs, HeardBecomes
      <3> QED
        BY <3>1 DEF BridgeMoves
    <2>2. n \in News /\ n.rev \in Nat
      BY <2>1, HeardRevs DEF NewDue
    <2>3. ASSUME NEW w \in Truths({})', w.on = n.id
          PROVE  After(w, n.rev - 1)'
      <3>1. w.is = Value(n) /\ n.rev \in w.dates /\ n.rev > n.rev - 1
        BY <2>1, <2>2, <2>3 DEF NewDue
      <3>2. n \in Heard'
        BY <1>4, HeardBecomes
      <3>3. \A m \in Heard' : m.rev = n.rev => m.id = w.on /\ Value(m) = w.is
        BY <1>1, <2>3, <3>1, <3>2 DEF Distinct
      <3> QED
        BY <3>1, <3>3 DEF After
    <2> QED
      BY <2>1, <2>3 DEF Settled, NewDue
  <1> QED
    BY <1>1, <1>3, <1>4 DEF NewsInv

LEMMA MovesCarry ==
  ASSUME IInv, BridgeMoves, NEW S \in SUBSET {s \in Store : Open(s)}, NEW R, R = Left(S),
         NEW c \in Nat, Taken(c, S)
  PROVE  /\ Taken(c, R)'
         /\ \A w \in Truths(R)' : After(w, c)' \/ From(w, Truths(S), c)
  <1>1. R \in SUBSET S
    BY DEF Left
  <1>2. TruthsMove(S, R) /\ TakenMoves(S, R)
    BY <1>1 DEF BridgeMoves, Moves
  <1>3. Carries(S, R)
    BY <1>2, MovesHeard DEF Carries, BridgeMoves
  <1>4. Taken(c, R)'
    BY <1>2 DEF TakenMoves
  <1>5. c <= led.rev /\ ReadOver(c) \subseteq S
    BY DEF Taken
  <1>6. ASSUME NEW w \in Truths(R)' PROVE After(w, c)' \/ From(w, Truths(S), c)
    BY <1>3, <1>5, <1>6, CarryTruth
  <1> QED
    BY <1>4, <1>6

(* What the replica and the statements that wait say depends on them only.     *)
LEMMA DatabaseWords ==
  ASSUME replica' = replica, jobs' = jobs
  PROVE  /\ \A e, v : Kept(e, v)' <=> Kept(e, v)
         /\ \A e, v : Right(e, v)' <=> Right(e, v)
  BY DEF Kept, Right, Wrong, NewsOn, Later

(* An answer that is on its way is told what the bridge becomes.               *)
LEMMA MovesAnswer ==
  ASSUME IInv, BridgeMoves, NEW S \in SUBSET {s \in Store : Open(s)}, NEW R, R = Left(S),
         NEW a \in Answer, AnswerInv(a, S)
  PROVE  AnswerInv(a, R)'
  <1>0. /\ led'.store = led.store /\ cursor' = cursor /\ asked' = asked
        /\ replica' = replica /\ jobs' = jobs
    BY DEF BridgeMoves, phoneVars, Moves, Moved
  <1>1. a.rev \in Nat
    BY DEF Answer
  <1>2. Taken(a.rev, S) /\ a.rev <= led.rev /\ led.rev \in Nat
    BY TypesOf DEF AnswerInv, Taken, IInv, Shaped
  <1>3. /\ Taken(a.rev, R)'
        /\ \A w \in Truths(R)' : After(w, a.rev)' \/ From(w, Truths(S), a.rev)
    BY <1>1, <1>2, MovesCarry
  <1>4. ASSUME NEW e, NEW v, Brings(a, e, v) PROVE Brings(a, e, v)'
    <2>1. CASE Reads(a, e)
      BY <1>4, <2>1 DEF Brings, Reads, ReadAs
    <2>2. CASE ~Reads(a, e)
      <3>1. Kept(e, v)'
        BY <1>0, <1>4, <2>2, DatabaseWords DEF Brings
      <3>2. ASSUME NEW n \in Heard', n.id = e PROVE n.rev <= asked.rev \/ n.rev > a.rev
        <4>1. CASE n \in Heard
          BY <1>4, <2>2, <3>2, <4>1 DEF Brings
        <4>2. CASE n.rev > led.rev
          <5>1. n \in News
            BY <3>2, HeardBecomes, TypesOfNext DEF BridgeMoves, Shaped, Flushed, Due
          <5> QED
            BY <1>1, <1>2, <4>2, <5>1 DEF News
        <4> QED
          BY <4>1, <4>2, MovesHeard DEF HeardGrows
      <3> QED
        BY <1>0, <2>2, <3>1, <3>2 DEF Brings, Reads
    <2> QED
      BY <2>1, <2>2
  <1>5. ASSUME NEW w \in Truths(R)' PROVE After(w, a.rev)' \/ Brings(a, w.on, w.is)'
    <2>1. CASE From(w, Truths(S), a.rev)
      <3>1. PICK v \in Truths(S) : /\ v.on = w.on /\ v.is = w.is
                                   /\ After(v, a.rev) => After(w, a.rev)'
        BY <2>1 DEF From
      <3>2. After(v, a.rev) \/ Brings(a, v.on, v.is)
        BY DEF AnswerInv
      <3> QED
        BY <1>4, <3>1, <3>2
    <2> QED
      BY <1>3, <1>5, <2>1
  <1> QED
    BY <1>0, <1>3, <1>5 DEF AnswerInv, Ours

(* News stays behind what was told at c.                                       *)
LEMMA MovesBehind ==
  ASSUME IInv, BridgeMoves, NEW n, NEW c \in Nat, Taken(c, openRead), Behind(n, c)
  PROVE  Behind(n, c)'
  <1>1. PICK R : R = Left(openRead)
    OBVIOUS
  <1>2. openRead' = R /\ openRead \in SUBSET {s \in Store : Open(s)}
    BY <1>1 DEF BridgeMoves, Moves, Moved, IInv, BridgeInv, OpenReadInv
  <1>3. \A w \in Truths(R)' : After(w, c)' \/ From(w, Truths(openRead), c)
    BY <1>1, <1>2, MovesCarry
  <1> QED
    BY <1>2, <1>3 DEF Behind, From

LEMMA MovesDatabase ==
  ASSUME IInv, BridgeMoves
  PROVE  SavesInv' /\ CursorInv' /\ ApplyInv'
  <1>0. /\ led'.store = led.store /\ cursor' = cursor /\ savedCursor' = savedCursor
        /\ replica' = replica /\ jobs' = jobs /\ OnLink' = OnLink
        /\ cursor.rev \in Nat
    BY TypesOf DEF BridgeMoves, phoneVars, Moves, Moved, OnLink, IInv, Shaped
  <1>1. PICK R : R = Left(openRead)
    OBVIOUS
  <1>2. openRead' = R /\ openRead \in SUBSET {s \in Store : Open(s)}
    BY <1>1 DEF BridgeMoves, Moves, Moved, IInv, BridgeInv, OpenReadInv
  <1>3. SavesInv'
    BY <1>0 DEF IInv, SavesInv
  <1>4. ASSUME NEW w \in Truths(R)', NEW c, From(w, Truths(openRead), c)
        PROVE  \E v \in Truths(openRead) : v.on = w.on /\ v.is = w.is
                                           /\ (After(v, c) => After(w, c)')
    BY <1>4 DEF From
  <1>5. CursorInv'
    <2>1. ASSUME Ours(cursor)
          PROVE  /\ Taken(cursor.rev, R)'
                 /\ \A w \in Truths(R)' : After(w, cursor.rev)' \/ Kept(w.on, w.is)'
      <3>1. /\ Taken(cursor.rev, openRead)
            /\ \A w \in Truths(openRead) : After(w, cursor.rev) \/ Kept(w.on, w.is)
        BY <2>1 DEF IInv, CursorInv
      <3>2. PICK c \in Nat : c = cursor.rev
        BY <1>0
      <3>3. /\ Taken(c, R)'
            /\ \A w \in Truths(R)' : After(w, c)' \/ From(w, Truths(openRead), c)
        BY <1>1, <1>2, <3>1, <3>2, MovesCarry
      <3>4. \A w \in Truths(R)' : After(w, c)' \/ Kept(w.on, w.is)'
        BY <1>0, <1>4, <3>1, <3>2, <3>3, DatabaseWords
      <3> QED
        BY <1>0, <3>2, <3>3, <3>4
    <2> QED
      BY <1>0, <1>2, <2>1 DEF IInv, CursorInv, Ours
  <1>6. ApplyInv'
    <2> SUFFICES ASSUME NEW i \in DOMAIN jobs, IsAnswerJob(jobs[i]), Len(jobs[i]) > 1,
                        LastOp(jobs[i]).cur.store = led.store
                 PROVE  LET c == LastOp(jobs[i]).cur.rev
                        IN /\ Taken(c, R)'
                           /\ \A w \in Truths(R)' : After(w, c)' \/ Right(w.on, w.is)'
                           /\ \A n \in OnLink : Behind(n, c)'
      BY <1>0, <1>2 DEF ApplyInv, Ours, LastOp, IsAnswerJob
    <2>1. PICK c : c = LastOp(jobs[i]).cur.rev
      OBVIOUS
    <2>2. c \in Nat
      <3>1. jobs[i] \in Seq(Op) /\ jobs[i] # <<>>
        BY TypesOf DEF IInv, Shaped
      <3>2. LastOp(jobs[i]) \in Op
        BY <3>1 DEF LastOp
      <3> QED
        BY <2>1, <3>2 DEF Op, Cursor, IsAnswerJob
    <2>3. /\ Taken(c, openRead)
          /\ \A w \in Truths(openRead) : After(w, c) \/ Right(w.on, w.is)
          /\ \A n \in OnLink : Behind(n, c)
      BY <2>1 DEF IInv, ApplyInv, Ours
    <2>4. /\ Taken(c, R)'
          /\ \A w \in Truths(R)' : After(w, c)' \/ From(w, Truths(openRead), c)
      BY <1>1, <1>2, <2>2, <2>3, MovesCarry
    <2>5. \A w \in Truths(R)' : After(w, c)' \/ Right(w.on, w.is)'
      BY <1>0, <1>4, <2>3, <2>4, DatabaseWords
    <2>6. \A n \in OnLink : Behind(n, c)'
      BY <2>2, <2>3, MovesBehind
    <2> QED
      BY <1>0, <2>1, <2>4, <2>5, <2>6
  <1> QED
    BY <1>3, <1>5, <1>6

LEMMA ReadOverLeft ==
  ASSUME IInv, BridgeMoves, NEW c \in Nat, c <= led.rev
  PROVE  ReadOver(c) \subseteq {s \in Store : Open(s)} /\ ReadOver(c)' = Left(ReadOver(c))
  <1>0. /\ led.rev \in Nat
        /\ \A s \in Store : /\ Open(s) <=> NewsOf(s) # {}
                            /\ Open(s)' <=> NewsOf(s)' # {}
                            /\ NewsOf(s)' \subseteq News
                            /\ NewsOf(s)' \in {NewsOf(s), {}} \/ Fresh(s)
    BY Types, TypesBecome DEF IInv, BridgeMoves, Moves, Moved, Typed
  <1>1. ReadOver(c) \subseteq {s \in Store : Open(s)}
    BY <1>0 DEF ReadOver
  <1>2. ASSUME NEW s \in Store
        PROVE  s \in ReadOver(c)' <=> s \in ReadOver(c) /\ Open(s)'
    <2>1. CASE NewsOf(s)' \in {NewsOf(s), {}}
      BY <1>0, <2>1 DEF ReadOver
    <2>2. CASE Fresh(s)
      <3>1. s \notin ReadOver(c)
        BY <2>2 DEF Fresh, ReadOver
      <3>2. \A n \in NewsOf(s)' : ~(n.rev <= c)
        BY <1>0, <2>2 DEF Fresh, News
      <3> QED
        BY <3>1, <3>2 DEF ReadOver
    <2> QED
      BY <1>0, <2>1, <2>2
  <1>3. ReadOver(c) \subseteq Store /\ ReadOver(c)' \subseteq Store
    BY DEF ReadOver
  <1> QED
    BY <1>1, <1>2, <1>3 DEF Left

LEMMA MovesFrames ==
  ASSUME IInv, BridgeMoves
  PROVE  JobsInv' /\ OneAnswer' /\ LinkInv' /\ ReadyInv'
  <1>0. /\ jobs' = jobs /\ link' = link /\ syncPc' = syncPc /\ answer' = answer
        /\ OnLink' = OnLink
        /\ \A i \in DOMAIN link : link[i] \in News \/ link[i] \in Answer
    BY TypesOf DEF BridgeMoves, phoneVars, OnLink, IInv, Shaped
  <1>1. JobsInv' /\ OneAnswer'
    BY <1>0 DEF IInv, JobsInv, OneAnswer, IsNewsJob, IsAnswerJob, LastOp
  <1>2. PICK R : R = Left(openRead)
    OBVIOUS
  <1>3. openRead' = R /\ openRead \in SUBSET {s \in Store : Open(s)}
    BY <1>2 DEF BridgeMoves, Moves, Moved, IInv, BridgeInv, OpenReadInv
  <1>4. LinkInv'
    <2> SUFFICES ASSUME NEW i \in DOMAIN link, link[i] \in Answer
                 PROVE  /\ AnswerInv(link[i], R)'
                        /\ \A j \in DOMAIN link : j < i => link[j].rev <= link[i].rev
                        /\ \A j \in DOMAIN link : j > i => Behind(link[j], link[i].rev)'
      BY <1>0, <1>3 DEF LinkInv
    <2>1. /\ AnswerInv(link[i], openRead)
          /\ \A j \in DOMAIN link : j < i => link[j].rev <= link[i].rev
          /\ \A j \in DOMAIN link : j > i => Behind(link[j], link[i].rev)
      BY DEF IInv, LinkInv
    <2>2. PICK a \in Answer : a = link[i]
      OBVIOUS
    <2>3. AnswerInv(a, R)'
      BY <1>2, <1>3, <2>1, <2>2, MovesAnswer
    <2>4. ASSUME NEW j \in DOMAIN link, j > i PROVE Behind(link[j], link[i].rev)'
      <3>1. PICK n, c : n = link[j] /\ c = link[i].rev
        OBVIOUS
      <3>2. c \in Nat /\ Taken(c, openRead) /\ Behind(n, c)
        BY <2>1, <2>2, <2>4, <3>1 DEF Answer, AnswerInv
      <3>3. Behind(n, c)'
        BY <3>2, MovesBehind
      <3> QED
        BY <1>0, <3>1, <3>3
    <2> QED
      BY <1>0, <2>1, <2>2, <2>3, <2>4
  <1>5. ReadyInv'
    <2> SUFFICES ASSUME syncPc = "answered"
                 PROVE  /\ AnswerInv(answer, openRead \cup ReadOver(answer.rev))'
                        /\ \A n \in OnLink : n.rev <= answer.rev
      BY <1>0 DEF ReadyInv
    <2>1. PICK a \in Answer : a = answer
      BY DEF IInv, TypeOK
    <2>2. PICK S : S = openRead \cup ReadOver(a.rev)
      OBVIOUS
    <2>3. AnswerInv(a, S) /\ \A n \in OnLink : n.rev <= a.rev
      BY <2>1, <2>2 DEF IInv, ReadyInv
    <2>4. a.rev \in Nat /\ a.rev <= led.rev
      BY <2>1, <2>3 DEF Answer, AnswerInv, Taken
    <2>5. ReadOver(a.rev) \subseteq {s \in Store : Open(s)}
          /\ ReadOver(a.rev)' = Left(ReadOver(a.rev))
      BY <2>4, ReadOverLeft
    <2>6. PICK T : T = Left(S)
      OBVIOUS
    <2>7. S \in SUBSET {s \in Store : Open(s)} /\ T = openRead' \cup ReadOver(a.rev)'
      BY <1>2, <1>3, <2>2, <2>5, <2>6 DEF Left
    <2>8. AnswerInv(a, T)'
      BY <2>3, <2>6, <2>7, MovesAnswer
    <2> QED
      BY <1>0, <2>1, <2>3, <2>7, <2>8
  <1> QED
    BY <1>1, <1>4, <1>5

LEMMA MovesInv ==
  ASSUME IInv, BridgeMoves, syncPc = "listed" => led' = led /\ ents' = ents
  PROVE  IInv'
  <1>1. AskedInv'
    BY DEF BridgeMoves, phoneVars, IInv, AskedInv, NeedsReset, ChangedSince, Only
  <1> QED
    BY <1>1, MovesNews, MovesDatabase, MovesFrames DEF IInv, BridgeMoves
--------------------------------------------------------------------------------
LEMMA PhoneTypes ==
  ASSUME IInv, BridgeInv', UNCHANGED phoneVars
  PROVE  TypeOK'
  BY DEF IInv, TypeOK, BridgeInv, phoneVars

\* A store of which no news is due has nothing to say.
LEMMA DueStays ==
  ASSUME IInv, due' = due, \A e \in Entity : (\E s \in Store : \E n \in DueOf(s) : n.id = e)
                                                => ents'[e] = ents[e]
  PROVE  DueSays' /\ Due' = Due
  <1>1. \A s \in Store : DueOf(s)' = DueOf(s) /\ DueOf(s) \subseteq News
    BY TypesOf DEF DueOf, IInv, Shaped
  <1>2. Due' = Due
    BY DEF Due, DueOf
  <1>3. DueSays'
    BY <1>1 DEF IInv, NewsInv, DueSays, News
  <1> QED
    BY <1>2, <1>3

LEMMA ChangeMoves ==
  ASSUME IInv, NEW s \in Store, ChangeEffect(s), UNCHANGED phoneVars
  PROVE  BridgeMoves
  <1>1. BridgeInv' /\ Moves
    BY ChangeStep DEF IInv
  <1>2. /\ due' = due /\ due[s] = <<>>
        /\ tx'[s].todo = {n.id : n \in NewsOf(s)'}
        /\ \A n \in NewsOf(s)' : StoreOf(n.id) = s
        /\ \A e \in Entity \ tx'[s].todo : ents'[e] = ents[e]
    BY DEF ChangeEffect, NewsEffect
  <1>3. DueOf(s) = {}
    BY <1>2 DEF DueOf
  <1>4. ASSUME NEW e \in Entity, NEW o \in Store, NEW n \in DueOf(o), n.id = e
        PROVE  ents'[e] = ents[e]
    <2>1. StoreOf(e) = o /\ o # s
      BY <1>3, <1>4 DEF IInv, NewsInv, DueSays
    <2> QED
      BY <1>2, <2>1
  <1>5. DueSays' /\ Due' = Due
    BY <1>2, <1>4, DueStays
  <1> QED
    BY <1>1, <1>5, PhoneTypes DEF BridgeMoves

LEMMA WriteMoves ==
  ASSUME IInv, BridgeInv', Moves, due' = due, ents' = ents, UNCHANGED phoneVars
  PROVE  BridgeMoves
  BY DueStays, PhoneTypes DEF BridgeMoves

LEMMA FlushMoves ==
  ASSUME IInv, NEW s \in Store, Flush(s), UNCHANGED phoneVars
  PROVE  BridgeMoves
  <1>1. BridgeInv' /\ Moves
    BY FlushStep DEF IInv
  <1>2. /\ ents' = ents /\ led' = led /\ savedLed' = led /\ savedEnts' = savedEnts
        /\ due' = [due EXCEPT ![s] = tx[s].news] /\ tx[s].todo = {} /\ Open(s)
    BY DEF Flush
  <1>3. DueOf(s)' = NewsOf(s) /\ \A o \in Store \ {s} : DueOf(o)' = DueOf(o)
    <2>1. due'[s] = tx[s].news /\ \A o \in Store \ {s} : due'[o] = due[o]
      BY <1>2 DEF IInv, TypeOK, BridgeTypeOK
    <2> QED
      BY <2>1 DEF DueOf, NewsOf
  <1>4. NewsOf(s)' = {} /\ tx'[s].todo = {}
    BY EndsEffect DEF IInv
  <1>5. \A n \in NewsOf(s) : /\ StoreOf(n.id) = s /\ n.rev > 0 /\ n.rev <= led.rev
                             /\ ents[n.id] = Value(n) /\ Holds(led, n) /\ n \in News
    BY Types DEF IInv, BridgeInv, TxInv
  <1>6. DueSays'
    BY <1>2, <1>3, <1>5 DEF IInv, NewsInv, DueSays
  <1>7. ASSUME NEW n \in NewsOf(s) PROVE NewDue(n)
    <2>1. n.rev > 0 /\ n.rev <= savedLed'.rev /\ NewsOf(StoreOf(n.id))' = {} /\ n \in Heard
      BY <1>2, <1>4, <1>5, HeardIs
    <2>2. n.rev \in Dates(led, ents[n.id], n.id) /\ n.id \in Entity
      <3>1. /\ n.id \in Entity /\ n.rev \in Nat /\ n.rev > 0 /\ n.gone \in BOOLEAN
            /\ led.horizon \in Nat
        BY <1>5, Types DEF News, IInv
      <3> QED
        BY <1>5, <3>1 DEF Dates, Value, Holds, Absent
    <2>3. ASSUME NEW w \in Truths({})', w.on = n.id
          PROVE  w.is = Value(n) /\ n.rev \in w.dates
      <3>1. CASE \E e \in Entity : w = Memory(e)'
        <4>1. w = Memory(n.id)'
          BY <2>3, <3>1, FieldsBecome
        <4> QED
          BY <1>2, <1>5, <2>2, <4>1, FieldsBecome
      <3>2. CASE \E e \in Sound' : w = Disk(e)'
        <4>1. w = Disk(n.id)' /\ n.id \in Sound'
          BY <2>3, <3>2, FieldsBecome
        <4>2. ~ahead'
          BY <4>1 DEF Sound
        <4>3. n.id \notin tx'[StoreOf(n.id)].todo
          BY <1>4, <1>5
        <4>4. savedEnts'[n.id] = ents'[n.id]
          BY <1>1, <2>2, <4>2, <4>3 DEF BridgeInv, OnDisk
        <4> QED
          BY <1>2, <1>5, <2>2, <4>1, <4>4, FieldsBecome
      <3> QED
        BY <2>3, <3>1, <3>2, TruthBecomes
    <2> QED
      BY <2>1, <2>3 DEF NewDue
  <1>8. \A n \in Due' : n \in Due \/ NewDue(n)
    BY <1>3, <1>7, HeardIs, HeardBecomes
  <1> QED
    BY <1>1, <1>6, <1>8, PhoneTypes DEF BridgeMoves

LEMMA BridgeStepInv ==
  ASSUME CursorSchedules, IInv, BridgeChange \/ BridgeWrite \/ BridgeFail
  PROVE  IInv'
  <1>0. BridgeInv /\ "threads" \in Store /\ "projects" \in Store
    BY DEF IInv, Store
  <1>1. CASE BridgeChange
    <2>1. syncPc # "listed" /\ Change /\ UNCHANGED phoneVars
      BY <1>1 DEF BridgeChange, CursorSchedules
    <2>2. PICK s \in Store : ChangeEffect(s)
      BY <1>0, <2>1, ChangeLemma
    <2> QED
      BY <2>1, <2>2, ChangeMoves, MovesInv
  <1>2. ASSUME NEW t \in Thread, WriteThread(t), UNCHANGED phoneVars PROVE IInv'
    <2>1. WriteEffect("threads", {t})
      BY <1>0, <1>2, WriteThreadEffect
    <2>2. BridgeInv' /\ Moves
      BY <1>0, <2>1, WriteStep
    <2>3. due' = due /\ ents' = ents /\ led' = led
      BY <2>1 DEF WriteEffect
    <2> QED
      BY <1>2, <2>2, <2>3, WriteMoves, MovesInv
  <1>3. ASSUME WriteProjects, UNCHANGED phoneVars PROVE IInv'
    <2>1. WriteEffect("projects", tx["projects"].todo)
      BY <1>0, <1>3, WriteProjectsEffect
    <2>2. BridgeInv' /\ Moves
      BY <1>0, <2>1, WriteStep
    <2>3. due' = due /\ ents' = ents /\ led' = led
      BY <2>1 DEF WriteEffect
    <2> QED
      BY <1>3, <2>2, <2>3, WriteMoves, MovesInv
  <1>4. ASSUME NEW s \in Store, Flush(s), UNCHANGED phoneVars PROVE IInv'
    <2>1. led' = led /\ ents' = ents
      BY <1>4 DEF Flush
    <2> QED
      BY <1>4, <2>1, FlushMoves, MovesInv
  <1>5. ASSUME NEW s \in Store, FailWrite(s), UNCHANGED phoneVars PROVE IInv'
    <2>1. led' = led /\ ents' = ents /\ due' = due
      BY <1>5 DEF FailWrite
    <2>2. BridgeInv' /\ Moves
      BY <1>0, <1>5, FailStep
    <2> QED
      BY <1>5, <2>1, <2>2, WriteMoves, MovesInv
  <1> QED
    BY <1>1, <1>2, <1>3, <1>4, <1>5 DEF BridgeWrite, BridgeFail
--------------------------------------------------------------------------------
(* The bridge rests, or restarts.                                              *)

\* A step that leaves true what the phone is told.
Keeps ==
  /\ BridgeInv' /\ NewsInv' /\ led'.store = led.store
  /\ \A n \in Heard' : n \in Heard
  /\ \A w \in Truths(openRead)' : w \in Truths(openRead)
  /\ \A c \in Nat : Taken(c, openRead) => Taken(c, openRead)'
  /\ \A w, c : After(w, c) => After(w, c)'
  /\ \A n, c : Behind(n, c) => Behind(n, c)'

\* A step in which nothing on the bridge changes but what waits to be told.
Rests == /\ Untouched /\ openRead' = openRead
         /\ BridgeInv' /\ DueSays'
         /\ \A n \in Heard' : n \in Heard
         /\ \A n \in Flushed' : n \in Flushed

LEMMA AfterKeeps ==
  ASSUME \A n \in Heard' : n \in Heard
  PROVE  \A w, c : After(w, c) => After(w, c)'
  BY DEF After

LEMMA RestsNews ==
  ASSUME IInv, Untouched, BridgeInv', DueSays',
         \A n \in Heard' : n \in Heard, \A n \in Flushed' : n \in Flushed
  PROVE  NewsInv'
  <1>0. savedLed' = savedLed /\ BridgeInv
    BY DEF Untouched, IInv
  <1>1. /\ \A s \in Store : NewsOf(s)' = NewsOf(s)
        /\ \A S : Truths(S)' = Truths(S)
    BY <1>0, UntouchedStep
  <1>2. \A w, c : After(w, c) => After(w, c)'
    BY AfterKeeps
  <1>3. Distinct'
    BY DEF IInv, NewsInv, Distinct
  <1>4. ASSUME NEW n \in Flushed' PROVE Settled(n)'
    <2>1. Settled(n)
      BY <1>4 DEF IInv, NewsInv
    <2>2. StoreOf(n.id) \in Store
      BY DEF StoreOf, Store
    <2>3. \A m \in NewsOf(StoreOf(n.id))' : n.rev < m.rev
      BY <1>1, <2>1, <2>2 DEF Settled
    <2>4. \A w \in Truths({})' : w.on = n.id => After(w, n.rev - 1)'
      BY <1>1, <1>2, <2>1 DEF Settled
    <2> QED
      BY <1>0, <2>1, <2>3, <2>4 DEF Settled
  <1> QED
    BY <1>3, <1>4 DEF NewsInv

LEMMA RestsKeeps ==
  ASSUME IInv, Rests
  PROVE  Keeps
  <1>0. /\ Untouched /\ openRead' = openRead /\ BridgeInv' /\ led' = led
        /\ \A n \in Heard' : n \in Heard
        /\ BridgeInv
    BY DEF Rests, Untouched, IInv
  <1>1. /\ \A S : Truths(S)' = Truths(S)
        /\ \A S : \A c \in Nat : Taken(c, S)' <=> Taken(c, S)
    BY <1>0, UntouchedStep
  <1>2. \A w, c : After(w, c) => After(w, c)'
    BY <1>0, AfterKeeps
  <1>3. PICK R : R = openRead
    OBVIOUS
  <1>4. openRead' = R
    BY <1>0, <1>3
  <1>5. /\ \A w \in Truths(openRead)' : w \in Truths(openRead)
        /\ \A c \in Nat : Taken(c, openRead) => Taken(c, openRead)'
    BY <1>1, <1>3, <1>4
  <1>6. \A n, c : Behind(n, c) => Behind(n, c)'
    BY <1>2, <1>5 DEF Behind
  <1>7. NewsInv'
    BY RestsNews DEF Rests
  <1> QED
    BY <1>0, <1>2, <1>5, <1>6, <1>7 DEF Keeps

\* Nothing but the phone's side changes, and no news comes to be heard.
Quiet == /\ UNCHANGED bridgeVars /\ \A n \in OnLink' : n \in OnLink

LEMMA QuietRests ==
  ASSUME IInv, Quiet
  PROVE  Rests
  <1>1. Untouched /\ due' = due /\ openRead' = openRead
    BY DEF Quiet, bridgeVars, Untouched
  <1>2. BridgeInv'
    BY <1>1, StillStep DEF IInv
  <1>3. DueSays' /\ Due' = Due
    BY <1>1, DueStays DEF Untouched
  <1>4. \A s \in Store : NewsOf(s)' = NewsOf(s)
    BY <1>1, UntouchedStep DEF IInv
  <1>5. \A n \in Flushed' : n \in Flushed
    BY <1>3, HeardIs, HeardBecomes DEF Quiet
  <1>6. \A n \in Heard' : n \in Heard
    BY <1>4, <1>5, HeardIs, HeardBecomes
  <1> QED
    BY <1>1, <1>2, <1>3, <1>5, <1>6 DEF Rests

(* The frames that are on the link stay in their order; what comes behind them *)
(* is news of what the bridge has.                                             *)
Current(n) == \A c \in Nat : Behind(n, c)'
Shifted(k) == \A i \in DOMAIN link' :
  \/ i + k \in DOMAIN link /\ link'[i] = link[i + k]
  \/ i + k > Len(link) /\ \E n \in News : link'[i] = n /\ Current(n)

LEMMA ShiftedNews ==
  ASSUME NEW k, Shifted(k), NEW n \in OnLink'
  PROVE  n \in OnLink \/ Current(n)
  BY DEF Shifted, OnLink

\* Nothing changes in the phone's database, nor is to be written to it.
Idle == jobs' = jobs /\ replica' = replica /\ cursor' = cursor /\ savedCursor' = savedCursor

LEMMA IdleDatabase ==
  ASSUME IInv, Keeps, Idle, \A n \in OnLink' : n \in OnLink \/ Current(n)
  PROVE  SavesInv' /\ CursorInv' /\ ApplyInv'
  <1>0. /\ led'.store = led.store /\ cursor' = cursor /\ savedCursor' = savedCursor
        /\ replica' = replica /\ jobs' = jobs
        /\ cursor.rev \in Nat
    BY TypesOf DEF Keeps, Idle, IInv, Shaped
  <1>1. SavesInv'
    BY <1>0 DEF IInv, SavesInv
  <1>2. CursorInv'
    <2>1. ASSUME Ours(cursor)
          PROVE  /\ Taken(cursor.rev, openRead)'
                 /\ \A w \in Truths(openRead)' : After(w, cursor.rev)' \/ Kept(w.on, w.is)'
      <3>1. /\ Taken(cursor.rev, openRead)
            /\ \A w \in Truths(openRead) : After(w, cursor.rev) \/ Kept(w.on, w.is)
        BY <2>1 DEF IInv, CursorInv
      <3>2. PICK c \in Nat : c = cursor.rev
        BY <1>0
      <3>3. Taken(c, openRead)' /\ \A w : After(w, c) => After(w, c)'
        BY <3>1, <3>2 DEF Keeps
      <3>4. \A w \in Truths(openRead)' : After(w, c)' \/ Kept(w.on, w.is)'
        BY <1>0, <3>1, <3>2, <3>3, DatabaseWords DEF Keeps
      <3> QED
        BY <1>0, <3>2, <3>3, <3>4
    <2> QED
      BY <1>0, <2>1 DEF IInv, CursorInv, Ours
  <1>3. ApplyInv'
    <2> SUFFICES ASSUME NEW i \in DOMAIN jobs, IsAnswerJob(jobs[i]), Len(jobs[i]) > 1,
                        LastOp(jobs[i]).cur.store = led.store
                 PROVE  LET c == LastOp(jobs[i]).cur.rev
                        IN /\ Taken(c, openRead)'
                           /\ \A w \in Truths(openRead)' : After(w, c)' \/ Right(w.on, w.is)'
                           /\ \A n \in OnLink' : Behind(n, c)'
      BY <1>0 DEF ApplyInv, Ours, LastOp, IsAnswerJob
    <2>1. PICK c : c = LastOp(jobs[i]).cur.rev
      OBVIOUS
    <2>2. c \in Nat
      <3>1. jobs[i] \in Seq(Op) /\ jobs[i] # <<>>
        BY TypesOf DEF IInv, Shaped
      <3>2. LastOp(jobs[i]) \in Op
        BY <3>1 DEF LastOp
      <3> QED
        BY <2>1, <3>2 DEF Op, Cursor, IsAnswerJob
    <2>3. /\ Taken(c, openRead)
          /\ \A w \in Truths(openRead) : After(w, c) \/ Right(w.on, w.is)
          /\ \A n \in OnLink : Behind(n, c)
      BY <2>1 DEF IInv, ApplyInv, Ours
    <2>4. Taken(c, openRead)'
      BY <2>2, <2>3 DEF Keeps
    <2>5. \A w \in Truths(openRead)' : After(w, c)' \/ Right(w.on, w.is)'
      BY <1>0, <2>3, DatabaseWords DEF Keeps
    <2>6. \A n \in OnLink' : Behind(n, c)'
      BY <2>2, <2>3 DEF Keeps, Current
    <2> QED
      BY <1>0, <2>1, <2>4, <2>5, <2>6
  <1> QED
    BY <1>1, <1>2, <1>3
--------------------------------------------------------------------------------
(* Answers on their way *)

\* A step that a, if it is on its way, allows.
AnswerStep(a) ==
  /\ asked' = asked /\ cursor'.store = cursor.store
  /\ cursor'.rev \in Nat /\ cursor.rev <= cursor'.rev
  /\ Ours(cursor) => cursor'.rev <= a.rev
  /\ \A e \in Entity : \A v : Brings(a, e, v) /\ ~Reads(a, e) => Kept(e, v)'

LEMMA AnswerMoves ==
  ASSUME IInv, Keeps, NEW S, NEW R, NEW a \in Answer, AnswerInv(a, S), AnswerStep(a),
         \A w \in Truths(R)' : w \in Truths(S), Taken(a.rev, S) => Taken(a.rev, R)'
  PROVE  AnswerInv(a, R)'
  <1>0. /\ led'.store = led.store /\ asked' = asked /\ cursor'.store = cursor.store
        /\ cursor'.rev \in Nat /\ cursor.rev <= cursor'.rev
        /\ asked.rev \in Nat /\ cursor.rev \in Nat
        /\ Ours(cursor) => cursor'.rev <= a.rev
    BY TypesOf DEF Keeps, AnswerStep, IInv, Shaped
  <1>1. ASSUME NEW e \in Entity, NEW v, Brings(a, e, v) PROVE Brings(a, e, v)'
    BY <1>0, <1>1 DEF Brings, Reads, ReadAs, AnswerStep, Keeps
  <1>2. ASSUME NEW w \in Truths(R)' PROVE After(w, a.rev)' \/ Brings(a, w.on, w.is)'
    <2>1. w \in Truths(S)
      BY <1>2
    <2>2. After(w, a.rev) \/ Brings(a, w.on, w.is)
      BY <2>1 DEF AnswerInv
    <2>3. w.on \in Entity
      BY <2>1, DatesBound DEF IInv
    <2> QED
      BY <1>1, <2>2, <2>3 DEF Keeps
  <1>3. Taken(a.rev, R)' /\ a.store = led'.store /\ \A e \in a.drop : a.put[e] = Absent
    BY <1>0 DEF AnswerInv
  <1>4. /\ ~a.reset => cursor'.store = led'.store
        /\ cursor'.store = led'.store => cursor'.rev <= a.rev
    BY <1>0 DEF AnswerInv, Ours
  <1>5. ~a.reset => asked'.rev <= cursor'.rev
    <2>1. ~a.reset => asked.rev <= cursor.rev
      BY DEF AnswerInv
    <2>2. PICK c \in Nat : c = cursor'.rev
      BY <1>0
    <2>3. cursor.rev <= c
      BY <1>0, <2>2
    <2>4. ~a.reset => asked.rev <= c
      BY <1>0, <2>1, <2>3
    <2> QED
      BY <1>0, <2>2, <2>4
  <1> QED
    BY <1>2, <1>3, <1>4, <1>5 DEF AnswerInv, Ours

\* Answer a is on the link, behind its first k frames.
OnWay(a, k) == \E i \in DOMAIN link : i > k /\ link[i] = a

LEMMA LinkMoves ==
  ASSUME IInv, Keeps, NEW k \in Nat, Shifted(k), DOMAIN link' \subseteq Nat \ {0},
         \A a \in Answer : AnswerInv(a, openRead) /\ OnWay(a, k) => AnswerStep(a)
  PROVE  LinkInv'
  <1>0. /\ DOMAIN link = 1 .. Len(link) /\ Len(link) \in Nat
        /\ \A i \in DOMAIN link : link[i] \in News \/ link[i] \in Answer
    BY TypesOf DEF IInv, Shaped
  <1> SUFFICES ASSUME NEW i \in DOMAIN link', link'[i] \in Answer
               PROVE  /\ AnswerInv(link[i], openRead)'
                      /\ \A j \in DOMAIN link' : j < i => link'[j].rev <= link'[i].rev
                      /\ \A j \in DOMAIN link' : j > i => Behind(link[j], link[i].rev)'
    BY DEF LinkInv
  <1>1. PICK a, R : a \in Answer /\ a = link'[i] /\ R = openRead'
    OBVIOUS
  <1>2. i + k \in DOMAIN link /\ link[i + k] = a
    BY <1>1, NewsIsNoAnswer DEF Shifted
  <1>3. /\ AnswerInv(a, openRead)
        /\ \A j \in DOMAIN link : j < i + k => link[j].rev <= a.rev
        /\ \A j \in DOMAIN link : j > i + k => Behind(link[j], a.rev)
    BY <1>1, <1>2 DEF IInv, LinkInv
  <1>4. AnswerInv(link[i], openRead)'
    <2>0. OnWay(a, k)
      BY <1>0, <1>2 DEF OnWay
    <2>1. AnswerStep(a)
      BY <1>1, <1>3, <2>0
    <2>2. \A w \in Truths(R)' : w \in Truths(openRead)
      BY <1>1 DEF Keeps
    <2>3. a.rev \in Nat
      BY <1>1 DEF Answer
    <2>4. Taken(a.rev, openRead) => Taken(a.rev, R)'
      BY <1>1, <2>3 DEF Keeps
    <2>5. AnswerInv(a, R)'
      BY <1>1, <1>3, <2>1, <2>2, <2>4, AnswerMoves
    <2> QED
      BY <1>1, <2>5
  <1>5. ASSUME NEW j \in DOMAIN link', j < i PROVE link'[j].rev <= link'[i].rev
    <2>1. j + k \in DOMAIN link /\ j + k < i + k
      BY <1>0, <1>2, <1>5
    <2>2. link'[j] = link[j + k]
      BY <1>0, <2>1 DEF Shifted
    <2> QED
      BY <1>1, <1>3, <2>1, <2>2
  <1>6. ASSUME NEW j \in DOMAIN link', j > i PROVE Behind(link[j], link[i].rev)'
    <2>1. CASE j + k \in DOMAIN link /\ link'[j] = link[j + k]
      <3>1. j + k > i + k
        BY <1>6
      <3>2. PICK n : n = link[j + k]
        OBVIOUS
      <3>3. Behind(n, a.rev)
        BY <1>3, <2>1, <3>1, <3>2
      <3>4. Behind(n, a.rev)'
        BY <3>3 DEF Keeps
      <3> QED
        BY <1>1, <2>1, <3>2, <3>4
    <2>2. CASE \E n \in News : link'[j] = n /\ Current(n)
      <3>1. PICK n \in News : link'[j] = n /\ Current(n)
        BY <2>2
      <3>2. Behind(n, a.rev)'
        BY <1>1, <3>1 DEF Current, Answer
      <3> QED
        BY <1>1, <3>1, <3>2
    <2> QED
      BY <2>1, <2>2 DEF Shifted
  <1> QED
    BY <1>4, <1>5, <1>6

LEMMA OneAnswerMoves ==
  ASSUME IInv, NEW k \in Nat, Shifted(k), DOMAIN link' \subseteq Nat \ {0},
         syncPc = "returning" => syncPc' = "returning"
  PROVE  OneAnswer'
  <1>1. ASSUME NEW i \in DOMAIN link', link'[i] \in Answer
        PROVE  i + k \in DOMAIN link /\ link[i + k] \in Answer
    BY <1>1, NewsIsNoAnswer DEF Shifted
  <1>2. ASSUME NEW i \in DOMAIN link', NEW j \in DOMAIN link',
               link'[i] \in Answer, link'[j] \in Answer
        PROVE  i = j
    <2>1. i + k = j + k
      BY <1>1, <1>2 DEF IInv, OneAnswer
    <2> QED
      BY <2>1
  <1>3. (\E i \in DOMAIN link' : link'[i] \in Answer) => syncPc' = "returning"
    BY <1>1 DEF IInv, OneAnswer
  <1> QED
    BY <1>2, <1>3 DEF OneAnswer

LEMMA ReadyMoves ==
  ASSUME IInv, Rests,
         syncPc = "answered" => \A n \in OnLink' : n \in OnLink \/ n.rev <= answer.rev,
         syncPc' = "answered" => syncPc = "answered" /\ answer' = answer,
         syncPc = "answered" =>
           \A S : AnswerInv(answer, S) => AnswerStep(answer)
  PROVE  ReadyInv'
  <1> SUFFICES ASSUME syncPc = "answered", answer' = answer
               PROVE  /\ AnswerInv(answer, openRead \cup ReadOver(answer.rev))'
                      /\ \A n \in OnLink' : n.rev <= answer.rev
    BY DEF ReadyInv
  <1>1. PICK a, S : a \in Answer /\ a = answer /\ S = openRead \cup ReadOver(answer.rev)
    BY DEF IInv, TypeOK
  <1>2. AnswerInv(a, S) /\ \A n \in OnLink : n.rev <= a.rev
    BY <1>1 DEF IInv, ReadyInv
  <1>3. /\ Keeps /\ BridgeInv /\ Untouched /\ openRead' = openRead
    BY RestsKeeps DEF Rests, IInv
  <1>4. /\ \A s \in Store : NewsOf(s)' = NewsOf(s)
        /\ \A T : Truths(T)' = Truths(T)
        /\ \A T : \A c \in Nat : Taken(c, T)' <=> Taken(c, T)
    BY <1>3, UntouchedStep
  <1>5. ReadOver(a.rev)' = ReadOver(a.rev)
    BY <1>4 DEF ReadOver
  <1>6. a.rev \in Nat
    BY <1>1 DEF Answer
  <1>7. AnswerInv(a, S)'
    <2>1. AnswerStep(a)
      BY <1>1, <1>2
    <2>2. \A w \in Truths(S)' : w \in Truths(S)
      BY <1>4
    <2>3. Taken(a.rev, S) => Taken(a.rev, S)'
      BY <1>4, <1>6
    <2> QED
      BY <1>1, <1>2, <1>3, <2>1, <2>2, <2>3, AnswerMoves
  <1>8. S = openRead' \cup ReadOver(a.rev)'
    BY <1>1, <1>3, <1>5
  <1> QED
    BY <1>1, <1>2, <1>7, <1>8

LEMMA AskedMoves ==
  ASSUME IInv, led' = led, ents' = ents,
         syncPc' \in {"requested", "listed"} =>
           /\ syncPc' = syncPc /\ asked' = asked /\ listed' = listed
           /\ cursor'.store = cursor.store
           /\ cursor'.rev \in Nat /\ cursor.rev <= cursor'.rev
  PROVE  AskedInv'
  <1>1. syncPc' \in {"requested", "listed"} => asked'.store = cursor'.store /\ asked'.rev <= cursor'.rev
    <2> SUFFICES ASSUME syncPc' \in {"requested", "listed"}
                 PROVE  asked'.store = cursor'.store /\ asked'.rev <= cursor'.rev
      OBVIOUS
    <2>1. /\ asked.rev <= cursor.rev /\ asked.store = cursor.store
          /\ asked.rev \in Nat /\ cursor.rev \in Nat
      BY TypesOf DEF IInv, AskedInv, Shaped
    <2>2. PICK c \in Nat : c = cursor'.rev
      OBVIOUS
    <2>3. asked.rev <= c
      BY <2>1, <2>2
    <2> QED
      BY <2>1, <2>2, <2>3
  <1>2. (syncPc = "listed" =>
           /\ listed.reset = NeedsReset(asked.store, asked.rev)
           /\ listed.put = Only(ChangedSince(Thread, IF listed.reset THEN 0 ELSE asked.rev), ents))'
    BY DEF IInv, AskedInv, NeedsReset, ChangedSince, Only
  <1> QED
    BY <1>1, <1>2 DEF AskedInv

LEMMA NoAnswers ==
  ASSUME \A i \in DOMAIN link' : link'[i] \notin Answer, syncPc' # "answered"
  PROVE  OneAnswer' /\ LinkInv' /\ ReadyInv'
  BY DEF OneAnswer, LinkInv, ReadyInv

LEMMA IdleAnswer ==
  ASSUME IInv, Idle, asked' = asked, NEW S, NEW a, AnswerInv(a, S)
  PROVE  AnswerStep(a)
  <1>1. cursor' = cursor /\ cursor.rev \in Nat /\ replica' = replica /\ jobs' = jobs
    BY TypesOf DEF IInv, Shaped, Idle
  <1>2. \A e \in Entity : \A v : Brings(a, e, v) /\ ~Reads(a, e) => Kept(e, v)'
    BY <1>1, DatabaseWords DEF Brings
  <1> QED
    BY <1>1, <1>2 DEF AnswerStep, AnswerInv

LEMMA IdleJobs ==
  ASSUME IInv, Idle, syncPc = "applying" => syncPc' = "applying"
  PROVE  JobsInv'
  BY DEF IInv, Idle, JobsInv, IsNewsJob, IsAnswerJob, LastOp

LEMMA SameFrames ==
  ASSUME link' = link, DOMAIN link \subseteq Nat
  PROVE  Shifted(0) /\ OnLink' = OnLink
  BY DEF Shifted, OnLink

\* The phone's sync is where it was, or starts.
Waits == /\ syncPc' = syncPc \/ (syncPc = "idle" /\ syncPc' = "start")
         /\ asked' = asked /\ listed' = listed /\ answer' = answer

LEMMA IdleStep ==
  ASSUME IInv, TypeOK', Rests, Idle, Waits, NEW k \in Nat, Shifted(k),
         syncPc = "answered" => \A n \in OnLink' : n \in OnLink \/ n.rev <= answer.rev
  PROVE  IInv'
  <1>1. Keeps /\ BridgeInv' /\ NewsInv'
    BY RestsKeeps DEF Rests, Keeps
  <1>2. DOMAIN link' \subseteq Nat \ {0} /\ cursor.rev \in Nat /\ cursor' = cursor
    <2>1. cursor.rev \in Nat /\ cursor' = cursor
      BY TypesOf DEF IInv, Shaped, Idle
    <2>2. PICK n : n = Len(link')
      OBVIOUS
    <2>3. n \in Nat /\ DOMAIN link' = 1 .. n
      BY <2>2, TypesOfNext DEF Shaped
    <2> QED
      BY <2>1, <2>3
  <1>3. JobsInv'
    BY IdleJobs DEF Waits
  <1>4. SavesInv' /\ CursorInv' /\ ApplyInv'
    BY <1>1, ShiftedNews, IdleDatabase
  <1>5. LinkInv' /\ OneAnswer'
    <2>1. \A a \in Answer : AnswerInv(a, openRead) /\ OnWay(a, k) => AnswerStep(a)
      BY IdleAnswer DEF Waits
    <2>2. syncPc = "returning" => syncPc' = "returning"
      BY DEF Waits
    <2> QED
      BY <1>1, <1>2, <2>1, <2>2, LinkMoves, OneAnswerMoves
  <1>6. ReadyInv'
    <2>1. \A S : AnswerInv(answer, S) => AnswerStep(answer)
      BY IdleAnswer DEF Waits
    <2>2. syncPc' = "answered" => syncPc = "answered" /\ answer' = answer
      BY DEF Waits
    <2> QED
      BY <2>1, <2>2, ReadyMoves
  <1>7. AskedInv'
    <2>1. led' = led /\ ents' = ents /\ cursor' = cursor
      BY DEF Rests, Untouched, Idle
    <2> QED
      BY <1>2, <2>1, AskedMoves DEF Waits
  <1> QED
    BY <1>1, <1>3, <1>4, <1>5, <1>6, <1>7 DEF IInv
--------------------------------------------------------------------------------
(* The steps that leave the database alone.                                    *)

LEMMA TailFrames ==
  ASSUME IInv, link # <<>>, link' = Tail(link)
  PROVE  /\ Shifted(1) /\ link' \in Seq(News \cup Answer)
         /\ \A n \in OnLink' : n \in OnLink
  <1>1. PICK q \in Seq(News \cup Answer) : q = link
    BY DEF IInv, TypeOK
  <1>2. /\ Tail(q) \in Seq(News \cup Answer)
        /\ \A i \in DOMAIN Tail(q) : i + 1 \in DOMAIN q /\ Tail(q)[i] = q[i + 1]
    BY <1>1
  <1>3. Shifted(1) /\ link' \in Seq(News \cup Answer)
    BY <1>1, <1>2 DEF Shifted
  <1>4. ASSUME NEW n \in OnLink' PROVE n \in OnLink
    BY <1>1, <1>2, <1>4 DEF OnLink
  <1> QED
    BY <1>3, <1>4

LEMMA LinkDomain ==
  ASSUME IInv
  PROVE  DOMAIN link \subseteq Nat
  BY TypesOf DEF IInv, Shaped

\* A step of the phone's side that only moves its flags.
LEMMA StillLink ==
  ASSUME IInv, TypeOK', UNCHANGED bridgeVars, link' = link, Idle, Waits
  PROVE  IInv'
  <1>1. Shifted(0) /\ OnLink' = OnLink
    BY LinkDomain, SameFrames
  <1>2. Rests
    BY <1>1, QuietRests DEF Quiet
  <1> QED
    BY <1>1, <1>2, IdleStep

LEMMA BridgeTypeStays ==
  ASSUME BridgeTypeOK, UNCHANGED bridgeVars
  PROVE  BridgeTypeOK'
  BY DEF BridgeTypeOK, bridgeVars

LEMMA WantSyncWaits ==
  ASSUME TypeOK, WantSync, asked' = asked, listed' = listed, answer' = answer
  PROVE  Waits /\ syncPc' \in SyncPc /\ again' \in BOOLEAN
  BY DEF WantSync, Waits, TypeOK, SyncPc

LEMMA ResumeStep ==
  ASSUME IInv, Resume
  PROVE  IInv'
  <1>1. /\ UNCHANGED bridgeVars /\ link' = link /\ Idle /\ Waits /\ connected' = connected
        /\ syncPc' \in SyncPc /\ again' \in BOOLEAN /\ loading' = loading
    BY WantSyncWaits DEF Resume, Idle, IInv
  <1>2. TypeOK'
    BY <1>1, BridgeTypeStays DEF IInv, TypeOK, Idle, Waits
  <1> QED
    BY <1>1, <1>2, StillLink

LEMMA ConnectStep ==
  ASSUME IInv, Connect
  PROVE  IInv'
  <1>1. /\ UNCHANGED bridgeVars /\ link' = link /\ Idle /\ Waits /\ connected' = TRUE
        /\ syncPc' \in SyncPc /\ again' \in BOOLEAN /\ loading' = loading
    BY WantSyncWaits DEF Connect, Idle, IInv
  <1>2. TypeOK'
    BY <1>1, BridgeTypeStays DEF IInv, TypeOK, Idle, Waits
  <1> QED
    BY <1>1, <1>2, StillLink

LEMMA LoadCursorStep ==
  ASSUME IInv, LoadCursor
  PROVE  IInv'
  <1>1. /\ UNCHANGED bridgeVars /\ link' = link /\ Idle /\ Waits /\ connected' = connected
        /\ again' = again /\ syncPc' = syncPc /\ loading' = FALSE
    BY DEF LoadCursor, Idle, Waits
  <1>2. TypeOK'
    BY <1>1, BridgeTypeStays DEF IInv, TypeOK, Idle, Waits
  <1> QED
    BY <1>1, <1>2, StillLink

LEMMA StutterStep ==
  ASSUME IInv, UNCHANGED vars
  PROVE  IInv'
  <1>1. /\ UNCHANGED bridgeVars /\ link' = link /\ Idle /\ Waits /\ connected' = connected
        /\ again' = again /\ syncPc' = syncPc /\ loading' = loading
    BY DEF vars, phoneVars, Idle, Waits
  <1>2. TypeOK'
    BY <1>1, BridgeTypeStays DEF IInv, TypeOK, Idle, Waits
  <1> QED
    BY <1>1, <1>2, StillLink

\* A frame is taken off the link and nothing else happens.
LEMMA TakenOff ==
  ASSUME IInv, UNCHANGED bridgeVars, link # <<>>, link' = Tail(link), Idle, Waits,
         connected' \in BOOLEAN, again' \in BOOLEAN, syncPc' = syncPc, loading' = loading
  PROVE  IInv'
  <1>1. /\ Shifted(1) /\ link' \in Seq(News \cup Answer)
        /\ \A n \in OnLink' : n \in OnLink
    BY TailFrames
  <1>2. TypeOK'
    BY <1>1, BridgeTypeStays DEF IInv, TypeOK, Idle, Waits
  <1>3. Rests
    BY <1>1, QuietRests DEF Quiet
  <1> QED
    BY <1>1, <1>2, <1>3, IdleStep

LEMMA DropStaleStep ==
  ASSUME IInv, DropStale
  PROVE  IInv'
  <1>1. /\ UNCHANGED bridgeVars /\ link # <<>> /\ link' = Tail(link) /\ Idle /\ Waits
        /\ connected' = connected /\ again' = again /\ syncPc' = syncPc /\ loading' = loading
    BY DEF DropStale, Receive, Requeue, CursorOf, Idle, Waits
  <1> QED
    BY <1>1, TakenOff DEF IInv, TypeOK

LEMMA EvictStep ==
  ASSUME IInv, Evict
  PROVE  IInv'
  <1>1. /\ UNCHANGED bridgeVars /\ link # <<>> /\ link' = Tail(link) /\ Idle /\ Waits
        /\ connected' = connected /\ again' = again /\ syncPc' = syncPc /\ loading' = loading
    BY DEF Evict, Idle, Waits
  <1> QED
    BY <1>1, TakenOff DEF IInv, TypeOK

(* What is due says what every truth says, so it may come behind any answer.   *)
LEMMA DueBehind ==
  ASSUME IInv, NEW s \in Store, NEW n \in DueOf(s), NEW S, NEW w \in Truths(S), w.on = n.id
  PROVE  w.is = Value(n)
  <1>1. StoreOf(n.id) = s /\ ents[n.id] = Value(n)
    BY DEF IInv, NewsInv, DueSays
  <1>2. due[s] # <<>>
    <2>1. due[s] = <<>> => DOMAIN due[s] = {}
      OBVIOUS
    <2> QED
      BY <2>1 DEF DueOf
  <1>3. ~Open(s) /\ BridgeInv
    BY <1>2 DEF IInv, BridgeInv, DueInv
  <1>4. n.id \in Entity
    BY TypesOf DEF IInv, Shaped, News
  <1>5. ~ahead => savedEnts[n.id] = ents[n.id]
    BY <1>1, <1>3, <1>4, ClosedStore
  <1>6. \A e \in Sound : ~ahead
    BY DEF Sound
  <1> QED
    BY <1>1, <1>5, <1>6, TruthIs, TruthFields

LEMMA AnnounceStep ==
  ASSUME CursorSchedules, IInv, NEW s \in Store, Announce(s)
  PROVE  IInv'
  <1>0. /\ syncPc = "answered" => \A i \in DOMAIN due[s] : due[s][i].rev <= answer.rev
        /\ Announced(s) /\ link' = link \o due[s] /\ Idle /\ Waits
        /\ connected' = connected /\ again' = again /\ syncPc' = syncPc /\ loading' = loading
    BY DEF Announce, CursorSchedules, Idle, Waits
  <1>1. BridgeInv' /\ Untouched /\ openRead' = openRead
    BY <1>0, AnnouncedStep DEF IInv
  <1>2. PICK q \in Seq(News \cup Answer), d \in Seq(News) : q = link /\ d = due[s]
    BY DEF IInv, TypeOK, BridgeTypeOK
  <1>3. /\ q \o d \in Seq(News \cup Answer)
        /\ \A i \in DOMAIN (q \o d) :
             \/ i \in DOMAIN q /\ (q \o d)[i] = q[i]
             \/ i > Len(q) /\ i - Len(q) \in DOMAIN d /\ (q \o d)[i] = d[i - Len(q)]
        /\ Len(q) \in Nat /\ DOMAIN (q \o d) \subseteq Nat
    <2>1. d \in Seq(News \cup Answer)
      OBVIOUS
    <2> QED
      BY <2>1
  <1>4. DueOf(s) \subseteq News /\ \A i \in DOMAIN d : d[i] \in DueOf(s)
    BY <1>2, TypesOf DEF IInv, Shaped, DueOf
  <1>5. \A i \in DOMAIN link' :
          \/ i \in DOMAIN link /\ link'[i] = link[i]
          \/ i > Len(link) /\ link'[i] \in DueOf(s)
    BY <1>0, <1>2, <1>3, <1>4
  <1>6. ASSUME NEW n \in DueOf(s) PROVE Current(n)
    <2>1. PICK R : R = openRead
      OBVIOUS
    <2>2. Truths(R)' = Truths(R) /\ openRead' = R
      BY <1>1, <2>1, UntouchedStep DEF IInv
    <2>3. \A w \in Truths(R)' : w.on = n.id => Value(n) = w.is
      BY <2>2, DueBehind
    <2> QED
      BY <2>2, <2>3 DEF Current, Behind
  <1>7. Shifted(0)
    BY <1>0, <1>2, <1>3, <1>4, <1>5, <1>6 DEF Shifted
  <1>8. \A n \in OnLink' : n \in OnLink \/ n \in DueOf(s)
    BY <1>5 DEF OnLink
  <1>9. DueOf(s)' = {} /\ \A o \in Store \ {s} : DueOf(o)' = DueOf(o)
    <2>1. due'[s] = <<>> /\ \A o \in Store \ {s} : due'[o] = due[o]
      BY <1>0 DEF Announced, IInv, TypeOK, BridgeTypeOK
    <2>2. DOMAIN due'[s] = {}
      BY <2>1
    <2> QED
      BY <2>1, <2>2 DEF DueOf
  <1>10. Rests
    <2>1. DueSays'
      BY <1>1, <1>9 DEF IInv, NewsInv, DueSays, Untouched
    <2>2. \A n \in Flushed' : n \in Flushed
      BY <1>8, <1>9, HeardIs, HeardBecomes
    <2>3. \A o \in Store : NewsOf(o)' = NewsOf(o)
      BY <1>1, UntouchedStep DEF IInv
    <2>4. \A n \in Heard' : n \in Heard
      BY <2>2, <2>3, HeardIs, HeardBecomes
    <2> QED
      BY <1>1, <2>1, <2>2, <2>4 DEF Rests
  <1>11. TypeOK'
    BY <1>0, <1>1, <1>2, <1>3 DEF IInv, TypeOK, Idle, Waits, BridgeInv
  <1>12. syncPc = "answered" => \A n \in OnLink' : n \in OnLink \/ n.rev <= answer.rev
    BY <1>0, <1>8 DEF DueOf
  <1> QED
    BY <1>0, <1>7, <1>10, <1>11, <1>12, IdleStep

\* No answer is on its way but where the request waits for it.
LEMMA NoneReturning ==
  ASSUME IInv, syncPc # "returning"
  PROVE  \A i \in DOMAIN link : link[i] \notin Answer
  BY DEF IInv, OneAnswer

\* A step that leaves the database alone, and after which no answer is on its way.
LEMMA NoAnswerStep ==
  ASSUME IInv, TypeOK', Keeps, Idle, \A n \in OnLink' : n \in OnLink \/ Current(n),
         \A i \in DOMAIN link' : link'[i] \notin Answer, syncPc' # "answered",
         syncPc = "applying" => syncPc' = "applying", AskedInv'
  PROVE  IInv'
  <1>1. OneAnswer' /\ LinkInv' /\ ReadyInv'
    BY NoAnswers
  <1>2. SavesInv' /\ CursorInv' /\ ApplyInv' /\ JobsInv'
    BY IdleDatabase, IdleJobs
  <1> QED
    BY <1>1, <1>2 DEF IInv, Keeps

LEMMA RequestSyncStep ==
  ASSUME CursorSchedules, IInv, RequestSync
  PROVE  IInv'
  <1>1. /\ UNCHANGED bridgeVars /\ link' = link /\ Idle /\ syncPc = "start"
        /\ syncPc' = "requested" /\ asked' = cursor
        /\ connected' = connected /\ again' = again /\ listed' = listed /\ answer' = answer
        /\ loading' = loading
    BY DEF RequestSync, Idle, CursorSchedules, CursorRead, Loaded
  <1>2. Shifted(0) /\ OnLink' = OnLink
    BY <1>1, LinkDomain, SameFrames
  <1>3. Keeps
    BY <1>1, <1>2, QuietRests, RestsKeeps DEF Quiet
  <1>4. TypeOK'
    BY <1>1, BridgeTypeStays DEF IInv, TypeOK, Idle, SyncPc
  <1>5. \A i \in DOMAIN link' : link'[i] \notin Answer
    BY <1>1, NoneReturning
  <1>6. AskedInv'
    BY <1>1, TypesOf DEF AskedInv, Idle, IInv, Shaped
  <1> QED
    BY <1>1, <1>2, <1>3, <1>4, <1>5, <1>6, NoAnswerStep

LEMMA ListThreadsStep ==
  ASSUME IInv, ListThreads
  PROVE  IInv'
  <1>1. /\ UNCHANGED bridgeVars /\ link' = link /\ Idle /\ syncPc = "requested"
        /\ syncPc' = "listed" /\ asked' = asked
        /\ connected' = connected /\ again' = again /\ answer' = answer
        /\ loading' = loading
    BY DEF ListThreads, Idle
  <1>2. Shifted(0) /\ OnLink' = OnLink
    BY <1>1, LinkDomain, SameFrames
  <1>3. Keeps
    BY <1>1, <1>2, QuietRests, RestsKeeps DEF Quiet
  <1>4. PICK reset, E : /\ reset = NeedsReset(asked.store, asked.rev)
                        /\ E = ChangedSince(Thread, IF reset THEN 0 ELSE asked.rev)
                        /\ listed' = [reset |-> reset, put |-> Only(E, ents)]
    BY DEF ListThreads
  <1>5. listed' \in [reset : BOOLEAN, put : Put]
    <2>1. reset \in BOOLEAN
      BY <1>4 DEF NeedsReset
    <2>2. Only(E, ents) \in Put
      BY DEF Only, Put, IInv, TypeOK, BridgeTypeOK, Absent
    <2> QED
      BY <1>4, <2>1, <2>2
  <1>6. TypeOK'
    BY <1>1, <1>5, BridgeTypeStays DEF IInv, TypeOK, Idle, SyncPc
  <1>7. \A i \in DOMAIN link' : link'[i] \notin Answer
    BY <1>1, NoneReturning
  <1>8. AskedInv'
    <2>1. asked.store = cursor.store /\ asked.rev <= cursor.rev
      BY <1>1 DEF IInv, AskedInv
    <2>2. led' = led /\ ents' = ents /\ cursor' = cursor
      BY <1>1 DEF bridgeVars, Idle
    <2> QED
      BY <1>1, <1>4, <2>1, <2>2 DEF AskedInv, NeedsReset, ChangedSince, Only
  <1> QED
    BY <1>1, <1>2, <1>3, <1>6, <1>7, <1>8, NoAnswerStep

LEMMA NewsOnly ==
  ASSUME IInv, link' \in OnlyNews
  PROVE  /\ link' \in Seq(News \cup Answer)
         /\ \A i \in DOMAIN link' : link'[i] \in OnLink
  <1>1. PICK q \in Seq(News \cup Answer) : q = link
    BY DEF IInv, TypeOK
  <1>2. PICK I : I = {i \in DOMAIN q : q[i] \in News}
    OBVIOUS
  <1>3. PICK p \in SetToSeqs(I) : link' = [k \in DOMAIN p |-> q[p[k]]]
    BY <1>1, <1>2 DEF OnlyNews
  <1>4. PICK n : n = Cardinality(I) /\ p \in [1 .. n -> I]
    BY DEF SetToSeqs
  <1>5. n \in Nat
    <2>1. IsFiniteSet(1 .. Len(q)) /\ I \subseteq 1 .. Len(q)
      BY <1>2, FS_Interval
    <2> QED
      BY <1>4, <2>1, FS_Subset, FS_CardinalityType
  <1>6. link' \in Seq(News \cup Answer)
    <2>1. link' \in [1 .. n -> News \cup Answer]
      BY <1>2, <1>3, <1>4
    <2> QED
      BY <1>5, <2>1 DEF Seq
  <1>7. \A i \in DOMAIN link' : link'[i] \in OnLink
    BY <1>1, <1>2, <1>3, <1>4 DEF OnLink
  <1> QED
    BY <1>6, <1>7

\* What fails with the connection, or with the bridge.
LEMMA DropRequestTypes ==
  ASSUME TypeOK, DropRequest
  PROVE  /\ syncPc' \in SyncPc /\ again' \in BOOLEAN /\ asked' \in Cursor
         /\ listed' \in [reset : BOOLEAN, put : Put] /\ answer' \in Answer
         /\ syncPc' \notin {"answered", "requested", "listed"}
         /\ syncPc = "applying" => syncPc' = "applying"
  <1>1. Nothing \in Put /\ NoList \in [reset : BOOLEAN, put : Put]
    BY DEF Nothing, Put, Absent, NoList
  <1>2. NoAnswer \in Answer /\ NoCursor \in Cursor
    BY <1>1 DEF NoAnswer, Answer, NoCursor, Cursor
  <1> QED
    BY <1>1, <1>2 DEF DropRequest, SyncPc

LEMMA DisconnectStep ==
  ASSUME IInv, Disconnect
  PROVE  IInv'
  <1>1. /\ UNCHANGED bridgeVars /\ link' \in OnlyNews /\ Idle /\ DropRequest
        /\ connected' = FALSE /\ loading' = loading
    BY DEF Disconnect, Idle
  <1>2. /\ link' \in Seq(News \cup Answer)
        /\ \A i \in DOMAIN link' : link'[i] \in OnLink
    BY <1>1, NewsOnly
  <1>3. \A n \in OnLink' : n \in OnLink
    BY <1>2 DEF OnLink
  <1>4. Keeps
    BY <1>1, <1>3, QuietRests, RestsKeeps DEF Quiet
  <1>5. TypeOK'
    BY <1>1, <1>2, DropRequestTypes, BridgeTypeStays DEF IInv, TypeOK, Idle
  <1>6. \A i \in DOMAIN link' : link'[i] \notin Answer
    BY <1>2, NewsIsNoAnswer DEF OnLink
  <1>7. AskedInv'
    BY <1>1, DropRequestTypes DEF AskedInv, IInv
  <1> QED
    BY <1>1, <1>3, <1>4, <1>5, <1>6, <1>7, DropRequestTypes, NoAnswerStep DEF IInv

LEMMA BridgeRestartStep ==
  ASSUME CursorSchedules, IInv, BridgeRestart
  PROVE  IInv'
  <1>1. /\ Restart \/ Recreate
        /\ connected' = FALSE /\ link' = <<>> /\ DropRequest /\ Idle /\ loading' = loading
    BY DEF BridgeRestart, Idle
  <1>2. \A i \in DOMAIN link' : FALSE
    BY <1>1
  <1>3. \A n \in OnLink' : FALSE
    BY <1>2 DEF OnLink
  <1>4. BridgeInv' /\ openRead' = {} /\ \A s \in Store : NewsOf(s)' = {} /\ due'[s] = <<>>
    BY <1>1, RestartStep, RecreateStep DEF IInv, CursorSchedules, SafeSchedules, RestartEffect
  <1>5. \A s \in Store : DueOf(s)' = {}
    <2> SUFFICES ASSUME NEW s \in Store PROVE DueOf(s)' = {}
      OBVIOUS
    <2>1. DOMAIN due'[s] = {}
      BY <1>4
    <2> QED
      BY <2>1 DEF DueOf
  <1>6. \A n : n \notin Heard'
    BY <1>3, <1>4, <1>5, HeardBecomes
  <1>7. NewsInv'
    BY <1>5, <1>6, HeardBecomes DEF NewsInv, Distinct, DueSays
  <1>8. TypeOK'
    <2>1. <<>> \in Seq(News \cup Answer)
      OBVIOUS
    <2> QED
      BY <1>1, <1>4, <2>1, DropRequestTypes DEF IInv, TypeOK, Idle, BridgeInv
  <1>9. AskedInv'
    BY <1>1, DropRequestTypes DEF AskedInv, IInv
  <1>10. CASE Restart
    <2>1. RestartEffect
      BY <1>10, RestartStep DEF IInv, CursorSchedules, SafeSchedules
    <2>2. \A w, c : After(w, c) => After(w, c)'
      BY <1>6, AfterKeeps
    <2>3. \A n, c : Behind(n, c) => Behind(n, c)'
      <3>1. PICK R : R = {}
        OBVIOUS
      <3>2. openRead = R /\ openRead' = R /\ \A w \in Truths(R)' : w \in Truths(R)
        BY <2>1, <3>1 DEF RestartEffect
      <3> QED
        BY <2>2, <3>2 DEF Behind
    <2>4. Keeps
      <3>1. PICK R : R = {}
        OBVIOUS
      <3>2. /\ openRead = R /\ openRead' = R /\ \A w \in Truths(R)' : w \in Truths(R)
            /\ \A c \in Nat : Taken(c, R) => Taken(c, R)'
            /\ led'.store = led.store
        BY <2>1, <3>1 DEF RestartEffect
      <3>3. /\ \A w \in Truths(openRead)' : w \in Truths(openRead)
            /\ \A c \in Nat : Taken(c, openRead) => Taken(c, openRead)'
        BY <3>2
      <3> QED
        BY <1>4, <1>6, <1>7, <2>2, <2>3, <3>2, <3>3 DEF Keeps
    <2> QED
      BY <1>1, <1>2, <1>3, <1>8, <1>9, <2>4, DropRequestTypes, NoAnswerStep DEF IInv
  <1>11. CASE Recreate
    <2>1. led'.store = led.store + 1
      BY <1>11, RecreateStep DEF IInv
    <2>2. Idle /\ Shaped
      BY <1>1, TypesOf DEF IInv
    <2>3. PICK m \in Nat : m = led'.store /\ m = led.store + 1
      BY <2>1, <2>2 DEF Shaped
    <2>4. CursorInv'
      <3>1. cursor'.store <= led'.store /\ cursor'.store # led'.store
        BY <2>2, <2>3 DEF IInv, CursorInv, Idle, Shaped
      <3> QED
        BY <2>2, <3>1 DEF IInv, CursorInv, Idle, Ours
    <2>5. ASSUME NEW i \in DOMAIN jobs, IsAnswerJob(jobs[i])
          PROVE  LastOp(jobs[i]).cur.store \in Nat
      <3>1. jobs[i] \in Seq(Op) /\ jobs[i] # <<>>
        BY <2>2 DEF Shaped
      <3>2. LastOp(jobs[i]) \in Op
        BY <3>1 DEF LastOp
      <3> QED
        BY <2>5, <3>2 DEF Op, Cursor, IsAnswerJob
    <2>6. SavesInv'
      <3> SUFFICES ASSUME NEW i \in DOMAIN jobs, NEW k \in DOMAIN jobs[i], jobs[i][k].kind = "save",
                          NEW c, c = jobs[i][k].cur
                   PROVE  IF IsAnswerJob(jobs[i]) /\ Len(jobs[i]) > 1
                            THEN /\ cursor.store <= c.store /\ c.store <= led'.store
                                 /\ c.store = cursor.store => cursor.rev <= c.rev
                            ELSE /\ c.store <= cursor.store
                                 /\ c.store = cursor.store => c.rev <= cursor.rev
        BY <2>2 DEF SavesInv, Idle, IsAnswerJob, LastOp
      <3>1. /\ IsAnswerJob(jobs[i]) /\ Len(jobs[i]) > 1 =>
                 /\ cursor.store <= c.store /\ c.store <= led.store
                 /\ c.store = cursor.store => cursor.rev <= c.rev
            /\ ~(IsAnswerJob(jobs[i]) /\ Len(jobs[i]) > 1) =>
                 /\ c.store <= cursor.store
                 /\ c.store = cursor.store => c.rev <= cursor.rev
        BY DEF IInv, SavesInv
      <3>2. c.store \in Nat
        <4>1. jobs[i] \in Seq(Op)
          BY <2>2 DEF Shaped
        <4>2. jobs[i][k] \in Op
          BY <4>1
        <4> QED
          BY <4>2 DEF Op, Cursor
      <3>3. c.store <= led.store => c.store <= led'.store
        <4>1. PICK x \in Nat, l \in Nat : x = c.store /\ l = led.store
          BY <2>2, <3>2 DEF Shaped
        <4>2. led'.store = l + 1
          BY <2>1, <4>1
        <4>3. x <= l => x <= l + 1
          OBVIOUS
        <4> QED
          BY <4>1, <4>2, <4>3
      <3> QED
        BY <3>1, <3>3
    <2>7. ApplyInv'
      <3> SUFFICES ASSUME NEW i \in DOMAIN jobs, IsAnswerJob(jobs[i]), Len(jobs[i]) > 1,
                          LastOp(jobs[i]).cur.store = led'.store
                   PROVE  FALSE
        BY <2>2 DEF ApplyInv, Ours, LastOp, IsAnswerJob, Idle
      <3>1. Len(jobs[i]) \in DOMAIN jobs[i]
        BY <2>2 DEF Shaped
      <3>2. LastOp(jobs[i]).cur.store <= led.store
        BY <3>1 DEF IInv, SavesInv, IsAnswerJob, LastOp
      <3>3. PICK r \in Nat : r = LastOp(jobs[i]).cur.store
        BY <2>5
      <3> QED
        BY <2>2, <2>3, <3>2, <3>3 DEF Shaped
    <2>8. OneAnswer' /\ LinkInv' /\ ReadyInv' /\ JobsInv'
      BY <1>1, <1>2, <2>2, DropRequestTypes, NoAnswers, IdleJobs DEF IInv
    <2> QED
      BY <1>4, <1>7, <1>8, <1>9, <2>4, <2>6, <2>7, <2>8 DEF IInv
  <1> QED
    BY <1>1, <1>10, <1>11
--------------------------------------------------------------------------------
(* The answer                                                                  *)

\* What the handler reads at the end, over every open transaction.
ReadAnswer(a) ==
  LET from == IF listed.reset THEN 0 ELSE asked.rev
      projects == ChangedSince(Project, from)
  IN a = [store |-> led.store, rev |-> led.rev, reset |-> listed.reset,
          put |-> [e \in Entity |-> IF e \in projects THEN ents[e] ELSE listed.put[e]],
          drop |-> IF listed.reset THEN {} ELSE DeletedSince(Entity, from)]

LEMMA WhatItReads ==
  ASSUME IInv, syncPc = "listed", NEW a, ReadAnswer(a)
  PROVE  /\ \A e \in Entity : a.put[e] =
              IF ents[e] # Absent /\ (a.reset \/ ents[e] > asked.rev) THEN ents[e] ELSE Absent
         /\ a.drop = {e \in Entity : ~a.reset /\ led.tomb[e] > asked.rev}
         /\ a.put \in Put
  <1>0. /\ listed.put = Only(ChangedSince(Thread, IF listed.reset THEN 0 ELSE asked.rev), ents)
        /\ Thread \cap Project = {} /\ \A e \in Entity : ents[e] \in Nat
    BY BridgeAssumption, Types DEF IInv, AskedInv
  <1>1. ASSUME NEW e \in Entity
        PROVE  a.put[e] = IF ents[e] # Absent /\ (a.reset \/ ents[e] > asked.rev)
                            THEN ents[e] ELSE Absent
    <2>1. PICK from : from = IF listed.reset THEN 0 ELSE asked.rev
      OBVIOUS
    <2>2. listed.put[e] = IF e \in Thread /\ ents[e] # Absent /\ ents[e] > from
                            THEN ents[e] ELSE Absent
      BY <1>0, <2>1 DEF Only, ChangedSince
    <2>3. a.put[e] = IF e \in Project /\ ents[e] # Absent /\ ents[e] > from
                       THEN ents[e] ELSE listed.put[e]
      BY <2>1 DEF ReadAnswer, ChangedSince
    <2>4. e \in Thread \/ e \in Project
      BY DEF Entity
    <2>5. a.put[e] = IF ents[e] # Absent /\ ents[e] > from THEN ents[e] ELSE Absent
      BY <1>0, <2>2, <2>3, <2>4
    <2>6. ents[e] # Absent => (ents[e] > from <=> a.reset \/ ents[e] > asked.rev)
      BY <1>0, <2>1 DEF ReadAnswer, Absent
    <2> QED
      BY <2>5, <2>6
  <1>2. a.drop = {e \in Entity : ~a.reset /\ led.tomb[e] > asked.rev}
    BY DEF ReadAnswer, DeletedSince
  <1>3. a.put = [e \in Entity |-> a.put[e]]
    <2> DEFINE g(e) == IF e \in ChangedSince(Project, IF listed.reset THEN 0 ELSE asked.rev)
                         THEN ents[e] ELSE listed.put[e]
    <2>1. a.put = [e \in Entity |-> g(e)]
      BY DEF ReadAnswer
    <2> HIDE DEF g
    <2> QED
      BY <2>1
  <1>4. a.put \in Put
    BY <1>0, <1>1, <1>3 DEF Put, Absent
  <1> QED
    BY <1>1, <1>2, <1>4

\* What memory says of the past of an entity the answer leaves out.
LEMMA LeftOut ==
  ASSUME IInv, NEW e \in Entity, led.horizon <= asked.rev,
         led.tomb[e] <= asked.rev, ents[e] <= asked.rev
  PROVE  /\ \A r \in Memory(e).dates : r \in Nat /\ r <= asked.rev
         /\ \A n \in Heard : n.id = e => n.rev <= asked.rev
  <1>0. BridgeInv /\ asked.rev \in Nat
    BY TypesOf DEF IInv, Shaped
  <1>1. \A r \in Memory(e).dates : r \in Nat /\ r <= asked.rev
    <2>1. Memory(e).dates = Dates(led, ents[e], e)
      BY TruthFields
    <2>2. led.horizon \in Nat /\ led.tomb[e] \in Nat /\ ents[e] \in Nat
      BY <1>0, Types
    <2>3. \A r \in 0 .. led.horizon : r \in Nat /\ r <= asked.rev
      BY <1>0, <2>2
    <2> QED
      BY <2>1, <2>2, <2>3 DEF Dates
  <1>2. ASSUME NEW n \in Heard, n.id = e PROVE n.rev <= asked.rev
    <2>0. n \in News /\ n.rev \in Nat
      BY <1>2, HeardRevs
    <2>1. CASE n \in Flushed
      <3>1. Memory(e) \in Truths({})
        BY TruthIs
      <3>2. After(Memory(e), n.rev - 1)
        BY <1>2, <2>1, <3>1, TruthFields DEF IInv, NewsInv, Settled
      <3>3. PICK r \in Memory(e).dates : r > n.rev - 1
        BY <3>2 DEF After
      <3> QED
        BY <1>0, <1>1, <2>0, <3>3
    <2>2. ASSUME NEW s \in Store, n \in NewsOf(s) PROVE n.rev <= asked.rev
      <3>1. n.rev > 0 /\ ents[e] = Value(n) /\ Holds(led, n)
        BY <1>0, <1>2, <2>2 DEF BridgeInv, TxInv
      <3>2. CASE n.gone
        <4>1. led.horizon \in Nat
          BY <1>0, Types
        <4> QED
          BY <1>0, <1>2, <2>0, <3>1, <3>2, <4>1 DEF Holds
      <3>3. CASE ~n.gone
        BY <1>0, <3>1, <3>3 DEF Value
      <3> QED
        BY <3>2, <3>3
    <2> QED
      BY <1>2, <2>1, <2>2, HeardIs
  <1> QED
    BY <1>1, <1>2
LEMMA AnswerIsRight ==
  ASSUME IInv, syncPc = "listed", NEW a, ReadAnswer(a), NEW S, S = openRead \cup ReadOver(led.rev)
  PROVE  AnswerInv(a, S) /\ a \in Answer
  <1>0. /\ BridgeInv /\ Shaped /\ listed \in [reset : BOOLEAN, put : Put]
        /\ a.store = led.store /\ a.rev = led.rev /\ a.reset = listed.reset
        /\ CursorInv
    BY TypesOf DEF IInv, TypeOK, ReadAnswer
  <1>1. /\ \A e \in Entity : a.put[e] =
             IF ents[e] # Absent /\ (a.reset \/ ents[e] > asked.rev) THEN ents[e] ELSE Absent
        /\ a.drop = {e \in Entity : ~a.reset /\ led.tomb[e] > asked.rev}
        /\ a.put \in Put
    BY WhatItReads
  <1>2. a \in Answer
    <2>1. a = [store |-> a.store, rev |-> a.rev, reset |-> a.reset, put |-> a.put, drop |-> a.drop]
      BY DEF ReadAnswer
    <2>2. a.store \in Nat /\ a.rev \in Nat /\ a.reset \in BOOLEAN
      BY <1>0 DEF Shaped
    <2>3. a.drop \in SUBSET Entity
      BY <1>1
    <2> QED
      BY <1>1, <2>1, <2>2, <2>3 DEF Answer
  <1>3. \A s \in Store : Open(s) => s \in S
    BY <1>0, Types DEF ReadOver, BridgeInv, TxInv
  <1>4. Taken(a.rev, S)
    <2>1. S = {} /\ Calm => Durable(led.rev)
      BY <1>0, <1>3 DEF BridgeInv, CounterOnDisk, Calm
    <2> QED
      BY <1>0, <2>1 DEF Taken, Shaped
  <1>5. ~a.reset => /\ Ours(cursor) /\ asked.rev <= cursor.rev
                    /\ led.horizon <= asked.rev
    <2>1. /\ asked.store = cursor.store /\ asked.rev <= cursor.rev
          /\ listed.reset = NeedsReset(asked.store, asked.rev)
      BY DEF IInv, AskedInv
    <2>2. led.horizon \in Nat
      BY <1>0, Types
    <2> QED
      BY <1>0, <2>1, <2>2 DEF NeedsReset, Ours, Shaped
  <1>6. Ours(cursor) => cursor.rev <= a.rev
    BY <1>0 DEF CursorInv, Taken
  <1>7. \A e \in Entity : led.tomb[e] # Absent => ents[e] = Absent
    BY <1>0 DEF BridgeInv, OneTrace
  <1>8. \A e \in a.drop : e \in Entity /\ ~a.reset /\ ents[e] = Absent /\ a.put[e] = Absent
    BY <1>0, <1>1, <1>7, Types DEF Shaped, Absent
  <1>9. ASSUME NEW e \in Entity PROVE Brings(a, e, ents[e])
    <2>1. CASE e \in a.drop
      BY <1>8, <2>1 DEF Brings, Reads, ReadAs
    <2>2. CASE e \notin a.drop /\ a.put[e] # Absent
      BY <1>1, <2>2 DEF Brings, Reads, ReadAs
    <2>3. CASE e \notin a.drop /\ a.put[e] = Absent /\ a.reset
      BY <1>1, <2>3 DEF Brings, Reads, ReadAs
    <2>4. CASE e \notin a.drop /\ a.put[e] = Absent /\ ~a.reset
      <3>0. led.tomb[e] \in Nat /\ ents[e] \in Nat /\ asked.rev \in Nat
        BY <1>0, Types DEF Shaped
      <3>1. led.tomb[e] <= asked.rev /\ ents[e] <= asked.rev
        <4>1. ~(led.tomb[e] > asked.rev)
          BY <1>1, <2>4
        <4>2. ents[e] # Absent => ~(ents[e] > asked.rev)
          BY <1>1, <2>4
        <4> QED
          BY <3>0, <4>1, <4>2 DEF Absent
      <3>2. /\ \A r \in Memory(e).dates : r \in Nat /\ r <= asked.rev
            /\ \A n \in Heard : n.id = e => n.rev <= asked.rev
        BY <1>5, <2>4, <3>1, LeftOut
      <3>3. ~After(Memory(e), cursor.rev)
        BY <1>0, <1>5, <2>4, <3>2 DEF After, Shaped
      <3>4. Memory(e) \in Truths(openRead)
        BY TruthIs
      <3>5. Kept(e, ents[e])
        BY <1>0, <1>5, <2>4, <3>3, <3>4, TruthFields DEF CursorInv
      <3> QED
        BY <2>4, <3>2, <3>5 DEF Brings, Reads
    <2> QED
      BY <2>1, <2>2, <2>3, <2>4
  <1>10. ASSUME NEW w \in Truths(S) PROVE Brings(a, w.on, w.is)
    <2>1. CASE \E e \in Entity : w = Memory(e)
      BY <1>9, <2>1, TruthFields
    <2>2. ASSUME NEW e \in Sound, StoreOf(e) \notin S, w = Disk(e) PROVE Brings(a, w.on, w.is)
      <3>1. e \in Entity /\ ~ahead /\ StoreOf(e) \in Store
        BY <1>0, Types DEF Sound
      <3>2. savedEnts[e] = ents[e]
        BY <1>0, <1>3, <2>2, <3>1, ClosedStore
      <3> QED
        BY <1>9, <2>2, <3>1, <3>2, TruthFields
    <2> QED
      BY <1>10, <2>1, <2>2, TruthIs
  <1> QED
    BY <1>0, <1>2, <1>4, <1>5, <1>6, <1>8, <1>10 DEF AnswerInv

LEMMA ReadRestStep ==
  ASSUME IInv, ReadRest
  PROVE  IInv'
  <1>1. /\ UNCHANGED bridgeVars /\ link' = link /\ Idle /\ syncPc = "listed"
        /\ syncPc' = "answered" /\ asked' = asked /\ listed' = NoList
        /\ connected' = connected /\ again' = again /\ loading' = loading
    BY DEF ReadRest, Idle
  <1>2. Shifted(0) /\ OnLink' = OnLink
    BY <1>1, LinkDomain, SameFrames
  <1>3. Rests
    BY <1>1, <1>2, QuietRests DEF Quiet
  <1>4. Keeps
    BY <1>3, RestsKeeps
  <1>5. PICK a, S : a = answer' /\ ReadAnswer(a) /\ S = openRead \cup ReadOver(led.rev)
    BY DEF ReadRest, ReadAnswer
  <1>6. AnswerInv(a, S) /\ a \in Answer
    BY <1>1, <1>5, AnswerIsRight
  <1>7. TypeOK'
    <2>1. NoList \in [reset : BOOLEAN, put : Put]
      BY DEF NoList, Nothing, Put, Absent
    <2> QED
      BY <1>1, <1>5, <1>6, <2>1, BridgeTypeStays DEF IInv, TypeOK, Idle, SyncPc
  <1>8. \A i \in DOMAIN link' : link'[i] \notin Answer
    BY <1>1, NoneReturning
  <1>9. OneAnswer' /\ LinkInv'
    BY <1>8 DEF OneAnswer, LinkInv
  <1>10. SavesInv' /\ CursorInv' /\ ApplyInv' /\ JobsInv'
    BY <1>1, <1>2, <1>4, IdleDatabase, IdleJobs
  <1>11. a.rev = led.rev /\ a.rev \in Nat
    BY <1>5, <1>6 DEF ReadAnswer, Answer
  <1>12. AnswerInv(a, S)'
    <2>1. AnswerStep(a)
      BY <1>1, <1>6, IdleAnswer
    <2>2. /\ \A w \in Truths(S)' : w \in Truths(S)
          /\ Taken(a.rev, S) => Taken(a.rev, S)'
      BY <1>3, <1>11, UntouchedStep DEF Rests, IInv
    <2> QED
      BY <1>4, <1>6, <2>1, <2>2, AnswerMoves
  <1>13. S = openRead' \cup ReadOver(a.rev)'
    <2>1. ReadOver(a.rev)' = ReadOver(a.rev)
      BY <1>3, <1>11, UntouchedStep DEF Rests, IInv
    <2> QED
      BY <1>3, <1>5, <1>11, <2>1 DEF Rests
  <1>14. \A n \in OnLink : n.rev <= a.rev
    BY <1>11, HeardRevs, HeardIs
  <1>15. ReadyInv'
    BY <1>2, <1>5, <1>12, <1>13, <1>14 DEF ReadyInv
  <1>16. AskedInv'
    BY <1>1 DEF AskedInv
  <1> QED
    BY <1>4, <1>7, <1>9, <1>10, <1>15, <1>16 DEF IInv, Keeps

\* What an answer is sent over stays as it was read.
LEMMA SendKeeps ==
  ASSUME IInv, NEW c \in Nat, Untouched, due' = due, openRead' = openRead \cup ReadOver(c),
         \A n \in OnLink' : n \in OnLink
  PROVE  Keeps
  <1>0. BridgeInv /\ BridgeInv' /\ led' = led
    BY AnsweredStep DEF IInv, Untouched
  <1>1. /\ \A s \in Store : NewsOf(s)' = NewsOf(s)
        /\ \A S : Truths(S)' = Truths(S)
        /\ \A S : \A r \in Nat : Taken(r, S)' <=> Taken(r, S)
    BY <1>0, UntouchedStep
  <1>2. DueSays' /\ Due' = Due
    BY DueStays DEF Untouched
  <1>3. /\ \A n \in Flushed' : n \in Flushed
        /\ \A n \in Heard' : n \in Heard
    BY <1>1, <1>2, HeardIs, HeardBecomes
  <1>4. NewsInv'
    BY <1>0, <1>2, <1>3, RestsNews
  <1>5. PICK R : R = openRead' /\ openRead \subseteq R
    OBVIOUS
  <1>6. \A w \in Truths(openRead)' : w \in Truths(openRead)
    <2>1. \A w \in Truths(R) : w \in Truths(openRead)
      BY <1>5, TruthIs
    <2> QED
      BY <1>1, <1>5, <2>1
  <1>7. \A r \in Nat : Taken(r, openRead) => Taken(r, openRead)'
    <2>1. \A r \in Nat : Taken(r, openRead) => Taken(r, R)
      BY <1>5 DEF Taken
    <2> QED
      BY <1>1, <1>5, <2>1
  <1>8. \A w, r : After(w, r) => After(w, r)'
    BY <1>3, AfterKeeps
  <1>9. \A n, r : Behind(n, r) => Behind(n, r)'
    BY <1>6, <1>8 DEF Behind
  <1> QED
    BY <1>0, <1>3, <1>4, <1>6, <1>7, <1>8, <1>9 DEF Keeps

LEMMA SendAnswerStep ==
  ASSUME IInv, SendAnswer
  PROVE  IInv'
  <1>0. /\ Untouched /\ due' = due /\ openRead' = openRead \cup ReadOver(answer.rev)
        /\ link' = Append(link, answer) /\ Idle /\ syncPc = "answered"
        /\ syncPc' = "returning" /\ asked' = asked /\ listed' = listed /\ answer' = NoAnswer
        /\ connected' = connected /\ again' = again /\ loading' = loading
    BY DEF SendAnswer, Untouched, Idle
  <1>1. PICK a, q, R : /\ a \in Answer /\ a = answer /\ q \in Seq(News \cup Answer) /\ q = link
                       /\ R = openRead'
    BY DEF IInv, TypeOK
  <1>2. PICK m \in Nat : m = Len(q)
    BY <1>1
  <1>3. /\ Append(q, a) \in Seq(News \cup Answer)
        /\ DOMAIN q = 1 .. m /\ DOMAIN Append(q, a) = 1 .. m + 1
        /\ Append(q, a)[m + 1] = a /\ \A i \in 1 .. m : Append(q, a)[i] = q[i]
    BY <1>1, <1>2
  <1>4. link' = Append(q, a) /\ a.rev \in Nat
    BY <1>0, <1>1 DEF Answer
  <1>5. \A i \in 1 .. m : q[i] \notin Answer /\ q[i] \in OnLink
    <2>1. \A i \in DOMAIN link : link[i] \notin Answer
      BY <1>0, NoneReturning
    <2> QED
      BY <1>1, <1>3, <2>1 DEF OnLink
  <1>6. \A n \in OnLink' : n \in OnLink
    <2>1. a \notin News
      BY <1>1, NewsIsNoAnswer
    <2> QED
      BY <1>3, <1>4, <1>5, <2>1 DEF OnLink
  <1>7. Keeps
    BY <1>0, <1>1, <1>4, <1>6, SendKeeps
  <1>8. TypeOK'
    <2>1. NoAnswer \in Answer
      BY DropRequestTypes DEF NoAnswer, Answer, Nothing, Put, Absent
    <2>2. BridgeTypeOK'
      BY <1>7 DEF Keeps, BridgeInv
    <2> QED
      BY <1>0, <1>3, <1>4, <2>1, <2>2 DEF IInv, TypeOK, Idle, SyncPc
  <1>9. SavesInv' /\ CursorInv' /\ ApplyInv' /\ JobsInv'
    BY <1>0, <1>6, <1>7, IdleDatabase, IdleJobs
  <1>10. AnswerInv(a, R) /\ \A n \in OnLink : n.rev <= a.rev
    BY <1>0, <1>1 DEF IInv, ReadyInv
  <1>11. AnswerInv(a, R)'
    <2>1. AnswerStep(a)
      BY <1>0, <1>10, IdleAnswer
    <2>2. /\ \A w \in Truths(R)' : w \in Truths(R)
          /\ Taken(a.rev, R) => Taken(a.rev, R)'
      BY <1>0, <1>4, UntouchedStep DEF IInv
    <2> QED
      BY <1>1, <1>7, <1>10, <2>1, <2>2, AnswerMoves
  <1>12. \A i \in DOMAIN link' : link'[i] \in Answer => i = m + 1
    BY <1>3, <1>4, <1>5
  <1>13. OneAnswer'
    BY <1>0, <1>12 DEF OneAnswer
  <1>14. LinkInv'
    <2> SUFFICES ASSUME NEW i \in DOMAIN link', link'[i] \in Answer
                 PROVE  /\ AnswerInv(link[i], openRead)'
                        /\ \A j \in DOMAIN link' : j < i => link'[j].rev <= link'[i].rev
                        /\ \A j \in DOMAIN link' : j > i => Behind(link[j], link[i].rev)'
      BY DEF LinkInv
    <2>1. i = m + 1 /\ link'[i] = a /\ DOMAIN link' = 1 .. m + 1
      BY <1>3, <1>4, <1>12
    <2>2. \A j \in 1 .. m + 1 : j < i => link'[j].rev <= a.rev
      BY <1>3, <1>4, <1>5, <1>10, <2>1
    <2>3. \A j \in 1 .. m + 1 : ~(j > i)
      BY <2>1
    <2> QED
      BY <1>1, <1>11, <2>1, <2>2, <2>3
  <1>15. ReadyInv' /\ AskedInv'
    BY <1>0 DEF ReadyInv, AskedInv
  <1> QED
    BY <1>7, <1>8, <1>9, <1>13, <1>14, <1>15 DEF IInv, Keeps
--------------------------------------------------------------------------------
(* A notification is taken in.                                                 *)

LEMMA JobShape ==
  ASSUME IInv, NEW i \in DOMAIN jobs
  PROVE  /\ jobs[i] \in Seq(Op) /\ Len(jobs[i]) \in Nat /\ Len(jobs[i]) > 0
         /\ DOMAIN jobs[i] = 1 .. Len(jobs[i])
         /\ \A k \in DOMAIN jobs[i] : jobs[i][k] \in Op
         /\ LastOp(jobs[i]) \in Op
         /\ i \in Nat
  <1>1. jobs[i] \in Seq(Op) /\ jobs[i] # <<>> /\ i \in Nat
    BY TypesOf DEF IInv, Shaped
  <1>2. PICK q \in Seq(Op) : q = jobs[i]
    BY <1>1
  <1>3. /\ Len(q) \in Nat /\ DOMAIN q = 1 .. Len(q) /\ \A k \in DOMAIN q : q[k] \in Op
        /\ Len(q) > 0
    BY <1>1, <1>2
  <1>4. q[Len(q)] \in Op
    BY <1>3
  <1> QED
    BY <1>1, <1>2, <1>3, <1>4 DEF LastOp

\* What an operation is.
LEMMA OpIs ==
  ASSUME NEW op \in Op
  PROVE  /\ op.kind \in {"save", "write"}
         /\ op.kind = "save" => op.cur \in Cursor /\ op.cur.store \in Nat /\ op.cur.rev \in Nat
         /\ op.kind = "write" => op.put \in Put /\ op.drop \subseteq Entity
  BY DEF Op, Cursor

\* The job that a notification becomes.
NewsJob(n, job, c) == job = <<Applied(n)>> \/ job = <<Save(c), Applied(n)>>

LEMMA NewsJobIs ==
  ASSUME NEW n \in News, n.rev > 0, NEW c \in Cursor, NEW job, NewsJob(n, job, c)
  PROVE  /\ job \in Seq(Op) /\ job # <<>> /\ Len(job) \in {1, 2} /\ DOMAIN job = 1 .. Len(job)
         /\ IsNewsJob(job) /\ ~IsAnswerJob(job) /\ LastOp(job) = Applied(n)
         /\ Len(job) = 2 => job[1] = Save(c) /\ job[2] = Applied(n)
         /\ Len(job) = 1 => job[1] = Applied(n)
         /\ \A e \in Entity : Touches(Applied(n), e) <=> e = n.id
         /\ Brought(Applied(n), n.id) = Value(n)
         /\ Applied(n).kind = "write" /\ Save(c).kind = "save" /\ Save(c).cur = c
  <1>0. n.id \in Entity /\ n.rev \in Nat /\ n.gone \in BOOLEAN
    BY DEF News
  <1>1. Nothing \in Put /\ [Nothing EXCEPT ![n.id] = n.rev] \in Put
    BY <1>0 DEF Nothing, Put, Absent
  <1>2. Applied(n) \in Op /\ Save(c) \in Op
    BY <1>0, <1>1 DEF Applied, Write, Save, Op
  <1>3. Applied(n).kind = "write" /\ Save(c).kind = "save" /\ Save(c).cur = c
    BY DEF Applied, Write, Save
  <1>4. \A e \in Entity : Touches(Applied(n), e) <=> e = n.id
    BY <1>0 DEF Touches, Applied, Write, Nothing, Absent
  <1>5. Brought(Applied(n), n.id) = Value(n)
    BY <1>0 DEF Brought, Applied, Write, Nothing, Absent, Value
  <1>6. PICK a, s : a = Applied(n) /\ s = Save(c)
    OBVIOUS
  <1>7. /\ <<a>> \in Seq(Op) /\ Len(<<a>>) = 1 /\ <<a>>[1] = a /\ DOMAIN <<a>> = 1 .. 1
        /\ <<s, a>> \in Seq(Op) /\ Len(<<s, a>>) = 2 /\ <<s, a>>[1] = s /\ <<s, a>>[2] = a
        /\ DOMAIN <<s, a>> = 1 .. 2
    BY <1>2, <1>6
  <1>8. job = <<a>> \/ job = <<s, a>>
    BY <1>6 DEF NewsJob
  <1>9. /\ job \in Seq(Op) /\ Len(job) \in {1, 2} /\ DOMAIN job = 1 .. Len(job)
        /\ job[Len(job)] = a /\ (Len(job) = 2 => job[1] = s /\ job[2] = a)
        /\ (Len(job) = 1 => job[1] = a) /\ job # <<>>
    <2>1. CASE job = <<a>>
      BY <1>7, <2>1
    <2>2. CASE job = <<s, a>>
      BY <1>7, <2>2
    <2> QED
      BY <1>8, <2>1, <2>2
  <1> QED
    BY <1>3, <1>4, <1>5, <1>6, <1>9 DEF IsNewsJob, IsAnswerJob, LastOp

\* What happens to the queue.
Queues(n, job, c) ==
  /\ n \in News /\ n.rev > 0 /\ c \in Cursor /\ NewsJob(n, job, c)
  /\ jobs' = Append(jobs, job) /\ replica' = replica

LEMMA QueuesJobs ==
  ASSUME IInv, NEW n, NEW job, NEW c, Queues(n, job, c), NEW N, N = Len(jobs) + 1
  PROVE  /\ DOMAIN jobs' = DOMAIN jobs \cup {N} /\ N \in Nat
         /\ \A i \in DOMAIN jobs : jobs'[i] = jobs[i] /\ i \in Nat /\ i < N
         /\ jobs'[N] = job
         /\ jobs' \in Seq(Seq(Op) \ {<<>>})
  <1>1. PICK J \in Seq(Seq(Op) \ {<<>>}) : J = jobs
    BY DEF IInv, TypeOK
  <1>2. job \in Seq(Op) \ {<<>>}
    BY NewsJobIs DEF Queues
  <1>3. /\ Append(J, job) \in Seq(Seq(Op) \ {<<>>})
        /\ DOMAIN Append(J, job) = DOMAIN J \cup {N} /\ N \in Nat
        /\ \A i \in DOMAIN J : Append(J, job)[i] = J[i] /\ i \in Nat /\ i < N
        /\ Append(J, job)[N] = job
    BY <1>1, <1>2
  <1> QED
    BY <1>1, <1>3 DEF Queues

LEMMA QueuesKept ==
  ASSUME IInv, NEW n, NEW job, NEW c, Queues(n, job, c)
  PROVE  /\ \A e \in Entity : \A v : Kept(e, v) /\ (e = n.id => v = Value(n)) => Kept(e, v)'
         /\ Len(job) = 2 => Kept(n.id, Value(n))'
         /\ \A e \in Entity : \A v : Right(e, v) /\ (e = n.id => v = Value(n)) => Right(e, v)'
  <1>1. PICK N : N = Len(jobs) + 1
    OBVIOUS
  <1>2. /\ DOMAIN jobs' = DOMAIN jobs \cup {N} /\ N \in Nat
        /\ \A i \in DOMAIN jobs : jobs'[i] = jobs[i] /\ i \in Nat /\ i < N
        /\ jobs'[N] = job /\ replica' = replica
    BY <1>1, QueuesJobs DEF Queues
  <1>3. /\ IsNewsJob(job) /\ LastOp(job) = Applied(n) /\ Len(job) \in {1, 2}
        /\ \A e \in Entity : Touches(Applied(n), e) <=> e = n.id
        /\ Brought(Applied(n), n.id) = Value(n)
        /\ DOMAIN job = 1 .. Len(job)
        /\ Len(job) = 2 => job[1] = Save(c) /\ job[2] = Applied(n)
        /\ Len(job) = 1 => job[1] = Applied(n)
        /\ Save(c).kind = "save"
    BY NewsJobIs DEF Queues
  <1>4. \A e \in Entity : \A i : i \in NewsOn(e)' <=> i \in NewsOn(e) \/ (i = N /\ e = n.id)
    BY <1>2, <1>3 DEF NewsOn, IsNewsJob, LastOp
  <1>5. \A e \in Entity : \A v : \A i :
          i \in Wrong(e, v)' <=> i \in Wrong(e, v) \/ (i = N /\ e = n.id /\ v # Value(n))
    <2> SUFFICES ASSUME NEW e \in Entity, NEW v, NEW i
                 PROVE  i \in Wrong(e, v)' <=> i \in Wrong(e, v) \/ (i = N /\ e = n.id /\ v # Value(n))
      OBVIOUS
    <2>1. i \in Wrong(e, v)' <=> i \in NewsOn(e)' /\ Brought(LastOp(jobs'[i]), e) # v
      BY DEF Wrong, LastOp, Brought
    <2>2. i \in Wrong(e, v) <=> i \in NewsOn(e) /\ Brought(LastOp(jobs[i]), e) # v
      BY DEF Wrong
    <2>3. i \in NewsOn(e) => i \in DOMAIN jobs
      BY DEF NewsOn
    <2>4. i = N => i \notin DOMAIN jobs
      BY <1>2
    <2> QED
      BY <1>2, <1>3, <1>4, <2>1, <2>2, <2>3, <2>4
  <1>6. \A i, j \in DOMAIN jobs : Later(i, j)' <=> Later(i, j)
    BY <1>2 DEF Later
  <1>7. \A e, v : \A i : i \in NewsOn(e) \/ i \in Wrong(e, v) => i \in DOMAIN jobs
    BY DEF NewsOn, Wrong
  <1>8. ASSUME NEW e \in Entity, NEW v, Kept(e, v), e = n.id => v = Value(n)
        PROVE  Kept(e, v)'
    <2>0. \A i : i \in Wrong(e, v)' <=> i \in Wrong(e, v)
      BY <1>5, <1>8
    <2>1. CASE replica[e] = v /\ Wrong(e, v) = {}
      BY <1>2, <2>0, <2>1 DEF Kept
    <2>2. CASE \E i \in NewsOn(e) \ Wrong(e, v) : \A j \in Wrong(e, v) : Later(i, j)
      <3>1. PICK i \in NewsOn(e) \ Wrong(e, v) : \A j \in Wrong(e, v) : Later(i, j)
        BY <2>2
      <3>2. i \in NewsOn(e)' \ Wrong(e, v)'
        BY <1>4, <2>0, <3>1
      <3>3. \A j \in Wrong(e, v)' : Later(i, j)'
        BY <1>6, <1>7, <2>0, <3>1
      <3> QED
        BY <3>2, <3>3 DEF Kept
    <2> QED
      BY <1>8, <2>1, <2>2 DEF Kept
  <1>9. ASSUME Len(job) = 2 PROVE Kept(n.id, Value(n))'
    <2>1. n.id \in Entity
      BY DEF Queues, News
    <2>2. N \in NewsOn(n.id)' \ Wrong(n.id, Value(n))'
      BY <1>2, <1>4, <1>5, <1>7, <2>1
    <2>3. ASSUME NEW j \in Wrong(n.id, Value(n))' PROVE Later(N, j)'
      <3>1. j \in NewsOn(n.id) /\ j \in DOMAIN jobs
        BY <1>5, <1>7, <2>1, <2>3 DEF Wrong
      <3>2. Len(jobs[j]) \in {1, 2}
        BY <3>1 DEF NewsOn, IsNewsJob
      <3>3. Len(jobs'[j]) \in {1, 2} /\ Len(jobs'[N]) = 2 /\ j < N
        BY <1>2, <1>9, <3>1, <3>2
      <3>4. PICK l \in {1, 2}, m \in {2} : l = Len(jobs'[j]) /\ m = Len(jobs'[N])
        BY <3>3
      <3>5. l < m \/ (l = m /\ j < N)
        <4>1. l = 1 \/ l = 2
          OBVIOUS
        <4> QED
          BY <3>3, <4>1
      <3> QED
        BY <3>4, <3>5 DEF Later
    <2> QED
      BY <2>2, <2>3 DEF Kept
  <1>10. ASSUME NEW e \in Entity, NEW v, Right(e, v), e = n.id => v = Value(n)
         PROVE  Right(e, v)'
    <2>1. ASSUME NEW i \in DOMAIN jobs', NEW k \in DOMAIN jobs'[i], Touches(jobs'[i][k], e)
          PROVE  Brought(jobs'[i][k], e) = v
      <3>1. CASE i \in DOMAIN jobs
        BY <1>2, <1>10, <2>1, <3>1 DEF Right
      <3>2. CASE i = N
        <4>1. job[k] = Applied(n)
          BY <1>2, <1>3, <2>1, <3>2 DEF Touches
        <4> QED
          BY <1>2, <1>3, <1>10, <2>1, <3>2, <4>1
      <3> QED
        BY <1>2, <3>1, <3>2
    <2>2. replica'[e] = v \/ \E i \in DOMAIN jobs' : \E k \in DOMAIN jobs'[i] : Touches(jobs'[i][k], e)
      BY <1>2, <1>10 DEF Right
    <2> QED
      BY <2>1, <2>2 DEF Right, Touches, Brought
  <1> QED
    BY <1>8, <1>9, <1>10

(* The cursor the phone has after a step of its own is sound if what it covers  *)
(* is so.                                                                      *)
LEMMA CursorBecomes ==
  ASSUME IInv, Rests, NEW c \in Cursor, cursor' = c, NEW s \in Cursor, savedCursor' = s,
         c.store <= led.store, s.store <= c.store, s.store = c.store => s.rev <= c.rev,
         c.store = led.store =>
           /\ Taken(c.rev, openRead)
           /\ \A w \in Truths(openRead) : After(w, c.rev) \/ Kept(w.on, w.is)'
  PROVE  CursorInv'
  <1>0. Keeps /\ led' = led /\ openRead' = openRead /\ c.rev \in Nat
    BY RestsKeeps DEF Rests, Untouched, Cursor
  <1>1. ASSUME c.store = led.store
        PROVE  /\ Taken(cursor.rev, openRead)'
               /\ \A w \in Truths(openRead)' : After(w, cursor.rev)' \/ Kept(w.on, w.is)'
    <2>1. Taken(c.rev, openRead)'
      BY <1>0, <1>1 DEF Keeps
    <2>2. \A w \in Truths(openRead)' : After(w, c.rev)' \/ Kept(w.on, w.is)'
      BY <1>0, <1>1 DEF Keeps
    <2> QED
      BY <2>1, <2>2
  <1> QED
    BY <1>0, <1>1 DEF CursorInv, Ours

\* The first frame, a notification, is taken in under cursor c.
Admits(n, job, c) ==
  /\ Queues(n, job, c) /\ UNCHANGED bridgeVars /\ Waits
  /\ link # <<>> /\ n = link[1] /\ link' = Tail(link)
  /\ cursor' = c /\ c.store = cursor.store /\ savedCursor' = savedCursor
  /\ Ours(cursor) => cursor.rev < n.rev
  /\ \/ c = cursor
     \/ /\ Len(job) = 2 /\ c.rev = n.rev /\ n.rev = cursor.rev + 1
        /\ \A i \in DOMAIN jobs : IsAnswerJob(jobs[i]) /\ Len(jobs[i]) > 1
                                    => n.rev <= LastOp(jobs[i]).cur.rev

LEMMA AdmitsNews ==
  ASSUME IInv, NEW n, NEW job, NEW c, Admits(n, job, c)
  PROVE  /\ n \in OnLink /\ n \in Heard /\ n \in News /\ n.rev \in Nat /\ n.id \in Entity
         /\ Settled(n) /\ Rests
         /\ \A m \in OnLink' : m \in OnLink
         /\ c \in Cursor /\ c.store \in Nat /\ c.rev \in Nat /\ cursor.rev <= c.rev
         /\ Shaped
  <1>1. n \in News /\ n.rev \in Nat /\ n.id \in Entity /\ c \in Cursor /\ Shaped
    BY TypesOf DEF Admits, Queues, News, IInv
  <1>2. 1 \in DOMAIN link
    BY <1>1 DEF Admits, Shaped
  <1>3. n \in OnLink /\ n \in Flushed /\ n \in Heard
    BY <1>1, <1>2, HeardIs DEF Admits, OnLink
  <1>4. Settled(n)
    BY <1>3 DEF IInv, NewsInv
  <1>5. \A m \in OnLink' : m \in OnLink
    BY TailFrames DEF Admits
  <1>6. Rests
    BY <1>5, QuietRests DEF Quiet, Admits
  <1>7. cursor.rev <= c.rev /\ c.store \in Nat /\ c.rev \in Nat
    BY <1>1 DEF Admits, Shaped, Cursor
  <1> QED
    BY <1>1, <1>3, <1>4, <1>5, <1>6, <1>7

\* What is otherwise than n says has changed since.
LEMMA AfterNews ==
  ASSUME IInv, NEW n \in Heard, Settled(n), NEW w \in Truths(openRead), w.on = n.id, w.is # Value(n)
  PROVE  After(w, n.rev)
  <1>1. w \in Truths({})
    BY TruthIs
  <1>2. PICK r \in w.dates : r > n.rev - 1 /\ \A m \in Heard : m.rev = r => m.id = w.on /\ Value(m) = w.is
    BY <1>1 DEF Settled, After
  <1>3. r # n.rev /\ r \in Nat /\ n.rev \in Nat
    BY <1>1, <1>2, HeardRevs, DatesBound DEF IInv
  <1>4. r > n.rev
    BY <1>2, <1>3
  <1> QED
    BY <1>2, <1>4 DEF After

LEMMA AdmitsCursor ==
  ASSUME IInv, NEW n, NEW job, NEW c, Admits(n, job, c)
  PROVE  CursorInv'
  <1>0. /\ n \in OnLink /\ n \in Heard /\ n \in News /\ n.rev \in Nat /\ n.id \in Entity
        /\ Settled(n) /\ Rests /\ c \in Cursor /\ c.store \in Nat /\ c.rev \in Nat
        /\ cursor.rev <= c.rev /\ Shaped /\ CursorInv /\ BridgeInv
    BY AdmitsNews DEF IInv
  <1>1. PICK s \in Cursor : s = savedCursor
    BY DEF IInv, TypeOK
  <1>2. /\ c.store <= led.store /\ s.store <= c.store /\ (s.store = c.store => s.rev <= c.rev)
        /\ s.rev \in Nat
    <2>1. s.rev \in Nat
      BY DEF Cursor
    <2> QED
      BY <1>0, <1>1, <2>1 DEF CursorInv, Admits, Shaped
  <1>3. /\ \A e \in Entity : \A v : Kept(e, v) /\ (e = n.id => v = Value(n)) => Kept(e, v)'
        /\ Len(job) = 2 => Kept(n.id, Value(n))'
    BY QueuesKept DEF Admits
  <1>4. ASSUME c.store = led.store
        PROVE  /\ Taken(c.rev, openRead)
               /\ \A w \in Truths(openRead) : After(w, c.rev) \/ Kept(w.on, w.is)'
    <2>0. /\ Taken(cursor.rev, openRead)
          /\ \A w \in Truths(openRead) : After(w, cursor.rev) \/ Kept(w.on, w.is)
          /\ cursor.rev < n.rev
      BY <1>0, <1>4 DEF Admits, CursorInv, Ours
    <2>1. CASE c = cursor
      <3>1. ASSUME NEW w \in Truths(openRead) PROVE After(w, c.rev) \/ Kept(w.on, w.is)'
        <4>1. CASE w.on = n.id /\ w.is # Value(n)
          <5>1. After(w, n.rev)
            BY <1>0, <4>1, AfterNews
          <5>2. \A r \in w.dates : r \in Nat
            BY <1>0, DatesBound
          <5> QED
            BY <1>0, <2>0, <2>1, <5>1, <5>2 DEF After
        <4>2. CASE ~(w.on = n.id /\ w.is # Value(n))
          <5>1. w.on \in Entity
            BY <1>0, DatesBound
          <5> QED
            BY <1>3, <2>0, <2>1, <4>2, <5>1
        <4> QED
          BY <4>1, <4>2
      <3> QED
        BY <2>0, <2>1, <3>1
    <2>2. CASE Len(job) = 2 /\ c.rev = n.rev /\ n.rev = cursor.rev + 1
      <3>1. ASSUME NEW w \in Truths(openRead) PROVE After(w, c.rev) \/ Kept(w.on, w.is)'
        <4>0. w.on \in Entity /\ \A r \in w.dates : r \in Nat
          BY <1>0, DatesBound
        <4>1. CASE w.on = n.id /\ w.is # Value(n)
          BY <1>0, <2>2, <4>1, AfterNews
        <4>2. CASE w.on = n.id /\ w.is = Value(n)
          BY <1>3, <2>2, <4>2
        <4>3. CASE w.on # n.id /\ Kept(w.on, w.is)
          BY <1>3, <4>0, <4>3
        <4>4. CASE w.on # n.id /\ After(w, cursor.rev)
          <5>1. PICK r \in w.dates : r > cursor.rev /\ \A m \in Heard : m.rev = r => m.id = w.on /\ Value(m) = w.is
            BY <4>4 DEF After
          <5>2. r # n.rev
            BY <1>0, <4>4, <5>1
          <5>3. r > c.rev
            BY <1>0, <2>2, <4>0, <5>1, <5>2 DEF Shaped
          <5> QED
            BY <5>1, <5>3 DEF After
        <4> QED
          BY <2>0, <4>1, <4>2, <4>3, <4>4
      <3>2. n.rev <= savedLed.rev /\ savedLed.rev <= led.rev
        BY <1>0 DEF Settled, BridgeInv, LedgerInv
      <3>3. ASSUME NEW o \in Store, NEW m \in NewsOf(o), m.rev <= n.rev
            PROVE  o \in openRead
        <4>1. m \in Heard /\ m.rev \in Nat
          BY HeardIs, HeardRevs
        <4>2. m.rev # n.rev
          <5> SUFFICES ASSUME m.rev = n.rev PROVE FALSE
            OBVIOUS
          <5>1. m = n
            BY <1>0, <4>1 DEF IInv, NewsInv, Distinct
          <5>2. StoreOf(n.id) = o
            BY <1>0, <5>1 DEF BridgeInv, TxInv
          <5>3. n.rev < n.rev
            BY <1>0, <5>1, <5>2 DEF Settled
          <5> QED
            BY <1>0, <5>3
        <4>3. m.rev <= cursor.rev
          BY <1>0, <2>2, <3>3, <4>1, <4>2 DEF Shaped
        <4> QED
          BY <2>0, <4>3 DEF Taken, ReadOver
      <3>4. Taken(n.rev, openRead)
        <4>1. n.rev <= led.rev
          BY <1>0, <3>2 DEF Shaped
        <4>2. ReadOver(n.rev) \subseteq openRead
          BY <3>3 DEF ReadOver
        <4> QED
          BY <3>2, <4>1, <4>2 DEF Taken, Durable
      <3> QED
        BY <2>2, <3>1, <3>4
    <2> QED
      BY <2>1, <2>2 DEF Admits
  <1>5. cursor' = c /\ savedCursor' = s
    BY <1>1 DEF Admits
  <1> QED
    BY <1>0, <1>2, <1>4, <1>5, CursorBecomes

\* What the statement k of job q saves, beside cursor c.
SavesOf(q, k, c) ==
  LET d == q[k].cur
  IN IF IsAnswerJob(q) /\ Len(q) > 1
       THEN /\ c.store <= d.store /\ d.store <= led.store
            /\ d.store = c.store => c.rev <= d.rev
       ELSE /\ d.store <= c.store
            /\ d.store = c.store => d.rev <= c.rev

LEMMA SavesAre ==
  SavesInv <=> \A i \in DOMAIN jobs : \A k \in DOMAIN jobs[i] :
                 jobs[i][k].kind = "save" => SavesOf(jobs[i], k, cursor)
  BY DEF SavesInv, SavesOf

LEMMA SavesBecome ==
  ASSUME led' = led, NEW J, jobs' = J, NEW c, cursor' = c,
         \A i \in DOMAIN J : \A k \in DOMAIN J[i] : J[i][k].kind = "save" => SavesOf(J[i], k, c)
  PROVE  SavesInv'
  BY DEF SavesInv, SavesOf, IsAnswerJob, LastOp

LEMMA AdmitsSaves ==
  ASSUME IInv, NEW n, NEW job, NEW c, Admits(n, job, c)
  PROVE  SavesInv'
  <1>0. /\ c \in Cursor /\ c.store \in Nat /\ c.rev \in Nat /\ cursor.rev <= c.rev /\ Shaped
        /\ Queues(n, job, c) /\ led' = led /\ cursor' = c /\ c.store = cursor.store
    BY AdmitsNews DEF Admits, bridgeVars
  <1>1. PICK N, J : N = Len(jobs) + 1 /\ J = jobs'
    OBVIOUS
  <1>2. /\ DOMAIN J = DOMAIN jobs \cup {N}
        /\ \A i \in DOMAIN jobs : J[i] = jobs[i]
        /\ J[N] = job
    BY <1>0, <1>1, QueuesJobs
  <1>3. ASSUME NEW k \in DOMAIN job, job[k].kind = "save"
        PROVE  SavesOf(job, k, c)
    <2>1. /\ ~IsAnswerJob(job) /\ Len(job) \in {1, 2} /\ DOMAIN job = 1 .. Len(job)
          /\ Len(job) = 2 => job[1] = Save(c) /\ job[2] = Applied(n)
          /\ Len(job) = 1 => job[1] = Applied(n)
          /\ Applied(n).kind = "write" /\ Save(c).cur = c
      BY <1>0, NewsJobIs DEF Queues
    <2>2. job[k] = Save(c)
      BY <1>3, <2>1
    <2> QED
      BY <1>0, <2>1, <2>2 DEF SavesOf
  <1>4. ASSUME NEW i \in DOMAIN jobs, NEW k \in DOMAIN jobs[i], jobs[i][k].kind = "save"
        PROVE  SavesOf(jobs[i], k, c)
    <2>1. SavesOf(jobs[i], k, cursor)
      BY <1>4, SavesAre DEF IInv
    <2>2. jobs[i][k].cur.store \in Nat /\ jobs[i][k].cur.rev \in Nat
      BY <1>4, JobShape, OpIs
    <2>3. CASE c = cursor
      BY <2>1, <2>3
    <2>4. CASE ~(IsAnswerJob(jobs[i]) /\ Len(jobs[i]) > 1)
      BY <1>0, <2>1, <2>2, <2>4 DEF SavesOf, Shaped
    <2>5. CASE IsAnswerJob(jobs[i]) /\ Len(jobs[i]) > 1 /\ c # cursor
      <3>1. c.rev = n.rev /\ n.rev <= LastOp(jobs[i]).cur.rev
        BY <2>5 DEF Admits
      <3>2. k = Len(jobs[i])
        <4>1. DOMAIN jobs[i] = 1 .. Len(jobs[i]) /\ Len(jobs[i]) \in Nat
          BY JobShape
        <4>2. k \notin 1 .. Len(jobs[i]) - 1
          BY <1>4, <2>5 DEF IsAnswerJob
        <4> QED
          BY <4>1, <4>2
      <3> QED
        BY <1>0, <2>1, <2>5, <3>1, <3>2 DEF SavesOf, LastOp
    <2> QED
      BY <2>3, <2>4, <2>5
  <1>5. \A i \in DOMAIN J : \A k \in DOMAIN J[i] : J[i][k].kind = "save" => SavesOf(J[i], k, c)
    BY <1>2, <1>3, <1>4
  <1> QED
    BY <1>0, <1>1, <1>5, SavesBecome

\* An answer that is applied, as statement c of job q says, in the words of ApplyInv.
AppliedAnswer(q) == IsAnswerJob(q) /\ Len(q) > 1 /\ Ours(LastOp(q).cur)

LEMMA ApplyBecomes ==
  ASSUME IInv, Rests, NEW J, jobs' = J, \A n \in OnLink' : n \in OnLink,
         \A i \in DOMAIN J : AppliedAnswer(J[i]) =>
           LET c == LastOp(J[i]).cur.rev
           IN /\ c \in Nat /\ Taken(c, openRead)
              /\ \A w \in Truths(openRead) : After(w, c) \/ Right(w.on, w.is)'
              /\ \A n \in OnLink : Behind(n, c)
  PROVE  ApplyInv'
  <1>1. Keeps /\ led' = led
    BY RestsKeeps DEF Rests, Untouched
  <1> SUFFICES ASSUME NEW i \in DOMAIN J, AppliedAnswer(J[i]), NEW c, c = LastOp(J[i]).cur.rev
               PROVE  /\ Taken(c, openRead)'
                      /\ \A w \in Truths(openRead)' : After(w, c)' \/ Right(w.on, w.is)'
                      /\ \A n \in OnLink' : Behind(n, c)'
    BY <1>1 DEF ApplyInv, AppliedAnswer, IsAnswerJob, LastOp, Ours
  <1>2. /\ c \in Nat /\ Taken(c, openRead)
        /\ \A w \in Truths(openRead) : After(w, c) \/ Right(w.on, w.is)'
        /\ \A n \in OnLink : Behind(n, c)
    OBVIOUS
  <1>3. /\ Taken(c, openRead)' /\ \A w \in Truths(openRead)' : w \in Truths(openRead)
        /\ \A w : After(w, c) => After(w, c)'
        /\ \A n : Behind(n, c) => Behind(n, c)'
    BY <1>1, <1>2 DEF Keeps
  <1> QED
    BY <1>2, <1>3

LEMMA ApplyIs ==
  ASSUME IInv, NEW i \in DOMAIN jobs, AppliedAnswer(jobs[i]), NEW c, c = LastOp(jobs[i]).cur.rev
  PROVE  /\ c \in Nat /\ Taken(c, openRead)
         /\ \A w \in Truths(openRead) : After(w, c) \/ Right(w.on, w.is)
         /\ \A n \in OnLink : Behind(n, c)
  <1>1. c \in Nat
    BY JobShape, OpIs DEF AppliedAnswer, IsAnswerJob
  <1>2. ApplyInv
    BY DEF IInv
  <1> QED
    BY <1>1, <1>2 DEF ApplyInv, AppliedAnswer

LEMMA AdmitsApply ==
  ASSUME IInv, NEW n, NEW job, NEW c, Admits(n, job, c)
  PROVE  ApplyInv'
  <1>0. /\ Queues(n, job, c) /\ n \in OnLink /\ Rests /\ \A m \in OnLink' : m \in OnLink
        /\ BridgeInv
    BY AdmitsNews DEF Admits, IInv
  <1>1. PICK N, J : N = Len(jobs) + 1 /\ J = jobs'
    OBVIOUS
  <1>2. /\ DOMAIN J = DOMAIN jobs \cup {N}
        /\ \A i \in DOMAIN jobs : J[i] = jobs[i]
        /\ J[N] = job /\ ~IsAnswerJob(job)
    BY <1>0, <1>1, QueuesJobs, NewsJobIs DEF Queues
  <1>3. \A e \in Entity : \A v : Right(e, v) /\ (e = n.id => v = Value(n)) => Right(e, v)'
    BY <1>0, QueuesKept
  <1>4. ASSUME NEW i \in DOMAIN J, AppliedAnswer(J[i]), NEW r, r = LastOp(J[i]).cur.rev
        PROVE  /\ r \in Nat /\ Taken(r, openRead)
               /\ \A w \in Truths(openRead) : After(w, r) \/ Right(w.on, w.is)'
               /\ \A m \in OnLink : Behind(m, r)
    <2>1. i \in DOMAIN jobs /\ J[i] = jobs[i]
      BY <1>2, <1>4 DEF AppliedAnswer
    <2>2. /\ r \in Nat /\ Taken(r, openRead)
          /\ \A w \in Truths(openRead) : After(w, r) \/ Right(w.on, w.is)
          /\ \A m \in OnLink : Behind(m, r)
      BY <1>4, <2>1, ApplyIs
    <2>3. ASSUME NEW w \in Truths(openRead) PROVE After(w, r) \/ Right(w.on, w.is)'
      <3>1. w.on \in Entity
        BY <1>0, DatesBound
      <3>2. w.on = n.id => After(w, r) \/ Value(n) = w.is
        BY <1>0, <2>2 DEF Behind
      <3> QED
        BY <1>3, <2>2, <3>1, <3>2
    <2> QED
      BY <2>2, <2>3
  <1> QED
    BY <1>0, <1>1, <1>4, ApplyBecomes

LEMMA AdmitsAnswer ==
  ASSUME IInv, NEW n, NEW job, NEW c, Admits(n, job, c),
         NEW a \in Answer, NEW S, AnswerInv(a, S), n.rev <= a.rev
  PROVE  AnswerStep(a)
  <1>0. /\ c.rev \in Nat /\ cursor.rev <= c.rev /\ Shaped /\ n.rev \in Nat /\ n \in Heard
        /\ a.rev \in Nat /\ c.store = cursor.store /\ cursor' = c /\ asked' = asked
        /\ Queues(n, job, c)
    BY AdmitsNews DEF Admits, Waits, Answer
  <1>1. Ours(cursor) => c.rev <= a.rev
    <2>1. Ours(cursor) => cursor.rev <= a.rev
      BY DEF AnswerInv
    <2> QED
      BY <1>0, <2>1 DEF Admits
  <1>2. ASSUME NEW e \in Entity, NEW v, Brings(a, e, v), ~Reads(a, e) PROVE Kept(e, v)'
    <2>1. /\ Kept(e, v)
          /\ \A m \in Heard : m.id = e => m.rev <= asked.rev \/ m.rev > a.rev
      BY <1>2 DEF Brings
    <2>2. Ours(cursor) /\ asked.rev <= cursor.rev
      BY <1>2 DEF AnswerInv, Reads
    <2>3. cursor.rev < n.rev
      BY <2>2 DEF Admits
    <2>4. e # n.id
      <3>1. n.id = e => n.rev <= asked.rev \/ n.rev > a.rev
        BY <1>0, <2>1
      <3>2. asked.rev \in Nat /\ cursor.rev \in Nat
        BY <1>0 DEF Shaped
      <3>3. ~(n.rev <= asked.rev)
        BY <1>0, <2>2, <2>3, <3>2
      <3>4. ~(n.rev > a.rev)
        BY <1>0
      <3> QED
        BY <3>1, <3>3, <3>4
    <2> QED
      BY <1>0, <1>2, <2>1, <2>4, QueuesKept
  <1> QED
    BY <1>0, <1>1, <1>2 DEF AnswerStep

LEMMA AdmitsJobs ==
  ASSUME IInv, NEW n, NEW job, NEW c, Admits(n, job, c)
  PROVE  JobsInv'
  <1>0. Queues(n, job, c) /\ (syncPc = "applying" => syncPc' = "applying")
    BY DEF Admits, Waits
  <1>1. PICK N, J : N = Len(jobs) + 1 /\ J = jobs'
    OBVIOUS
  <1>2. /\ DOMAIN J = DOMAIN jobs \cup {N}
        /\ \A i \in DOMAIN jobs : J[i] = jobs[i]
        /\ J[N] = job /\ ~IsAnswerJob(job) /\ IsNewsJob(job)
    BY <1>0, <1>1, QueuesJobs, NewsJobIs DEF Queues
  <1>3. /\ \A i \in DOMAIN J : IsNewsJob(J[i]) \/ IsAnswerJob(J[i])
        /\ \A i, j \in DOMAIN J : IsAnswerJob(J[i]) /\ IsAnswerJob(J[j]) => i = j
        /\ (\E i \in DOMAIN J : IsAnswerJob(J[i])) => \E i \in DOMAIN jobs : IsAnswerJob(jobs[i])
    BY <1>2 DEF IInv, JobsInv
  <1>4. (\E i \in DOMAIN J : IsAnswerJob(J[i])) => syncPc' = "applying"
    BY <1>0, <1>3 DEF IInv, JobsInv
  <1>5. /\ \A i \in DOMAIN jobs' : IsNewsJob(jobs'[i]) \/ IsAnswerJob(jobs'[i])
        /\ \A i, j \in DOMAIN jobs' : IsAnswerJob(jobs'[i]) /\ IsAnswerJob(jobs'[j]) => i = j
        /\ (\E i \in DOMAIN jobs' : IsAnswerJob(jobs'[i])) => syncPc' = "applying"
    BY <1>1, <1>3, <1>4
  <1> QED
    BY <1>5 DEF JobsInv, IsNewsJob, IsAnswerJob, LastOp

LEMMA AdmitsStep ==
  ASSUME IInv, TypeOK', NEW n, NEW job, NEW c, Admits(n, job, c)
  PROVE  IInv'
  <1>0. /\ n \in OnLink /\ n \in News /\ Rests /\ \A m \in OnLink' : m \in OnLink
        /\ c.rev \in Nat /\ cursor.rev <= c.rev /\ c.store = cursor.store /\ cursor' = c
        /\ link # <<>> /\ n = link[1] /\ link' = Tail(link) /\ Waits
        /\ led' = led /\ ents' = ents
    BY AdmitsNews DEF Admits, bridgeVars
  <1>1. Keeps /\ BridgeInv' /\ NewsInv'
    BY <1>0, RestsKeeps DEF Keeps
  <1>2. SavesInv' /\ CursorInv' /\ ApplyInv' /\ JobsInv'
    BY AdmitsSaves, AdmitsCursor, AdmitsApply, AdmitsJobs
  <1>3. Shifted(1) /\ DOMAIN link' \subseteq Nat \ {0}
    <2>1. Shifted(1) /\ link' \in Seq(News \cup Answer)
      BY <1>0, TailFrames
    <2>2. PICK q \in Seq(News \cup Answer) : q = link'
      BY <2>1
    <2>3. DOMAIN q \subseteq Nat \ {0}
      OBVIOUS
    <2> QED
      BY <2>1, <2>2, <2>3
  <1>4. LinkInv' /\ OneAnswer'
    <2>1. ASSUME NEW a \in Answer, AnswerInv(a, openRead), OnWay(a, 1) PROVE AnswerStep(a)
      <3>1. PICK i \in DOMAIN link : i > 1 /\ link[i] = a
        BY <2>1 DEF OnWay
      <3>2. 1 \in DOMAIN link
        BY <3>1, TypesOf DEF IInv, Shaped
      <3>3. n.rev <= a.rev
        BY <1>0, <3>1, <3>2 DEF IInv, LinkInv
      <3> QED
        BY <2>1, <3>3, AdmitsAnswer
    <2>2. syncPc = "returning" => syncPc' = "returning"
      BY <1>0 DEF Waits
    <2>3. 1 \in Nat
      OBVIOUS
    <2> QED
      BY <1>1, <1>3, <2>1, <2>2, <2>3, LinkMoves, OneAnswerMoves
  <1>5. ReadyInv'
    <2>1. ASSUME syncPc = "answered", NEW S, AnswerInv(answer, S) PROVE AnswerStep(answer)
      <3>1. n.rev <= answer.rev
        BY <1>0, <2>1 DEF IInv, ReadyInv
      <3>2. answer \in Answer
        BY DEF IInv, TypeOK
      <3>3. PICK a \in Answer : a = answer
        BY <3>2
      <3> QED
        BY <2>1, <3>1, <3>3, AdmitsAnswer
    <2>2. syncPc' = "answered" => syncPc = "answered" /\ answer' = answer
      BY <1>0 DEF Waits
    <2> QED
      BY <1>0, <2>1, <2>2, ReadyMoves
  <1>6. AskedInv'
    BY <1>0, AskedMoves DEF Waits
  <1> QED
    BY <1>1, <1>2, <1>4, <1>5, <1>6 DEF IInv

LEMMA TakeNextStep ==
  ASSUME CursorSchedules, IInv, TakeNext
  PROVE  IInv'
  <1>0. PICK n : n = Head(link)
    OBVIOUS
  <1>1. PICK c : c = [cursor EXCEPT !.rev = n.rev]
    OBVIOUS
  <1>2. PICK job : job = <<Save(c), Applied(n)>>
    OBVIOUS
  <1>3. Shaped /\ cursor \in Cursor
    BY TypesOf DEF IInv, TypeOK
  <1>4. /\ link # <<>> /\ n \in News /\ n.rev = cursor.rev + 1
        /\ InTurn
        /\ connected' = connected /\ again' = again /\ syncPc' = syncPc /\ loading' = loading
    BY <1>0 DEF TakeNext, IsNews, NextRevOf, Receive, CursorSchedules, CursorRead, Loaded
  <1>5. /\ link' = Tail(link) /\ UNCHANGED bridgeVars
        /\ asked' = asked /\ listed' = listed /\ answer' = answer
        /\ replica' = replica /\ savedCursor' = savedCursor
        /\ jobs' = Requeue(jobs, job) /\ cursor' = CursorOf(job, cursor)
    BY <1>0, <1>1, <1>2 DEF TakeNext, Receive
  <1>6. c \in Cursor /\ c.store = cursor.store /\ c.rev = n.rev /\ n.rev \in Nat /\ n.rev > 0
    BY <1>1, <1>3, <1>4 DEF Cursor, News
  <1>7. NewsJob(n, job, c) /\ Len(job) = 2 /\ job # <<>> /\ Head(job) = Save(c)
    BY <1>2 DEF NewsJob
  <1>8. jobs' = Append(jobs, job) /\ cursor' = c
    BY <1>5, <1>7 DEF Requeue, CursorOf, Save
  <1>9. Queues(n, job, c)
    BY <1>4, <1>5, <1>6, <1>7, <1>8 DEF Queues
  <1>10. n = link[1]
    BY <1>0, <1>4
  <1>11. ASSUME NEW i \in DOMAIN jobs, IsAnswerJob(jobs[i]), Len(jobs[i]) > 1
         PROVE  n.rev <= LastOp(jobs[i]).cur.rev
    BY <1>0, <1>4, <1>11 DEF InTurn, LastOp, IsAnswerJob
  <1>12. Admits(n, job, c)
    <2>1. cursor.rev < n.rev
      BY <1>3, <1>4 DEF Shaped
    <2> QED
      BY <1>4, <1>5, <1>6, <1>7, <1>8, <1>9, <1>10, <1>11, <2>1 DEF Admits, Waits
  <1>13. TypeOK'
    <2>1. link' \in Seq(News \cup Answer)
      BY <1>4, <1>5, TailFrames
    <2>2. jobs' \in Seq(Seq(Op) \ {<<>>})
      BY <1>9, QueuesJobs
    <2> QED
      BY <1>4, <1>5, <1>6, <1>8, <2>1, <2>2, BridgeTypeStays DEF IInv, TypeOK
  <1> QED
    BY <1>12, <1>13, AdmitsStep

LEMMA TakeAheadStep ==
  ASSUME CursorSchedules, IInv, TakeAhead
  PROVE  IInv'
  <1>0. PICK n : n = Head(link)
    OBVIOUS
  <1>1. PICK c \in Cursor : c = cursor
    BY DEF IInv, TypeOK
  <1>2. PICK job : job = <<Applied(n)>>
    OBVIOUS
  <1>3. Shaped
    BY TypesOf DEF IInv
  <1>4. /\ link # <<>> /\ n \in News /\ ~KnownRev /\ WantSync
        /\ connected' = connected /\ ~loading /\ loading' = loading
    BY <1>0 DEF TakeAhead, IsNews, Receive, CursorSchedules, CursorRead
  <1>5. /\ link' = Tail(link) /\ UNCHANGED bridgeVars
        /\ asked' = asked /\ listed' = listed /\ answer' = answer
        /\ replica' = replica /\ savedCursor' = savedCursor
        /\ jobs' = Requeue(jobs, job) /\ cursor' = CursorOf(job, cursor)
    BY <1>0, <1>2 DEF TakeAhead, Receive
  <1>6. n = link[1] /\ 1 \in DOMAIN link
    BY <1>0, <1>3, <1>4 DEF Shaped
  <1>7. n.rev \in Nat /\ n.rev > 0
    <2>1. n \in OnLink
      BY <1>4, <1>6 DEF OnLink
    <2> QED
      BY <1>4, <2>1, HeardIs DEF IInv, NewsInv, Settled, News
  <1>8. NewsJob(n, job, c) /\ job # <<>> /\ Head(job) = Applied(n)
    BY <1>2 DEF NewsJob
  <1>9. jobs' = Append(jobs, job) /\ cursor' = c
    <2>1. Applied(n).kind = "write"
      BY DEF Applied, Write
    <2> QED
      BY <1>1, <1>5, <1>8, <2>1 DEF Requeue, CursorOf
  <1>10. Queues(n, job, c)
    BY <1>4, <1>5, <1>7, <1>8, <1>9 DEF Queues
  <1>11. Ours(cursor) => cursor.rev < n.rev
    BY <1>0, <1>3, <1>4, <1>7 DEF Ours, KnownRev, Loaded, NoCursor, Shaped
  <1>12. Waits /\ syncPc' \in SyncPc /\ again' \in BOOLEAN
    BY <1>4, <1>5, WantSyncWaits DEF IInv
  <1>13. Admits(n, job, c)
    BY <1>1, <1>4, <1>5, <1>6, <1>9, <1>10, <1>11, <1>12 DEF Admits
  <1>14. TypeOK'
    <2>1. link' \in Seq(News \cup Answer)
      BY <1>4, <1>5, TailFrames
    <2>2. jobs' \in Seq(Seq(Op) \ {<<>>})
      BY <1>10, QueuesJobs
    <2> QED
      BY <1>1, <1>4, <1>5, <1>9, <1>12, <2>1, <2>2, BridgeTypeStays DEF IInv, TypeOK
  <1> QED
    BY <1>13, <1>14, AdmitsStep
--------------------------------------------------------------------------------
(* An answer is taken in.                                                      *)

\* A set put in some order has all its elements in it.
LEMMA OrderedAll ==
  ASSUME NEW S, IsFiniteSet(S), NEW p \in SetToSeqs(S)
  PROVE  /\ p \in Seq(S) /\ Len(p) \in Nat /\ DOMAIN p = 1 .. Len(p)
         /\ \A i \in DOMAIN p : p[i] \in S
         /\ \A x \in S : \E i \in DOMAIN p : p[i] = x
  <1>1. PICK n \in Nat : n = Cardinality(S)
    BY FS_CardinalityType
  <1>2. p \in [1 .. n -> S] /\ \A i, j \in 1 .. n : i # j => p[i] # p[j]
    BY <1>1 DEF SetToSeqs
  <1>3. p \in Injection(1 .. n, S)
    BY <1>2 DEF Injection, IsInjective
  <1>4. IsFiniteSet(1 .. n) /\ Cardinality(1 .. n) = n
    BY FS_Interval
  <1>5. p \in Surjection(1 .. n, S)
    BY <1>1, <1>3, <1>4, FS_Injection
  <1>6. \A x \in S : \E i \in 1 .. n : p[i] = x
    BY <1>5 DEF Surjection
  <1>7. p \in Seq(S) /\ Len(p) = n
    BY <1>2
  <1> QED
    BY <1>2, <1>6, <1>7

\* What a job for answer a is, where gone is what it drops.
AnswerJob(job, a, gone) ==
  /\ job \in Seq(Op) /\ Len(job) \in Nat /\ Len(job) > 1 /\ DOMAIN job = 1 .. Len(job)
  /\ LastOp(job) = Save([store |-> a.store, rev |-> a.rev])
  /\ \A k \in 1 .. Len(job) - 1 : job[k].kind = "write"
  /\ \A e \in Entity :
       /\ \A k \in DOMAIN job : Touches(job[k], e) =>
            /\ a.put[e] # Absent \/ e \in gone
            /\ Brought(job[k], e) = IF e \in gone THEN Absent ELSE a.put[e]
       /\ a.put[e] # Absent \/ e \in gone => \E k \in DOMAIN job : Touches(job[k], e)

LEMMA ApplyShape ==
  ASSUME NEW a \in Answer, NEW gone \in SUBSET Entity, \A e \in gone : a.put[e] = Absent,
         NEW job \in ApplyJobs(a, gone)
  PROVE  AnswerJob(job, a, gone)
  <1>0. /\ a.put \in [Entity -> Nat] /\ a.store \in Nat /\ a.rev \in Nat
        /\ IsFiniteSet(Thread) /\ Entity = Thread \cup Project /\ Thread \cap Project = {}
    BY BridgeAssumption DEF Answer, Put, Entity
  <1>1. PICK held : held = {t \in Thread : a.put[t] # Absent}
    OBVIOUS
  <1>2. PICK left : left = gone \cap Thread
    OBVIOUS
  <1>a. PICK p \in SetToSeqs(held), d \in SetToSeqs(left) : job = ApplyInOrder(a, gone, p, d)
    BY <1>1, <1>2 DEF ApplyJobs
  <1>3. IsFiniteSet(held) /\ IsFiniteSet(left)
    BY <1>0, <1>1, <1>2, FS_Subset
  <1>4. PICK x \in Nat : /\ x = Len(p) /\ DOMAIN p = 1 .. x
                         /\ \A i \in 1 .. x : p[i] \in held
                         /\ \A t \in held : \E i \in 1 .. x : p[i] = t
    BY <1>3, OrderedAll
  <1>5. PICK y \in Nat : /\ y = Len(d) /\ DOMAIN d = 1 .. y
                         /\ \A i \in 1 .. y : d[i] \in left
                         /\ \A t \in left : \E i \in 1 .. y : d[i] = t
    BY <1>3, OrderedAll
  <1>6. PICK P, D : /\ P = [i \in 1 .. x |-> Write(Only({p[i]}, a.put), {})]
                    /\ D = [i \in 1 .. y |-> Write(Nothing, {d[i]})]
    OBVIOUS
  <1>7. PICK b, s : /\ b = Write(Only(Project, a.put), gone \cap Project)
                    /\ s = Save([store |-> a.store, rev |-> a.rev])
    OBVIOUS
  <1>8. Nothing \in Put /\ \A E : Only(E, a.put) \in Put
    BY <1>0 DEF Nothing, Put, Only, Absent
  <1>9. /\ b \in Op /\ s \in Op
        /\ \A i \in 1 .. x : P[i] \in Op /\ P[i] = Write(Only({p[i]}, a.put), {})
        /\ \A i \in 1 .. y : D[i] \in Op /\ D[i] = Write(Nothing, {d[i]})
    BY <1>0, <1>1, <1>2, <1>4, <1>5, <1>6, <1>7, <1>8 DEF Write, Save, Op, Cursor
  <1>10. P \in Seq(Op) /\ Len(P) = x /\ D \in Seq(Op) /\ Len(D) = y
    BY <1>6, <1>9
  <1>11. job = (P \o D) \o <<b, s>>
    BY <1>a, <1>4, <1>5, <1>6, <1>7 DEF ApplyInOrder
  <1>12. /\ P \o D \in Seq(Op) /\ Len(P \o D) = x + y
         /\ \A i \in 1 .. x : (P \o D)[i] = P[i]
         /\ \A i \in 1 .. y : (P \o D)[x + i] = D[i]
    BY <1>10
  <1>13. PICK H \in Seq(Op) : H = P \o D
    BY <1>12
  <1>14. /\ H \o <<b, s>> \in Seq(Op) /\ Len(H \o <<b, s>>) = Len(H) + 2
         /\ \A i \in 1 .. Len(H) : (H \o <<b, s>>)[i] = H[i]
         /\ (H \o <<b, s>>)[Len(H) + 1] = b /\ (H \o <<b, s>>)[Len(H) + 2] = s
    <2>1. <<b, s>> \in Seq(Op) /\ Len(<<b, s>>) = 2 /\ <<b, s>>[1] = b /\ <<b, s>>[2] = s
      <3>1. b \in Op /\ s \in Op
        BY <1>9
      <3> QED
        BY <3>1
    <2>2. PICK q \in Seq(Op) : q = <<b, s>> /\ Len(q) = 2 /\ q[1] = b /\ q[2] = s
      BY <2>1
    <2> QED
      BY <2>2
  <1>15. PICK N \in Nat : N = x + y
    OBVIOUS
  <1>16. /\ job \in Seq(Op) /\ Len(job) = N + 2 /\ DOMAIN job = 1 .. N + 2
         /\ \A i \in 1 .. x : job[i] = P[i]
         /\ \A i \in 1 .. y : job[x + i] = D[i]
         /\ job[N + 1] = b /\ job[N + 2] = s
    <2>1. Len(H) = N /\ job = H \o <<b, s>>
      BY <1>11, <1>12, <1>13, <1>15
    <2>2. job \in Seq(Op) /\ Len(job) = N + 2 /\ job[N + 1] = b /\ job[N + 2] = s
      BY <1>14, <2>1
    <2>3. \A i \in 1 .. N : job[i] = H[i]
      BY <1>14, <2>1
    <2>4. \A i \in 1 .. x : i \in 1 .. N /\ H[i] = P[i]
      BY <1>12, <1>13, <1>15
    <2>5. \A i \in 1 .. y : x + i \in 1 .. N /\ H[x + i] = D[i]
      BY <1>12, <1>13, <1>15
    <2>6. DOMAIN job = 1 .. N + 2
      BY <2>2
    <2> QED
      BY <2>2, <2>3, <2>4, <2>5, <2>6
  <1>17. \A k \in 1 .. N + 2 :
           \/ k \in 1 .. x \/ \E i \in 1 .. y : k = x + i
           \/ k = N + 1 \/ k = N + 2
    <2> SUFFICES ASSUME NEW k \in 1 .. N + 2, k > x, k # N + 1, k # N + 2
                 PROVE  \E i \in 1 .. y : k = x + i
      OBVIOUS
    <2>1. k - x \in 1 .. y /\ k = x + (k - x)
      BY <1>15
    <2> QED
      BY <2>1
  <1>18. /\ b.kind = "write" /\ s.kind = "save"
         /\ \A i \in 1 .. x : P[i].kind = "write"
         /\ \A i \in 1 .. y : D[i].kind = "write"
    <2>1. ASSUME NEW put, NEW drop PROVE Write(put, drop).kind = "write"
      BY DEF Write
    <2>2. s.kind = "save"
      BY <1>7 DEF Save
    <2>3. b.kind = "write"
      BY <1>7 DEF Write
    <2>4. ASSUME NEW i \in 1 .. x PROVE P[i].kind = "write"
      <3>1. PICK f : f = Only({p[i]}, a.put)
        OBVIOUS
      <3>2. P[i] = Write(f, {})
        BY <1>9, <3>1, Zenon
      <3> QED
        BY <2>1, <3>2
    <2>5. ASSUME NEW i \in 1 .. y PROVE D[i].kind = "write"
      <3>1. PICK z : z = {d[i]}
        OBVIOUS
      <3>2. D[i] = Write(Nothing, z)
        BY <1>9, <3>1, Zenon
      <3> QED
        BY <2>1, <3>2
    <2> QED
      BY <2>2, <2>3, <2>4, <2>5
  <1>19. \A k \in 1 .. N + 1 : job[k].kind = "write"
    <2> SUFFICES ASSUME NEW k \in 1 .. N + 1 PROVE job[k].kind = "write"
      OBVIOUS
    <2>1. k \in 1 .. N + 2 /\ k # N + 2
      OBVIOUS
    <2>2. k \in 1 .. x => job[k].kind = "write"
      BY <1>16, <1>18
    <2>3. \A i \in 1 .. y : k = x + i => job[k].kind = "write"
      BY <1>16, <1>18
    <2>4. k = N + 1 => job[k].kind = "write"
      BY <1>16, <1>18
    <2> QED
      BY <1>17, <2>1, <2>2, <2>3, <2>4
  <1>20. ASSUME NEW e \in Entity
         PROVE  /\ \A i \in 1 .. x : Touches(P[i], e) <=> e = p[i]
                /\ \A i \in 1 .. x : e = p[i] => Brought(P[i], e) = a.put[e] /\ e \notin gone
                                                /\ a.put[e] # Absent
                /\ \A i \in 1 .. y : Touches(D[i], e) <=> e = d[i]
                /\ \A i \in 1 .. y : e = d[i] => Brought(D[i], e) = Absent /\ e \in gone
                /\ Touches(b, e) <=> e \in Project /\ (e \in gone \/ a.put[e] # Absent)
                /\ Brought(b, e) = IF e \in gone /\ e \in Project THEN Absent
                                   ELSE IF e \in Project THEN a.put[e] ELSE Absent
                /\ ~Touches(s, e)
    <2>1. ASSUME NEW i \in 1 .. x
          PROVE  /\ Touches(P[i], e) <=> e = p[i]
                 /\ e = p[i] => Brought(P[i], e) = a.put[e] /\ e \notin gone /\ a.put[e] # Absent
      <3>1. p[i] \in Thread /\ a.put[p[i]] # Absent
        BY <1>1, <1>4
      <3>2. P[i].kind = "write" /\ P[i].drop = {} /\ P[i].put = Only({p[i]}, a.put)
        <4>1. PICK f : f = Only({p[i]}, a.put)
          OBVIOUS
        <4>2. P[i] = Write(f, {})
          BY <1>9, <4>1, Zenon
        <4> QED
          BY <4>1, <4>2 DEF Write
      <3>3. Only({p[i]}, a.put)[e] = IF e = p[i] THEN a.put[e] ELSE Absent
        BY DEF Only
      <3>4. a.put[p[i]] # Absent => p[i] \notin gone
        OBVIOUS
      <3> QED
        BY <3>1, <3>2, <3>3, <3>4 DEF Touches, Brought
    <2>2. ASSUME NEW i \in 1 .. y
          PROVE  /\ Touches(D[i], e) <=> e = d[i]
                 /\ e = d[i] => Brought(D[i], e) = Absent /\ e \in gone
      <3>1. d[i] \in gone
        BY <1>2, <1>5
      <3>2. D[i].kind = "write" /\ D[i].drop = {d[i]} /\ D[i].put = Nothing
        <4>1. PICK z : z = {d[i]}
          OBVIOUS
        <4>2. D[i] = Write(Nothing, z)
          BY <1>9, <4>1, Zenon
        <4> QED
          BY <4>1, <4>2 DEF Write
      <3>3. Nothing[e] = Absent
        BY DEF Nothing
      <3> QED
        BY <3>1, <3>2, <3>3 DEF Touches, Brought
    <2>3. /\ Touches(b, e) <=> e \in Project /\ (e \in gone \/ a.put[e] # Absent)
          /\ Brought(b, e) = IF e \in gone /\ e \in Project THEN Absent
                             ELSE IF e \in Project THEN a.put[e] ELSE Absent
      <3>1. b.kind = "write" /\ b.drop = gone \cap Project /\ b.put = Only(Project, a.put)
        BY <1>7 DEF Write
      <3>2. Only(Project, a.put)[e] = IF e \in Project THEN a.put[e] ELSE Absent
        BY DEF Only
      <3> QED
        BY <3>1, <3>2 DEF Touches, Brought
    <2>4. ~Touches(s, e)
      BY <1>18 DEF Touches
    <2> QED
      BY <2>1, <2>2, <2>3, <2>4
  <1>21. ASSUME NEW e \in Entity, NEW k \in DOMAIN job, Touches(job[k], e)
         PROVE  /\ a.put[e] # Absent \/ e \in gone
                /\ Brought(job[k], e) = IF e \in gone THEN Absent ELSE a.put[e]
    <2>1. CASE k \in 1 .. x
      <3>1. job[k] = P[k]
        BY <1>16, <2>1
      <3> QED
        BY <1>20, <1>21, <2>1, <3>1
    <2>2. ASSUME NEW i \in 1 .. y, k = x + i
          PROVE  /\ a.put[e] # Absent \/ e \in gone
                 /\ Brought(job[k], e) = IF e \in gone THEN Absent ELSE a.put[e]
      <3>1. job[k] = D[i]
        BY <1>16, <2>2
      <3> QED
        BY <1>20, <1>21, <2>2, <3>1
    <2>3. CASE k = N + 1
      BY <1>16, <1>20, <1>21, <2>3
    <2>4. CASE k = N + 2
      BY <1>16, <1>20, <1>21, <2>4
    <2> QED
      BY <1>16, <1>17, <2>1, <2>2, <2>3, <2>4
  <1>22. ASSUME NEW e \in Entity, a.put[e] # Absent \/ e \in gone
         PROVE  \E k \in DOMAIN job : Touches(job[k], e)
    <2>1. CASE e \in Project
      <3>1. N + 1 \in DOMAIN job /\ job[N + 1] = b
        BY <1>16
      <3> QED
        BY <1>20, <1>22, <2>1, <3>1
    <2>2. CASE e \in Thread /\ a.put[e] # Absent
      <3>1. PICK i \in 1 .. x : p[i] = e
        BY <1>1, <1>4, <2>2
      <3>2. i \in DOMAIN job /\ job[i] = P[i]
        BY <1>15, <1>16
      <3> QED
        BY <1>20, <3>1, <3>2
    <2>3. CASE e \in Thread /\ e \in gone
      <3>1. PICK i \in 1 .. y : d[i] = e
        BY <1>2, <1>5, <2>3
      <3>2. x + i \in DOMAIN job /\ job[x + i] = D[i]
        BY <1>15, <1>16
      <3> QED
        BY <1>20, <3>1, <3>2
    <2> QED
      BY <1>0, <1>22, <2>1, <2>2, <2>3
  <1> QED
    BY <1>7, <1>16, <1>19, <1>21, <1>22 DEF AnswerJob, LastOp

\* The first frame, an answer, becomes the one job there is.
Begins(a, gone, job) ==
  /\ jobs = <<>> /\ jobs' = <<job>> /\ replica' = replica /\ UNCHANGED bridgeVars
  /\ cursor' = cursor /\ savedCursor' = savedCursor /\ syncPc' = "applying"
  /\ link # <<>> /\ link' = Tail(link) /\ a = link[1] /\ a \in Answer
  /\ gone = IF a.reset THEN {e \in Entity : a.put[e] = Absent} ELSE a.drop
  /\ AnswerJob(job, a, gone)

LEMMA BeginsFacts ==
  ASSUME IInv, NEW a, NEW gone, NEW job, Begins(a, gone, job)
  PROVE  /\ AnswerInv(a, openRead) /\ a.rev \in Nat /\ a.store \in Nat /\ a.put \in Put
         /\ \A i \in DOMAIN link' : link'[i] \notin Answer
         /\ \A n \in OnLink : Behind(n, a.rev)
         /\ Rests /\ \A n \in OnLink' : n \in OnLink
         /\ IsAnswerJob(job) /\ ~IsNewsJob(job) /\ Len(job) > 1
         /\ LastOp(job).kind = "save" /\ LastOp(job).cur = [store |-> a.store, rev |-> a.rev]
         /\ DOMAIN jobs' = {1} /\ jobs'[1] = job
         /\ jobs' \in Seq(Seq(Op) \ {<<>>})
  <1>0. Shaped /\ 1 \in DOMAIN link /\ a \in Answer
    BY TypesOf DEF IInv, Shaped, Begins
  <1>1. AnswerInv(a, openRead) /\ \A j \in DOMAIN link : j > 1 => Behind(link[j], a.rev)
    BY <1>0 DEF Begins, IInv, LinkInv
  <1>2. a.rev \in Nat /\ a.store \in Nat /\ a.put \in Put /\ a \notin News
    BY <1>0, NewsIsNoAnswer DEF Answer
  <1>3. ASSUME NEW i \in DOMAIN link' PROVE link'[i] \notin Answer
    <2>1. PICK q \in Seq(News \cup Answer) : q = link
      BY DEF IInv, TypeOK
    <2>2. i + 1 \in DOMAIN q /\ Tail(q)[i] = q[i + 1] /\ i + 1 # 1 /\ q # <<>>
      BY <1>3, <2>1 DEF Begins
    <2>3. link[i + 1] \notin Answer
      BY <1>0, <2>1, <2>2 DEF IInv, OneAnswer, Begins
    <2> QED
      BY <2>1, <2>2, <2>3 DEF Begins
  <1>4. ASSUME NEW n \in OnLink PROVE Behind(n, a.rev)
    <2>1. PICK j \in DOMAIN link : link[j] = n /\ n \in News
      BY <1>4 DEF OnLink
    <2>2. j # 1 /\ j \in Nat \ {0}
      BY <1>0, <1>2, <2>1 DEF Begins, Shaped
    <2> QED
      BY <1>1, <2>1, <2>2
  <1>5. \A n \in OnLink' : n \in OnLink
    BY TailFrames DEF Begins
  <1>6. Rests
    BY <1>5, QuietRests DEF Quiet, Begins
  <1>7. /\ LastOp(job) = Save([store |-> a.store, rev |-> a.rev])
        /\ job \in Seq(Op) /\ Len(job) > 1 /\ \A k \in 1 .. Len(job) - 1 : job[k].kind = "write"
    BY DEF Begins, AnswerJob
  <1>8. LastOp(job).kind = "save" /\ LastOp(job).cur = [store |-> a.store, rev |-> a.rev]
    BY <1>7 DEF Save
  <1>9. IsAnswerJob(job) /\ ~IsNewsJob(job)
    BY <1>7, <1>8 DEF IsAnswerJob, IsNewsJob
  <1>10. job \in Seq(Op) \ {<<>>}
    BY <1>7
  <1>11. DOMAIN <<job>> = {1} /\ <<job>>[1] = job /\ <<job>> \in Seq(Seq(Op) \ {<<>>})
    BY <1>10
  <1> QED
    BY <1>1, <1>2, <1>3, <1>4, <1>5, <1>6, <1>7, <1>8, <1>9, <1>11 DEF Begins

LEMMA BeginsKept ==
  ASSUME IInv, NEW a, NEW gone, NEW job, Begins(a, gone, job)
  PROVE  /\ \A e, v : Kept(e, v) => replica[e] = v /\ Kept(e, v)'
         /\ \A e \in Entity : \A v : Brings(a, e, v) => Right(e, v)'
  <1>0. /\ DOMAIN jobs' = {1} /\ jobs'[1] = job /\ ~IsNewsJob(job) /\ replica' = replica
        /\ AnswerInv(a, openRead) /\ a.put \in Put
    BY BeginsFacts DEF Begins
  <1>1. ASSUME NEW e, NEW v, Kept(e, v) PROVE replica[e] = v /\ Kept(e, v)'
    <2>1. DOMAIN jobs = {}
      BY DEF Begins
    <2>2. NewsOn(e) = {}
      BY <2>1 DEF NewsOn
    <2>3. replica[e] = v
      BY <1>1, <2>2 DEF Kept
    <2>4. NewsOn(e)' = {}
      BY <1>0 DEF NewsOn, IsNewsJob, LastOp
    <2> QED
      BY <1>0, <2>3, <2>4 DEF Kept, Wrong
  <1>2. ASSUME NEW e \in Entity, NEW v, Brings(a, e, v) PROVE Right(e, v)'
    <2>1. /\ \A k \in DOMAIN job : Touches(job[k], e) =>
               /\ a.put[e] # Absent \/ e \in gone
               /\ Brought(job[k], e) = IF e \in gone THEN Absent ELSE a.put[e]
          /\ a.put[e] # Absent \/ e \in gone => \E k \in DOMAIN job : Touches(job[k], e)
      BY DEF Begins, AnswerJob
    <2>2. e \in a.drop => a.put[e] = Absent
      BY <1>0 DEF AnswerInv
    <2>3. e \in gone <=> (IF a.reset THEN a.put[e] = Absent ELSE e \in a.drop)
      BY DEF Begins
    <2>4. CASE Reads(a, e)
      <3>1. ReadAs(a, e) = v
        BY <1>2, <2>4 DEF Brings
      <3>2. /\ a.put[e] # Absent \/ e \in gone
            /\ (IF e \in gone THEN Absent ELSE a.put[e]) = v
        BY <2>2, <2>3, <2>4, <3>1 DEF Reads, ReadAs
      <3>3. /\ \A k \in DOMAIN job : Touches(job[k], e) => Brought(job[k], e) = v
            /\ \E k \in DOMAIN job : Touches(job[k], e)
        BY <2>1, <3>2
      <3> QED
        BY <1>0, <3>3 DEF Right, Touches, Brought
    <2>5. CASE ~Reads(a, e)
      <3>1. replica[e] = v
        BY <1>1, <1>2, <2>5 DEF Brings
      <3>2. \A k \in DOMAIN job : ~Touches(job[k], e)
        BY <2>1, <2>3, <2>5 DEF Reads
      <3> QED
        BY <1>0, <3>1, <3>2 DEF Right, Touches, Brought
    <2> QED
      BY <2>4, <2>5
  <1> QED
    BY <1>1, <1>2

LEMMA BeginsStep ==
  ASSUME IInv, TypeOK', NEW a, NEW gone, NEW job, Begins(a, gone, job)
  PROVE  IInv'
  <1>0. /\ AnswerInv(a, openRead) /\ a.rev \in Nat /\ a.store \in Nat
        /\ \A i \in DOMAIN link' : link'[i] \notin Answer
        /\ \A n \in OnLink : Behind(n, a.rev)
        /\ Rests /\ \A n \in OnLink' : n \in OnLink
        /\ IsAnswerJob(job) /\ ~IsNewsJob(job) /\ Len(job) > 1
        /\ LastOp(job).kind = "save" /\ LastOp(job).cur = [store |-> a.store, rev |-> a.rev]
        /\ Shaped /\ CursorInv /\ BridgeInv
    BY BeginsFacts, TypesOf DEF IInv
  <1>1. PICK J : J = jobs' /\ DOMAIN J = {1} /\ J[1] = job
    BY BeginsFacts
  <1>2. Keeps /\ BridgeInv' /\ NewsInv' /\ led' = led
    BY <1>0, RestsKeeps DEF Keeps, Rests, Untouched
  <1>3. JobsInv'
    BY <1>0, <1>1 DEF JobsInv, IsNewsJob, IsAnswerJob, LastOp, Begins
  <1>4. OneAnswer' /\ LinkInv' /\ ReadyInv'
    BY <1>0, NoAnswers DEF Begins
  <1>5. AskedInv'
    BY DEF AskedInv, Begins
  <1>6. PICK c, s : c = cursor /\ s = savedCursor /\ c \in Cursor /\ s \in Cursor
    BY DEF IInv, TypeOK
  <1>7. cursor' = c /\ savedCursor' = s /\ c.store \in Nat /\ c.rev \in Nat
    BY <1>0, <1>6 DEF Begins, Shaped
  <1>8. SavesInv'
    <2>1. ASSUME NEW k \in DOMAIN job, job[k].kind = "save" PROVE SavesOf(job, k, c)
      <3>1. DOMAIN job = 1 .. Len(job) /\ Len(job) \in Nat
        BY DEF Begins, AnswerJob
      <3>2. k \notin 1 .. Len(job) - 1
        BY <1>0, <2>1 DEF IsAnswerJob
      <3>3. k = Len(job)
        BY <3>1, <3>2
      <3>4. job[k].cur.store = a.store /\ job[k].cur.rev = a.rev
        BY <1>0, <3>3 DEF LastOp
      <3>5. a.store = led.store /\ c.store <= led.store /\ (c.store = led.store => c.rev <= a.rev)
        BY <1>0, <1>6 DEF AnswerInv, CursorInv, Ours
      <3> QED
        BY <1>0, <3>4, <3>5 DEF SavesOf, Shaped
    <2> QED
      BY <1>1, <1>2, <1>7, <2>1, SavesBecome
  <1>9. CursorInv'
    <2>1. \A e, v : Kept(e, v) => Kept(e, v)'
      BY BeginsKept
    <2>2. /\ c.store <= led.store /\ s.store <= c.store /\ (s.store = c.store => s.rev <= c.rev)
          /\ c.store = led.store =>
               /\ Taken(c.rev, openRead)
               /\ \A w \in Truths(openRead) : After(w, c.rev) \/ Kept(w.on, w.is)
      BY <1>0, <1>6 DEF CursorInv, Ours
    <2> QED
      BY <1>0, <1>6, <1>7, <2>1, <2>2, CursorBecomes
  <1>10. ApplyInv'
    <2>1. ASSUME NEW w \in Truths(openRead) PROVE After(w, a.rev) \/ Right(w.on, w.is)'
      <3>1. After(w, a.rev) \/ Brings(a, w.on, w.is)
        BY <1>0 DEF AnswerInv
      <3>2. w.on \in Entity
        BY <1>0, DatesBound
      <3> QED
        BY <3>1, <3>2, BeginsKept
    <2>2. LastOp(job).cur.rev = a.rev /\ Taken(a.rev, openRead)
      BY <1>0 DEF AnswerInv
    <2>3. \A i \in DOMAIN J : AppliedAnswer(J[i]) =>
            LET r == LastOp(J[i]).cur.rev
            IN /\ r \in Nat /\ Taken(r, openRead)
               /\ \A w \in Truths(openRead) : After(w, r) \/ Right(w.on, w.is)'
               /\ \A n \in OnLink : Behind(n, r)
      BY <1>0, <1>1, <2>1, <2>2
    <2> QED
      BY <1>0, <1>1, <2>3, ApplyBecomes
  <1> QED
    BY <1>2, <1>3, <1>4, <1>5, <1>8, <1>9, <1>10 DEF IInv

LEMMA ReceiveAnswerStep ==
  ASSUME CursorSchedules, IInv, ReceiveAnswer
  PROVE  IInv'
  <1>0. PICK a : a = Head(link)
    OBVIOUS
  <1>1. /\ link # <<>> /\ a \notin News /\ jobs = <<>> /\ syncPc' = "applying" /\ again' = again
        /\ connected' = connected
    BY <1>0 DEF ReceiveAnswer, CursorSchedules, Receive
  <1>2. a = link[1] /\ a \in Answer
    BY <1>0, <1>1, TypesOf DEF IInv, Shaped
  <1>3. PICK gone : gone = IF a.reset THEN {e \in Entity : a.put[e] = Absent} ELSE a.drop
    OBVIOUS
  <1>4. gone \in SUBSET Entity /\ \A e \in gone : a.put[e] = Absent
    <2>1. 1 \in DOMAIN link /\ a.drop \in SUBSET Entity
      BY <1>1, <1>2, TypesOf DEF IInv, Shaped, Answer
    <2>2. AnswerInv(a, openRead)
      BY <1>2, <2>1 DEF IInv, LinkInv
    <2> QED
      BY <1>3, <2>1, <2>2 DEF AnswerInv
  <1>5. PICK job : job \in ApplyJobs(a, gone) /\ Receive(job)
    BY <1>0, <1>3 DEF ReceiveAnswer, ApplyOf
  <1>6. AnswerJob(job, a, gone)
    BY <1>2, <1>4, <1>5, ApplyShape
  <1>7. job # <<>> /\ Head(job).kind = "write"
    <2>1. /\ job \in Seq(Op) /\ Len(job) \in Nat /\ Len(job) > 1
          /\ \A k \in 1 .. Len(job) - 1 : job[k].kind = "write"
      BY <1>6 DEF AnswerJob
    <2>2. job[1].kind = "write"
      BY <2>1
    <2> QED
      BY <2>1, <2>2
  <1>8. jobs' = <<job>> /\ cursor' = cursor
    <2>1. jobs' = Requeue(jobs, job) /\ cursor' = CursorOf(job, cursor)
      BY <1>5 DEF Receive
    <2>2. CursorOf(job, cursor) = cursor
      BY <1>7 DEF CursorOf
    <2>3. Requeue(jobs, job) = Append(<<>>, job)
      BY <1>1, <1>7 DEF Requeue
    <2> QED
      BY <2>1, <2>2, <2>3
  <1>9. /\ link' = Tail(link) /\ UNCHANGED bridgeVars
        /\ asked' = asked /\ listed' = listed /\ answer' = answer
        /\ replica' = replica /\ savedCursor' = savedCursor /\ loading' = loading
    BY <1>5 DEF Receive
  <1>10. Begins(a, gone, job)
    BY <1>1, <1>2, <1>3, <1>6, <1>8, <1>9 DEF Begins
  <1>11. TypeOK'
    <2>1. link' \in Seq(News \cup Answer)
      BY <1>1, <1>9, TailFrames
    <2>2. jobs' \in Seq(Seq(Op) \ {<<>>})
      BY <1>10, BeginsFacts
    <2> QED
      BY <1>1, <1>8, <1>9, <2>1, <2>2, BridgeTypeStays DEF IInv, TypeOK, SyncPc
  <1> QED
    BY <1>10, <1>11, BeginsStep
--------------------------------------------------------------------------------
(* The database executes a statement.                                          *)

\* The words of the database, of a queue Q and a replica R.
NewsIn(Q, e) == {i \in DOMAIN Q : IsNewsJob(Q[i]) /\ Touches(LastOp(Q[i]), e)}
WrongIn(Q, e, v) == {i \in NewsIn(Q, e) : Brought(LastOp(Q[i]), e) # v}
LaterIn(Q, i, j) == Len(Q[j]) < Len(Q[i]) \/ (Len(Q[j]) = Len(Q[i]) /\ j < i)
LastIn(Q, e, v) == \E i \in NewsIn(Q, e) \ WrongIn(Q, e, v) :
                     \A j \in WrongIn(Q, e, v) : LaterIn(Q, i, j)
KeptIn(Q, R, e, v) == (R[e] = v /\ WrongIn(Q, e, v) = {}) \/ LastIn(Q, e, v)
RightIn(Q, R, e, v) ==
  /\ \A i \in DOMAIN Q : \A k \in DOMAIN Q[i] : Touches(Q[i][k], e) => Brought(Q[i][k], e) = v
  /\ R[e] = v \/ \E i \in DOMAIN Q : \E k \in DOMAIN Q[i] : Touches(Q[i][k], e)

LEMMA InWords ==
  ASSUME NEW Q, NEW R, jobs' = Q, replica' = R, NEW e, NEW v
  PROVE  /\ Kept(e, v) <=> KeptIn(jobs, replica, e, v)
         /\ Right(e, v) <=> RightIn(jobs, replica, e, v)
         /\ Kept(e, v)' <=> KeptIn(Q, R, e, v)
         /\ Right(e, v)' <=> RightIn(Q, R, e, v)
  <1>1. /\ Kept(e, v) <=> KeptIn(jobs, replica, e, v)
        /\ Right(e, v) <=> RightIn(jobs, replica, e, v)
    BY DEF Kept, KeptIn, LastIn, NewsOn, NewsIn, Wrong, WrongIn, Later, LaterIn, Right, RightIn
  <1>2. /\ NewsOn(e)' = NewsIn(Q, e) /\ Wrong(e, v)' = WrongIn(Q, e, v)
        /\ \A i, j : Later(i, j)' <=> LaterIn(Q, i, j)
    BY DEF NewsOn, NewsIn, Wrong, WrongIn, Later, LaterIn, IsNewsJob, LastOp, Touches, Brought
  <1>3. Kept(e, v)' <=> KeptIn(Q, R, e, v)
    BY <1>2 DEF Kept, KeptIn, LastIn
  <1>4. Right(e, v)' <=> RightIn(Q, R, e, v)
    BY DEF Right, RightIn, Touches, Brought
  <1> QED
    BY <1>1, <1>3, <1>4

\* The head of the queue of jobs is executed, which leaves the queue Q.
Executes(job, Q) ==
  /\ jobs # <<>> /\ job = jobs[1] /\ Q = Requeue(Tail(jobs), Tail(job))

LEMMA TailIs ==
  ASSUME NEW X, NEW q \in Seq(X), q # <<>>, NEW n, n = Len(q)
  PROVE  /\ n \in Nat \ {0} /\ DOMAIN q = 1 .. n /\ q[1] \in X
         /\ Tail(q) \in Seq(X) /\ Len(Tail(q)) = n - 1 /\ DOMAIN Tail(q) = 1 .. n - 1
         /\ \A i \in 1 .. n - 1 : Tail(q)[i] = q[i + 1]
         /\ Tail(q) = <<>> <=> n = 1
  OBVIOUS

LEMMA AppendIs ==
  ASSUME NEW X, NEW q \in Seq(X), NEW x \in X, NEW n \in Nat, n = Len(q)
  PROVE  /\ Append(q, x) \in Seq(X) /\ DOMAIN Append(q, x) = 1 .. n + 1
         /\ \A i \in 1 .. n : Append(q, x)[i] = q[i]
         /\ Append(q, x)[n + 1] = x
  OBVIOUS

\* Where each job and each statement goes; N jobs wait, the first of L statements.
ExecShape(job, Q, N, L) ==
  /\ N \in Nat /\ N = Len(jobs) /\ DOMAIN jobs = 1 .. N /\ N > 0 /\ 1 \in DOMAIN jobs
  /\ L \in Nat /\ L = Len(job) /\ DOMAIN job = 1 .. L /\ L > 0
  /\ job \in Seq(Op) /\ Q \in Seq(Seq(Op) \ {<<>>})
  /\ DOMAIN Q = IF L = 1 THEN 1 .. N - 1 ELSE 1 .. N
  /\ \A i \in 1 .. N - 1 : Q[i] = jobs[i + 1] /\ i + 1 \in 1 .. N
  /\ L > 1 => /\ Q[N] = Tail(job)
              /\ Len(Tail(job)) = L - 1 /\ DOMAIN Tail(job) = 1 .. L - 1
              /\ \A k \in 1 .. L - 1 : Tail(job)[k] = job[k + 1]
              /\ LastOp(Tail(job)) = LastOp(job)

LEMMA ExecutesShape ==
  ASSUME IInv, NEW job, NEW Q, Executes(job, Q)
  PROVE  ExecShape(job, Q, Len(jobs), Len(job))
  <1>1. PICK X : X = Seq(Op) \ {<<>>}
    OBVIOUS
  <1>2. jobs \in Seq(X) /\ jobs # <<>> /\ job = jobs[1]
    BY <1>1 DEF IInv, TypeOK, Executes
  <1>3. PICK N : N = Len(jobs)
    OBVIOUS
  <1>4. PICK T : T = Tail(jobs)
    OBVIOUS
  <1>5. /\ N \in Nat \ {0} /\ DOMAIN jobs = 1 .. N /\ job \in X
        /\ T \in Seq(X) /\ Len(T) = N - 1 /\ DOMAIN T = 1 .. N - 1
        /\ \A i \in 1 .. N - 1 : T[i] = jobs[i + 1]
    BY <1>2, <1>3, <1>4, TailIs
  <1>6. job \in Seq(Op) /\ job # <<>>
    BY <1>1, <1>5
  <1>7. PICK L, r : L = Len(job) /\ r = Tail(job)
    OBVIOUS
  <1>8. /\ L \in Nat \ {0} /\ DOMAIN job = 1 .. L
        /\ r \in Seq(Op) /\ Len(r) = L - 1 /\ DOMAIN r = 1 .. L - 1
        /\ \A k \in 1 .. L - 1 : r[k] = job[k + 1]
        /\ r = <<>> <=> L = 1
    BY <1>6, <1>7, TailIs
  <1>9. Q = IF r = <<>> THEN T ELSE Append(T, r)
    BY <1>4, <1>7 DEF Executes, Requeue
  <1>10. \A i \in 1 .. N - 1 : i + 1 \in 1 .. N
    BY <1>5
  <1>11. L = 1 => /\ Q \in Seq(X) /\ DOMAIN Q = 1 .. N - 1
                 /\ \A i \in 1 .. N - 1 : Q[i] = jobs[i + 1]
    BY <1>5, <1>8, <1>9
  <1>12. ASSUME L > 1
         PROVE  /\ Q \in Seq(X) /\ DOMAIN Q = 1 .. N
                /\ \A i \in 1 .. N - 1 : Q[i] = jobs[i + 1]
                /\ Q[N] = r /\ LastOp(r) = LastOp(job)
    <2>1. r \in X /\ Q = Append(T, r)
      BY <1>1, <1>8, <1>9, <1>12
    <2>2. PICK n : n = N - 1
      OBVIOUS
    <2>3. n \in Nat /\ n + 1 = N /\ n = Len(T)
      BY <1>5, <2>2
    <2>4. /\ Append(T, r) \in Seq(X) /\ DOMAIN Append(T, r) = 1 .. n + 1
          /\ \A i \in 1 .. n : Append(T, r)[i] = T[i]
          /\ Append(T, r)[n + 1] = r
      BY <1>5, <2>1, <2>3, AppendIs
    <2>5. L - 1 \in 1 .. L - 1 /\ (L - 1) + 1 = L
      BY <1>8, <1>12
    <2>6. r[L - 1] = job[L]
      BY <1>8, <2>5
    <2> QED
      BY <1>5, <1>7, <1>8, <2>1, <2>2, <2>3, <2>4, <2>6 DEF LastOp
  <1>13. 1 \in DOMAIN jobs /\ N > 0 /\ L > 0 /\ (L = 1 \/ L > 1)
    BY <1>5, <1>8
  <1>14. Q \in Seq(Seq(Op) \ {<<>>})
    BY <1>1, <1>11, <1>12, <1>13
  <1>15. /\ DOMAIN Q = IF L = 1 THEN 1 .. N - 1 ELSE 1 .. N
         /\ \A i \in 1 .. N - 1 : Q[i] = jobs[i + 1] /\ i + 1 \in 1 .. N
         /\ L > 1 => /\ Q[N] = Tail(job)
                     /\ Len(Tail(job)) = L - 1 /\ DOMAIN Tail(job) = 1 .. L - 1
                     /\ \A k \in 1 .. L - 1 : Tail(job)[k] = job[k + 1]
                     /\ LastOp(Tail(job)) = LastOp(job)
    BY <1>7, <1>8, <1>10, <1>11, <1>12, <1>13
  <1> QED
    BY <1>3, <1>5, <1>6, <1>7, <1>8, <1>13, <1>14, <1>15 DEF ExecShape

LEMMA QueueShape ==
  ASSUME IInv, NEW job, NEW Q, Executes(job, Q), NEW N, NEW L, ExecShape(job, Q, N, L)
  PROVE  /\ IsNewsJob(job) \/ IsAnswerJob(job)
         /\ IsNewsJob(job) => (L = 1 \/ L = 2) /\ job[L].kind = "write" /\ LastOp(job) = job[L]
                              /\ (L = 2 => job[1].kind = "save")
         /\ IsAnswerJob(job) => job[L].kind = "save" /\ LastOp(job) = job[L]
                                /\ \A k \in 1 .. L - 1 : job[k].kind = "write"
         /\ L > 1 => /\ IsNewsJob(Tail(job)) <=> IsNewsJob(job)
                     /\ IsAnswerJob(Tail(job)) <=> IsAnswerJob(job)
  <1>1. job = jobs[1] /\ 1 \in DOMAIN jobs
    BY DEF Executes, ExecShape
  <1>2. IsNewsJob(job) \/ IsAnswerJob(job)
    BY <1>1 DEF IInv, JobsInv
  <1>3. LastOp(job) = job[L] /\ Len(job) = L /\ L \in Nat /\ L > 0
    BY DEF ExecShape, LastOp
  <1>4. IsNewsJob(job) => (L = 1 \/ L = 2) /\ job[L].kind = "write" /\ (L = 2 => job[1].kind = "save")
    BY <1>3 DEF IsNewsJob
  <1>5. IsAnswerJob(job) => job[L].kind = "save" /\ \A k \in 1 .. L - 1 : job[k].kind = "write"
    BY <1>3 DEF IsAnswerJob
  <1>6. ASSUME L > 1
        PROVE  /\ IsNewsJob(Tail(job)) <=> IsNewsJob(job)
               /\ IsAnswerJob(Tail(job)) <=> IsAnswerJob(job)
    <2>1. PICK r : r = Tail(job)
      OBVIOUS
    <2>2. /\ Len(r) = L - 1 /\ \A k \in 1 .. L - 1 : r[k] = job[k + 1]
          /\ LastOp(r) = LastOp(job)
      BY <1>6, <2>1 DEF ExecShape
    <2>3. IsNewsJob(job) => IsNewsJob(r)
      BY <1>3, <1>4, <1>6, <2>2 DEF IsNewsJob
    <2>4. IsAnswerJob(job) => IsAnswerJob(r)
      <3>1. \A k \in 1 .. (L - 1) - 1 : k \in 1 .. L - 1 /\ k + 1 \in 1 .. L - 1
        BY <1>3
      <3> QED
        BY <1>3, <1>5, <2>2, <3>1 DEF IsAnswerJob
    <2>5. ~(IsNewsJob(r) /\ IsAnswerJob(job)) /\ ~(IsAnswerJob(r) /\ IsNewsJob(job))
      BY <2>2 DEF IsNewsJob, IsAnswerJob
    <2> QED
      BY <1>2, <2>1, <2>3, <2>4, <2>5
  <1> QED
    BY <1>2, <1>3, <1>4, <1>5, <1>6

LEMMA NewsAfter ==
  ASSUME IInv, NEW job, NEW Q, Executes(job, Q), NEW N, NEW L, ExecShape(job, Q, N, L),
         NEW e, NEW v
  PROVE  /\ \A i \in 1 .. N - 1 : /\ i \in NewsIn(Q, e) <=> i + 1 \in NewsIn(jobs, e)
                                  /\ i \in WrongIn(Q, e, v) <=> i + 1 \in WrongIn(jobs, e, v)
         /\ \A i, j \in 1 .. N - 1 : LaterIn(Q, i, j) <=> LaterIn(jobs, i + 1, j + 1)
         /\ L > 1 => /\ N \in NewsIn(Q, e) <=> 1 \in NewsIn(jobs, e)
                     /\ N \in WrongIn(Q, e, v) <=> 1 \in WrongIn(jobs, e, v)
                     /\ Len(Q[N]) = L - 1
         /\ \A i \in NewsIn(Q, e) : i \in 1 .. N - 1 \/ (i = N /\ L > 1)
         /\ \A i \in NewsIn(jobs, e) : /\ i \in 1 .. N /\ (i = 1 \/ i - 1 \in 1 .. N - 1)
                                       /\ Len(jobs[i]) = 1 \/ Len(jobs[i]) = 2
  <1>0. /\ N \in Nat /\ DOMAIN jobs = 1 .. N /\ N > 0 /\ L \in Nat /\ L > 0
        /\ DOMAIN Q = IF L = 1 THEN 1 .. N - 1 ELSE 1 .. N
        /\ \A i \in 1 .. N - 1 : Q[i] = jobs[i + 1] /\ i + 1 \in 1 .. N
        /\ L > 1 => Q[N] = Tail(job) /\ Len(Tail(job)) = L - 1 /\ LastOp(Tail(job)) = LastOp(job)
        /\ job = jobs[1]
    BY DEF ExecShape, Executes
  <1>1. \A i \in 1 .. N - 1 : i \in DOMAIN Q /\ i + 1 \in DOMAIN jobs /\ Q[i] = jobs[i + 1]
    BY <1>0
  <1>2. ASSUME NEW i \in 1 .. N - 1
        PROVE  /\ i \in NewsIn(Q, e) <=> i + 1 \in NewsIn(jobs, e)
               /\ i \in WrongIn(Q, e, v) <=> i + 1 \in WrongIn(jobs, e, v)
    BY <1>1 DEF NewsIn, WrongIn
  <1>3. ASSUME NEW i \in 1 .. N - 1, NEW j \in 1 .. N - 1
        PROVE  LaterIn(Q, i, j) <=> LaterIn(jobs, i + 1, j + 1)
    <2>1. j < i <=> j + 1 < i + 1
      BY <1>0
    <2> QED
      BY <1>1, <2>1 DEF LaterIn
  <1>4. ASSUME L > 1
        PROVE  /\ N \in NewsIn(Q, e) <=> 1 \in NewsIn(jobs, e)
               /\ N \in WrongIn(Q, e, v) <=> 1 \in WrongIn(jobs, e, v)
               /\ Len(Q[N]) = L - 1
    <2>1. N \in DOMAIN Q /\ 1 \in DOMAIN jobs
      BY <1>0, <1>4
    <2>2. IsNewsJob(Q[N]) <=> IsNewsJob(jobs[1])
      BY <1>0, <1>4, QueueShape
    <2>3. LastOp(Q[N]) = LastOp(jobs[1])
      BY <1>0, <1>4
    <2> QED
      BY <1>0, <1>4, <2>1, <2>2, <2>3 DEF NewsIn, WrongIn
  <1>5. \A i \in NewsIn(Q, e) : i \in 1 .. N - 1 \/ (i = N /\ L > 1)
    BY <1>0 DEF NewsIn
  <1>6. \A i \in NewsIn(jobs, e) : /\ i \in 1 .. N /\ (i = 1 \/ i - 1 \in 1 .. N - 1)
                                   /\ Len(jobs[i]) = 1 \/ Len(jobs[i]) = 2
    BY <1>0 DEF NewsIn, IsNewsJob
  <1> QED
    BY <1>2, <1>3, <1>4, <1>5, <1>6

\* What executing op makes of e.
Leaves(op, R, e) == R[e] = IF Touches(op, e) THEN Brought(op, e) ELSE replica[e]

LEMMA ExecutesKept ==
  ASSUME IInv, NEW job, NEW Q, Executes(job, Q), NEW e, NEW v, NEW R, Leaves(job[1], R, e),
         KeptIn(jobs, replica, e, v),
         IsAnswerJob(job) => (Touches(job[1], e) => Brought(job[1], e) = v)
  PROVE  KeptIn(Q, R, e, v)
  <1>0. PICK N \in Nat, L \in Nat : ExecShape(job, Q, N, L)
    BY ExecutesShape DEF ExecShape
  <1>1. N \in Nat /\ N > 0 /\ L \in Nat /\ L > 0 /\ job = jobs[1] /\ L = Len(job) /\ 1 \in DOMAIN jobs
    BY <1>0 DEF ExecShape, Executes
  <1>2. /\ IsNewsJob(job) \/ IsAnswerJob(job)
        /\ IsNewsJob(job) => (L = 1 \/ L = 2) /\ LastOp(job) = job[L]
                             /\ (L = 2 => job[1].kind = "save")
    BY <1>0, QueueShape
  <1>3. /\ \A i \in 1 .. N - 1 : /\ i \in NewsIn(Q, e) <=> i + 1 \in NewsIn(jobs, e)
                                 /\ i \in WrongIn(Q, e, v) <=> i + 1 \in WrongIn(jobs, e, v)
        /\ \A i, j \in 1 .. N - 1 : LaterIn(Q, i, j) <=> LaterIn(jobs, i + 1, j + 1)
        /\ L > 1 => /\ N \in NewsIn(Q, e) <=> 1 \in NewsIn(jobs, e)
                    /\ N \in WrongIn(Q, e, v) <=> 1 \in WrongIn(jobs, e, v)
                    /\ Len(Q[N]) = L - 1
        /\ \A i \in NewsIn(Q, e) : i \in 1 .. N - 1 \/ (i = N /\ L > 1)
        /\ \A i \in NewsIn(jobs, e) : /\ i \in 1 .. N /\ (i = 1 \/ i - 1 \in 1 .. N - 1)
                                      /\ Len(jobs[i]) = 1 \/ Len(jobs[i]) = 2
    BY <1>0, NewsAfter
  <1>4. /\ WrongIn(Q, e, v) \subseteq NewsIn(Q, e)
        /\ WrongIn(jobs, e, v) \subseteq NewsIn(jobs, e)
    BY DEF WrongIn
  <1>5. ASSUME WrongIn(jobs, e, v) = {} PROVE WrongIn(Q, e, v) = {}
    BY <1>3, <1>4, <1>5
  <1>6. ASSUME Touches(job[1], e), IsNewsJob(job)
        PROVE  L = 1 /\ 1 \in NewsIn(jobs, e) /\ Brought(LastOp(job), e) = R[e]
    <2>1. L = 1 /\ LastOp(job) = job[1]
      BY <1>2, <1>6 DEF Touches
    <2> QED
      BY <1>1, <1>6, <2>1 DEF NewsIn, Leaves
  <1>7. ASSUME Touches(job[1], e), 1 \notin WrongIn(jobs, e, v)
        PROVE  R[e] = v
    <2>1. CASE IsNewsJob(job)
      BY <1>1, <1>6, <1>7, <2>1 DEF WrongIn
    <2>2. CASE IsAnswerJob(job)
      BY <1>7, <2>2 DEF Leaves
    <2> QED
      BY <1>2, <2>1, <2>2
  <1>8. CASE replica[e] = v /\ WrongIn(jobs, e, v) = {}
    <2>1. R[e] = v
      BY <1>7, <1>8 DEF Leaves
    <2> QED
      BY <1>5, <1>8, <2>1 DEF KeptIn
  <1>9. CASE LastIn(jobs, e, v)
    <2>1. PICK i : /\ i \in NewsIn(jobs, e) /\ i \notin WrongIn(jobs, e, v)
                   /\ \A j \in WrongIn(jobs, e, v) : LaterIn(jobs, i, j)
      BY <1>9 DEF LastIn
    <2>2. CASE i = 1 /\ L = 1
      <3>1. WrongIn(jobs, e, v) = {}
        <4> SUFFICES ASSUME NEW j \in WrongIn(jobs, e, v) PROVE FALSE
          OBVIOUS
        <4>1. LaterIn(jobs, 1, j) /\ j \in 1 .. N /\ (Len(jobs[j]) = 1 \/ Len(jobs[j]) = 2)
          BY <1>3, <1>4, <2>1, <2>2
        <4> QED
          BY <1>1, <2>2, <4>1 DEF LaterIn
      <3>2. Touches(job[1], e)
        BY <1>1, <1>2, <2>1, <2>2 DEF NewsIn
      <3>3. R[e] = v
        BY <1>7, <3>1, <3>2
      <3> QED
        BY <1>5, <3>1, <3>3 DEF KeptIn
    <2>3. CASE i # 1
      <3>1. PICK h : h = i - 1
        OBVIOUS
      <3>2. h \in 1 .. N - 1 /\ h + 1 = i /\ i \in 1 .. N
        BY <1>1, <1>3, <2>1, <2>3, <3>1
      <3>3. h \in NewsIn(Q, e) \ WrongIn(Q, e, v)
        BY <1>3, <2>1, <3>2
      <3>4. ASSUME NEW j \in WrongIn(Q, e, v), j \in 1 .. N - 1 PROVE LaterIn(Q, h, j)
        <4>1. j + 1 \in WrongIn(jobs, e, v)
          BY <1>3, <3>4
        <4> QED
          BY <1>3, <2>1, <3>2, <3>4, <4>1
      <3>5. ASSUME N \in WrongIn(Q, e, v), L > 1 PROVE LaterIn(Q, h, N)
        <4>1. 1 \in WrongIn(jobs, e, v)
          BY <1>3, <3>5
        <4>2. IsNewsJob(job)
          BY <1>1, <1>4, <4>1 DEF NewsIn
        <4>3. L = 2 /\ Len(Q[N]) = 1
          <5>1. L = 2
            BY <1>2, <3>5, <4>2
          <5>2. Len(Q[N]) = L - 1
            BY <1>3, <3>5
          <5> QED
            BY <5>1, <5>2
        <4>4. LaterIn(jobs, i, 1) /\ Len(jobs[1]) = 2 /\ (Len(jobs[i]) = 1 \/ Len(jobs[i]) = 2)
          BY <1>1, <1>3, <2>1, <4>1, <4>3
        <4>5. Len(jobs[i]) = 2
          <5>1. PICK l \in {1, 2} : l = Len(jobs[i])
            BY <4>4
          <5>2. 2 < l \/ l = 2
            BY <4>4, <5>1 DEF LaterIn
          <5> QED
            BY <5>1, <5>2
        <4>6. Len(Q[h]) = 2
          BY <1>0, <3>2, <4>5 DEF ExecShape
        <4> QED
          BY <4>3, <4>6 DEF LaterIn
      <3>6. \A j \in WrongIn(Q, e, v) : LaterIn(Q, h, j)
        BY <1>3, <1>4, <3>4, <3>5
      <3> QED
        BY <3>3, <3>6 DEF KeptIn, LastIn
    <2>4. CASE i = 1 /\ L > 1
      <3>1. N \in NewsIn(Q, e) \ WrongIn(Q, e, v)
        BY <1>3, <2>1, <2>4
      <3>2. L = 2 /\ Len(Q[N]) = 1 /\ Len(jobs[1]) = 2
        <4>1. IsNewsJob(job)
          BY <1>1, <2>1, <2>4 DEF NewsIn
        <4>2. L = 2
          BY <1>2, <2>4, <4>1
        <4>3. Len(Q[N]) = L - 1
          BY <1>3, <2>4
        <4> QED
          BY <1>1, <4>2, <4>3
      <3>3. ASSUME NEW j \in WrongIn(Q, e, v) PROVE LaterIn(Q, N, j)
        <4>1. j \in 1 .. N - 1
          BY <1>3, <1>4, <3>1, <3>3
        <4>2. j + 1 \in WrongIn(jobs, e, v)
          BY <1>3, <3>3, <4>1
        <4>3. LaterIn(jobs, 1, j + 1) /\ (Len(jobs[j + 1]) = 1 \/ Len(jobs[j + 1]) = 2)
          BY <1>3, <1>4, <2>1, <2>4, <4>2
        <4>4. Len(jobs[j + 1]) = 1
          BY <1>1, <3>2, <4>1, <4>3 DEF LaterIn
        <4>5. Len(Q[j]) = 1 /\ j < N
          BY <1>0, <1>1, <4>1, <4>4 DEF ExecShape
        <4> QED
          BY <3>2, <4>5 DEF LaterIn
      <3> QED
        BY <3>1, <3>3 DEF KeptIn, LastIn
    <2>5. L = 1 \/ L > 1
      <3>1. L > 0
        BY <1>1
      <3> QED
        BY <3>1
    <2> QED
      BY <2>2, <2>3, <2>4, <2>5
  <1> QED
    BY <1>8, <1>9 DEF KeptIn

LEMMA ExecutesRight ==
  ASSUME IInv, NEW job, NEW Q, Executes(job, Q), NEW e, NEW v, NEW R, Leaves(job[1], R, e),
         RightIn(jobs, replica, e, v)
  PROVE  RightIn(Q, R, e, v)
  <1>0. PICK N \in Nat, L \in Nat : ExecShape(job, Q, N, L)
    BY ExecutesShape DEF ExecShape
  <1>1. /\ N \in Nat /\ N > 0 /\ L \in Nat /\ L > 0 /\ job = jobs[1] /\ DOMAIN jobs = 1 .. N
        /\ DOMAIN job = 1 .. L
        /\ DOMAIN Q = IF L = 1 THEN 1 .. N - 1 ELSE 1 .. N
        /\ \A i \in 1 .. N - 1 : Q[i] = jobs[i + 1] /\ i + 1 \in 1 .. N
        /\ L > 1 => /\ DOMAIN Q[N] = 1 .. L - 1
                    /\ \A k \in 1 .. L - 1 : Q[N][k] = job[k + 1]
    BY <1>0 DEF ExecShape, Executes
  <1>2. ASSUME NEW i \in DOMAIN jobs, NEW k \in DOMAIN jobs[i], Touches(jobs[i][k], e)
        PROVE  Brought(jobs[i][k], e) = v
    BY <1>2 DEF RightIn
  <1>3. ASSUME NEW i \in DOMAIN Q, NEW k \in DOMAIN Q[i], Touches(Q[i][k], e)
        PROVE  Brought(Q[i][k], e) = v
    <2>1. CASE i \in 1 .. N - 1
      <3>1. Q[i] = jobs[i + 1] /\ i + 1 \in DOMAIN jobs
        BY <1>1, <2>1
      <3> QED
        BY <1>2, <1>3, <3>1
    <2>2. CASE i = N /\ L > 1
      <3>1. k \in 1 .. L - 1 /\ k + 1 \in DOMAIN job /\ Q[i][k] = job[k + 1] /\ 1 \in DOMAIN jobs
        BY <1>1, <1>3, <2>2
      <3> QED
        BY <1>1, <1>2, <1>3, <3>1
    <2> QED
      BY <1>1, <2>1, <2>2
  <1>4. R[e] = v \/ \E i \in DOMAIN Q : \E k \in DOMAIN Q[i] : Touches(Q[i][k], e)
    <2>0. 1 \in DOMAIN jobs /\ 1 \in DOMAIN job
      BY <1>1
    <2>1. CASE Touches(job[1], e)
      BY <1>1, <1>2, <2>0, <2>1 DEF Leaves
    <2>2. CASE ~Touches(job[1], e) /\ replica[e] = v
      BY <2>2 DEF Leaves
    <2>3. ASSUME ~Touches(job[1], e), NEW i \in DOMAIN jobs, NEW k \in DOMAIN jobs[i],
                 Touches(jobs[i][k], e)
          PROVE  \E j \in DOMAIN Q : \E l \in DOMAIN Q[j] : Touches(Q[j][l], e)
      <3>1. CASE i = 1
        <4>1. k \in 1 .. L /\ k # 1
          BY <1>1, <2>3, <3>1
        <4>2. PICK l \in 1 .. L - 1 : l + 1 = k
          <5>1. k - 1 \in 1 .. L - 1 /\ (k - 1) + 1 = k
            BY <1>1, <4>1
          <5> QED
            BY <5>1
        <4>3. L > 1 /\ N \in DOMAIN Q
          BY <1>1, <4>1
        <4> QED
          BY <1>1, <2>3, <3>1, <4>2, <4>3
      <3>2. CASE i # 1
        <4>1. PICK j \in 1 .. N - 1 : j + 1 = i
          <5>1. i - 1 \in 1 .. N - 1 /\ (i - 1) + 1 = i
            BY <1>1, <3>2
          <5> QED
            BY <5>1
        <4>2. j \in DOMAIN Q /\ Q[j] = jobs[i]
          BY <1>1, <4>1
        <4> QED
          BY <2>3, <4>2
      <3> QED
        BY <3>1, <3>2
    <2> QED
      BY <2>1, <2>2, <2>3 DEF RightIn
  <1> QED
    BY <1>3, <1>4 DEF RightIn

\* What is right is kept if it is notifications that are still to bring it.
LEMMA RightKept ==
  ASSUME NEW Q, NEW R, NEW e, NEW v, RightIn(Q, R, e, v),
         \A i \in DOMAIN Q : /\ Len(Q[i]) \in DOMAIN Q[i]
                             /\ \A k \in DOMAIN Q[i] : Touches(Q[i][k], e) =>
                                  IsNewsJob(Q[i]) /\ Q[i][k] = LastOp(Q[i])
  PROVE  KeptIn(Q, R, e, v)
  <1>1. WrongIn(Q, e, v) = {}
    BY DEF WrongIn, NewsIn, RightIn, LastOp
  <1>2. CASE R[e] = v
    BY <1>1, <1>2 DEF KeptIn
  <1>3. CASE \E i \in DOMAIN Q : \E k \in DOMAIN Q[i] : Touches(Q[i][k], e)
    <2>1. \E i \in DOMAIN Q : i \in NewsIn(Q, e)
      BY <1>3 DEF NewsIn
    <2> QED
      BY <1>1, <2>1 DEF KeptIn, LastIn
  <1> QED
    BY <1>2, <1>3 DEF RightIn

\* A step that executes the first statement of job, which leaves the queue Q.
Runs(job, Q) ==
  /\ Executes(job, Q) /\ jobs' = Q /\ replica' = Done(job[1], replica)
  /\ UNCHANGED bridgeVars /\ link' = link /\ connected' = connected
  /\ asked' = asked /\ listed' = listed /\ answer' = answer
  /\ cursor' = CursorOf(Tail(job), cursor)
  /\ savedCursor' = IF job[1].kind = "save" THEN job[1].cur ELSE savedCursor
  /\ syncPc' = IF ~(job[1].kind = "save" /\ Tail(job) = <<>>) THEN syncPc
               ELSE IF again THEN "start" ELSE "idle"
  /\ again' \in BOOLEAN

LEMMA DoneIs ==
  ASSUME NEW op \in Op, replica \in [Entity -> Nat], NEW R, R = Done(op, replica)
  PROVE  R \in [Entity -> Nat] /\ \A e \in Entity : Leaves(op, R, e)
  <1>1. op.kind = "save" \/ (op.kind = "write" /\ op.put \in [Entity -> Nat])
    BY OpIs DEF Put
  <1>2. \A e \in Entity : Leaves(op, R, e)
    BY <1>1 DEF Leaves, Done, Touches, Brought
  <1>3. Absent \in Nat
    BY DEF Absent
  <1> QED
    BY <1>1, <1>2, <1>3 DEF Done

LEMMA RunsFacts ==
  ASSUME IInv, NEW job, NEW Q, Runs(job, Q)
  PROVE  /\ Rests /\ OnLink' = OnLink /\ Shifted(0) /\ led' = led /\ ents' = ents
         /\ job[1] \in Op /\ job = jobs[1] /\ 1 \in DOMAIN jobs
         /\ replica' \in [Entity -> Nat]
         /\ \A e \in Entity : \A v : Right(e, v) => Right(e, v)'
         /\ \A e \in Entity : \A v :
              /\ Kept(e, v)
              /\ IsAnswerJob(job) => (Touches(job[1], e) => Brought(job[1], e) = v)
              => Kept(e, v)'
  <1>0. job = jobs[1] /\ 1 \in DOMAIN jobs /\ Executes(job, Q)
    <2>1. ExecShape(job, Q, Len(jobs), Len(job))
      BY ExecutesShape DEF Runs
    <2> QED
      BY <2>1 DEF Runs, Executes, ExecShape
  <1>1. job[1] \in Op
    <2>1. /\ DOMAIN jobs[1] = 1 .. Len(jobs[1]) /\ Len(jobs[1]) \in Nat /\ Len(jobs[1]) > 0
          /\ \A k \in DOMAIN jobs[1] : jobs[1][k] \in Op
      BY <1>0, JobShape
    <2>2. 1 \in DOMAIN jobs[1]
      BY <2>1
    <2> QED
      BY <1>0, <2>1, <2>2
  <1>2. Shifted(0) /\ OnLink' = OnLink
    BY LinkDomain, SameFrames DEF Runs
  <1>3. Rests /\ led' = led /\ ents' = ents
    BY <1>2, QuietRests DEF Quiet, Runs, bridgeVars
  <1>4. PICK R : R = replica'
    OBVIOUS
  <1>5. R \in [Entity -> Nat] /\ \A e \in Entity : Leaves(job[1], R, e)
    BY <1>1, <1>4, DoneIs DEF Runs, IInv, TypeOK
  <1>6. jobs' = Q /\ replica' = R
    BY <1>4 DEF Runs
  <1>7. ASSUME NEW e \in Entity, NEW v, Right(e, v) PROVE Right(e, v)'
    <2>1. RightIn(jobs, replica, e, v)
      BY <1>6, <1>7, InWords
    <2>2. RightIn(Q, R, e, v)
      BY <1>0, <1>5, <2>1, ExecutesRight
    <2> QED
      BY <1>6, <2>2, InWords
  <1>8. ASSUME NEW e \in Entity, NEW v, Kept(e, v),
               IsAnswerJob(job) => (Touches(job[1], e) => Brought(job[1], e) = v)
        PROVE  Kept(e, v)'
    <2>1. KeptIn(jobs, replica, e, v)
      BY <1>6, <1>8, InWords
    <2>2. KeptIn(Q, R, e, v)
      BY <1>0, <1>5, <1>8, <2>1, ExecutesKept
    <2> QED
      BY <1>6, <2>2, InWords
  <1> QED
    BY <1>0, <1>1, <1>2, <1>3, <1>4, <1>5, <1>7, <1>8

\* Where a job that waits after the step was before it.
LEMMA RunsFrom ==
  ASSUME IInv, NEW job, NEW Q, Runs(job, Q), NEW i \in DOMAIN Q
  PROVE  \/ /\ i + 1 \in DOMAIN jobs /\ i + 1 # 1 /\ Q[i] = jobs[i + 1]
         \/ /\ Len(job) > 1 /\ Q[i] = Tail(job) /\ i = Len(jobs)
            /\ IsNewsJob(Q[i]) <=> IsNewsJob(job)
            /\ IsAnswerJob(Q[i]) <=> IsAnswerJob(job)
            /\ LastOp(Q[i]) = LastOp(job) /\ Len(Q[i]) = Len(job) - 1
            /\ \A k \in DOMAIN Q[i] : k + 1 \in DOMAIN job /\ Q[i][k] = job[k + 1]
  <1>0. PICK N \in Nat, L \in Nat : ExecShape(job, Q, N, L)
    BY ExecutesShape DEF ExecShape, Runs
  <1>1. /\ N = Len(jobs) /\ L = Len(job) /\ DOMAIN jobs = 1 .. N /\ DOMAIN job = 1 .. L
        /\ DOMAIN Q = IF L = 1 THEN 1 .. N - 1 ELSE 1 .. N
        /\ \A j \in 1 .. N - 1 : Q[j] = jobs[j + 1] /\ j + 1 \in 1 .. N
        /\ L > 1 => /\ Q[N] = Tail(job)
                    /\ Len(Tail(job)) = L - 1 /\ DOMAIN Tail(job) = 1 .. L - 1
                    /\ \A k \in 1 .. L - 1 : Tail(job)[k] = job[k + 1]
                    /\ LastOp(Tail(job)) = LastOp(job)
    BY <1>0 DEF ExecShape
  <1>2. L > 0
    BY <1>0 DEF ExecShape
  <1>3. CASE i \in 1 .. N - 1
    <2>1. i + 1 # 1
      BY <1>3
    <2> QED
      BY <1>1, <1>3, <2>1
  <1>4. CASE i = N /\ L # 1
    <2>1. L > 1
      BY <1>2, <1>4
    <2>2. /\ IsNewsJob(Tail(job)) <=> IsNewsJob(job)
          /\ IsAnswerJob(Tail(job)) <=> IsAnswerJob(job)
      BY <1>0, <2>1, QueueShape DEF Runs
    <2>3. \A k \in 1 .. L - 1 : k + 1 \in 1 .. L
      OBVIOUS
    <2> QED
      BY <1>1, <1>4, <2>1, <2>2, <2>3
  <1>5. i \in 1 .. N - 1 \/ (i = N /\ L # 1)
    <2>1. i \in (IF L = 1 THEN 1 .. N - 1 ELSE 1 .. N)
      BY <1>1
    <2> QED
      BY <2>1
  <1> QED
    BY <1>3, <1>4, <1>5

LEMMA RunsMoves ==
  ASSUME IInv, NEW job, NEW Q, Runs(job, Q)
  PROVE  /\ IsNewsJob(job) \/ IsAnswerJob(job)
         /\ ~(IsNewsJob(job) /\ IsAnswerJob(job))
         /\ IsNewsJob(job) => syncPc' = syncPc /\ cursor' = cursor
         /\ IsAnswerJob(job) => syncPc = "applying"
         /\ IsAnswerJob(job) /\ Len(job) > 1 =>
              /\ syncPc' = syncPc /\ savedCursor' = savedCursor
              /\ cursor' = IF Len(job) = 2 THEN LastOp(job).cur ELSE cursor
         /\ IsAnswerJob(job) /\ ~(Len(job) > 1) =>
              /\ syncPc' \in {"idle", "start"} /\ cursor' = cursor /\ job[1].kind = "save"
         /\ Len(job) \in Nat /\ Len(job) > 0 /\ Len(job) \in DOMAIN job /\ 1 \in DOMAIN job
         /\ DOMAIN job = 1 .. Len(job)
         /\ LastOp(job) \in Op /\ LastOp(job) = job[Len(job)]
         /\ Q \in Seq(Seq(Op) \ {<<>>})
  <1>0. PICK N \in Nat, L \in Nat : ExecShape(job, Q, N, L)
    BY ExecutesShape DEF ExecShape, Runs
  <1>1. /\ L = Len(job) /\ DOMAIN job = 1 .. L /\ L > 0 /\ job \in Seq(Op)
        /\ L > 1 => /\ Len(Tail(job)) = L - 1
                    /\ \A k \in 1 .. L - 1 : Tail(job)[k] = job[k + 1]
        /\ Q \in Seq(Seq(Op) \ {<<>>}) /\ job = jobs[1] /\ 1 \in DOMAIN jobs
    BY <1>0 DEF ExecShape, Runs, Executes
  <1>2. /\ IsNewsJob(job) \/ IsAnswerJob(job)
        /\ IsNewsJob(job) => (L = 1 \/ L = 2) /\ job[L].kind = "write" /\ (L = 2 => job[1].kind = "save")
        /\ IsAnswerJob(job) => job[L].kind = "save" /\ \A k \in 1 .. L - 1 : job[k].kind = "write"
    BY <1>0, QueueShape DEF Runs
  <1>3. PICK r : r = Tail(job)
    OBVIOUS
  <1>4. r \in Seq(Op) /\ (r = <<>> <=> L = 1)
    <2>1. job # <<>>
      <3>1. job = <<>> => Len(job) = 0
        OBVIOUS
      <3> QED
        BY <1>1, <3>1
    <2>2. job \in Seq(Op) /\ L = Len(job)
      BY <1>1
    <2>3. Tail(job) \in Seq(Op) /\ (Tail(job) = <<>> <=> L = 1)
      BY <2>1, <2>2, TailIs
    <2> QED
      BY <1>3, <2>3
  <1>5. L > 1 => Head(r) = job[2] /\ r # <<>>
    <2>1. L > 1 => r # <<>> /\ Head(r) = r[1] /\ 1 \in 1 .. L - 1
      BY <1>4
    <2> QED
      BY <1>1, <1>3, <2>1
  <1>6. cursor' = CursorOf(r, cursor)
    BY <1>3 DEF Runs
  <1>7. LastOp(job) = job[L] /\ LastOp(job) \in Op
    BY <1>1, JobShape DEF LastOp
  <1>8. ASSUME IsNewsJob(job) PROVE syncPc' = syncPc /\ cursor' = cursor
    <2>1. CASE L = 1
      BY <1>2, <1>3, <1>4, <1>6, <1>8, <2>1 DEF Runs, CursorOf
    <2>2. CASE L = 2
      BY <1>2, <1>3, <1>4, <1>5, <1>6, <1>8, <2>2 DEF Runs, CursorOf
    <2> QED
      BY <1>2, <1>8, <2>1, <2>2
  <1>9. IsAnswerJob(job) => syncPc = "applying"
    BY <1>1 DEF IInv, JobsInv
  <1>10. ASSUME IsAnswerJob(job), L > 1
         PROVE  /\ syncPc' = syncPc /\ savedCursor' = savedCursor
                /\ cursor' = IF L = 2 THEN LastOp(job).cur ELSE cursor
    <2>1. 1 \in 1 .. L - 1 /\ L # 1
      BY <1>10
    <2>2. job[1].kind = "write"
      BY <1>2, <1>10, <2>1
    <2>3. syncPc' = syncPc /\ savedCursor' = savedCursor
      BY <2>2 DEF Runs
    <2>4. CASE L = 2
      BY <1>2, <1>5, <1>6, <1>7, <1>10, <2>3, <2>4 DEF CursorOf
    <2>5. CASE L # 2
      <3>1. 2 \in 1 .. L - 1
        BY <1>10, <2>5
      <3>2. job[2].kind = "write"
        BY <1>2, <1>10, <3>1
      <3> QED
        BY <1>5, <1>6, <1>10, <2>3, <2>5, <3>2 DEF CursorOf
    <2> QED
      BY <2>4, <2>5
  <1>11. ASSUME IsAnswerJob(job), ~(L > 1)
         PROVE  syncPc' \in {"idle", "start"} /\ cursor' = cursor /\ job[1].kind = "save"
    <2>1. L = 1
      <3>1. L > 0
        BY <1>1
      <3> QED
        BY <1>11, <3>1
    <2> QED
      BY <1>2, <1>3, <1>4, <1>6, <1>11, <2>1 DEF Runs, CursorOf
  <1>12. ~(IsNewsJob(job) /\ IsAnswerJob(job))
    BY DEF IsNewsJob, IsAnswerJob
  <1>13. L \in 1 .. L /\ 1 \in 1 .. L
    <2>1. L > 0
      BY <1>1
    <2> QED
      BY <2>1
  <1> QED
    BY <1>1, <1>2, <1>7, <1>8, <1>9, <1>10, <1>11, <1>12, <1>13

LEMMA RunsJobs ==
  ASSUME IInv, NEW job, NEW Q, Runs(job, Q)
  PROVE  /\ JobsInv'
         /\ IsAnswerJob(job) => \A i \in DOMAIN Q : IsAnswerJob(Q[i]) => Len(job) > 1 /\ Q[i] = Tail(job)
                                                                         /\ LastOp(Q[i]) = LastOp(job)
                                                                         /\ Len(Q[i]) = Len(job) - 1
  <1>0. job = jobs[1] /\ 1 \in DOMAIN jobs
    BY RunsFacts
  <1>1. \A i \in DOMAIN Q : IsNewsJob(Q[i]) \/ IsAnswerJob(Q[i])
    BY <1>0, RunsFrom DEF IInv, JobsInv
  <1>2. ASSUME NEW i \in DOMAIN Q, IsAnswerJob(Q[i])
        PROVE  /\ IsAnswerJob(job) => Len(job) > 1 /\ Q[i] = Tail(job) /\ LastOp(Q[i]) = LastOp(job)
                                      /\ Len(Q[i]) = Len(job) - 1 /\ i = Len(jobs)
               /\ ~IsAnswerJob(job) => /\ i + 1 \in DOMAIN jobs /\ IsAnswerJob(jobs[i + 1])
    <2>1. CASE i + 1 \in DOMAIN jobs /\ i + 1 # 1 /\ Q[i] = jobs[i + 1]
      BY <1>0, <1>2, <2>1 DEF IInv, JobsInv
    <2>2. CASE /\ Len(job) > 1 /\ Q[i] = Tail(job) /\ i = Len(jobs)
               /\ IsAnswerJob(Q[i]) <=> IsAnswerJob(job)
               /\ LastOp(Q[i]) = LastOp(job) /\ Len(Q[i]) = Len(job) - 1
      BY <1>2, <2>2
    <2> QED
      BY <2>1, <2>2, RunsFrom
  <1>3. DOMAIN Q \subseteq Nat
    <2>1. PICK X : X = Seq(Op) \ {<<>>}
      OBVIOUS
    <2>2. Q \in Seq(X)
      BY <2>1, RunsMoves
    <2> QED
      BY <2>2
  <1>4. ASSUME NEW i \in DOMAIN Q, NEW j \in DOMAIN Q, IsAnswerJob(Q[i]), IsAnswerJob(Q[j])
        PROVE  i = j
    <2>1. CASE IsAnswerJob(job)
      BY <1>2, <1>4, <2>1
    <2>2. CASE ~IsAnswerJob(job)
      <3>1. i + 1 = j + 1
        BY <1>2, <1>4, <2>2 DEF IInv, JobsInv
      <3> QED
        BY <1>3, <3>1
    <2> QED
      BY <2>1, <2>2
  <1>5. ASSUME NEW i \in DOMAIN Q, IsAnswerJob(Q[i]) PROVE syncPc' = "applying"
    <2>1. CASE IsAnswerJob(job)
      BY <1>2, <1>5, <2>1, RunsMoves
    <2>2. CASE ~IsAnswerJob(job)
      <3>1. syncPc = "applying"
        BY <1>2, <1>5, <2>2 DEF IInv, JobsInv
      <3> QED
        BY <2>2, <3>1, RunsMoves
    <2> QED
      BY <2>1, <2>2
  <1>6. jobs' = Q
    BY DEF Runs
  <1>7. JobsInv'
    BY <1>1, <1>4, <1>5, <1>6 DEF JobsInv, IsNewsJob, IsAnswerJob, LastOp
  <1> QED
    BY <1>2, <1>7

\* An answer that is applied leaves none on its way.
LEMMA RunsQuietly ==
  ASSUME IInv, NEW job, NEW Q, Runs(job, Q), IsAnswerJob(job)
  PROVE  OneAnswer' /\ LinkInv' /\ ReadyInv' /\ AskedInv'
  <1>1. syncPc = "applying" /\ syncPc' \in {"applying", "idle", "start"}
    BY RunsMoves
  <1>2. link' = link
    BY DEF Runs
  <1>3. \A i \in DOMAIN link' : link'[i] \notin Answer
    BY <1>1, <1>2 DEF IInv, OneAnswer
  <1>4. OneAnswer' /\ LinkInv' /\ ReadyInv'
    BY <1>1, <1>3, NoAnswers
  <1>5. AskedInv'
    BY <1>1 DEF AskedInv
  <1> QED
    BY <1>4, <1>5

LEMMA QueueOps ==
  ASSUME NEW Q \in Seq(Seq(Op) \ {<<>>}), NEW i \in DOMAIN Q
  PROVE  /\ Q[i] \in Seq(Op) /\ Len(Q[i]) \in Nat /\ Len(Q[i]) > 0
         /\ DOMAIN Q[i] = 1 .. Len(Q[i]) /\ Len(Q[i]) \in DOMAIN Q[i]
         /\ \A k \in DOMAIN Q[i] : Q[i][k] \in Op
  <1>1. PICK X : X = Seq(Op) \ {<<>>}
    OBVIOUS
  <1>2. Q[i] \in X
    BY <1>1
  <1>3. PICK q \in Seq(Op) : q = Q[i] /\ q # <<>>
    BY <1>1, <1>2
  <1>4. /\ Len(q) \in Nat /\ Len(q) > 0 /\ DOMAIN q = 1 .. Len(q)
        /\ \A k \in DOMAIN q : q[k] \in Op
    BY <1>3
  <1>5. Len(q) \in DOMAIN q
    BY <1>4
  <1> QED
    BY <1>3, <1>4, <1>5

\* The cursor in memory when the answer's last statement has been asked for.
LEMMA LastSave ==
  ASSUME IInv, NEW job, NEW Q, Runs(job, Q), IsAnswerJob(job), NEW d, d = LastOp(job).cur
  PROVE  /\ d \in Cursor /\ d.store \in Nat /\ d.rev \in Nat
         /\ Len(job) > 1 => /\ cursor.store <= d.store /\ d.store <= led.store
                            /\ d.store = cursor.store => cursor.rev <= d.rev
         /\ ~(Len(job) > 1) => /\ d.store <= cursor.store
                               /\ d.store = cursor.store => d.rev <= cursor.rev
  <1>1. /\ LastOp(job) \in Op /\ LastOp(job) = job[Len(job)] /\ Len(job) \in DOMAIN job
        /\ LastOp(job).kind = "save"
    BY RunsMoves DEF IsAnswerJob
  <1>2. job = jobs[1] /\ 1 \in DOMAIN jobs
    BY RunsFacts
  <1>3. d \in Cursor /\ d.store \in Nat /\ d.rev \in Nat
    BY <1>1, OpIs
  <1>4. SavesOf(job, Len(job), cursor)
    BY <1>1, <1>2, SavesAre DEF IInv
  <1> QED
    BY <1>1, <1>3, <1>4 DEF SavesOf

LEMMA RunsSaves ==
  ASSUME IInv, NEW job, NEW Q, Runs(job, Q)
  PROVE  SavesInv'
  <1>0. /\ led' = led /\ jobs' = Q /\ job = jobs[1] /\ 1 \in DOMAIN jobs /\ Shaped
        /\ Q \in Seq(Seq(Op) \ {<<>>})
    BY RunsFacts, RunsMoves, TypesOf DEF Runs, IInv
  <1>1. PICK c : c = cursor'
    OBVIOUS
  <1>2. \A i \in DOMAIN jobs : \A k \in DOMAIN jobs[i] :
          jobs[i][k].kind = "save" => SavesOf(jobs[i], k, cursor)
    BY SavesAre DEF IInv
  <1>3. ASSUME NEW i \in DOMAIN Q, NEW k \in DOMAIN Q[i], Q[i][k].kind = "save"
        PROVE  SavesOf(Q[i], k, c)
    <2>0. k \in Nat \ {0} /\ Q[i][k] \in Op
      BY <1>0, QueueOps
    <2>1. CASE c = cursor
      <3>1. CASE i + 1 \in DOMAIN jobs /\ Q[i] = jobs[i + 1]
        BY <1>2, <1>3, <2>1, <3>1
      <3>2. CASE /\ Len(job) > 1 /\ IsAnswerJob(Q[i]) <=> IsAnswerJob(job)
                 /\ Len(Q[i]) = Len(job) - 1
                 /\ \A l \in DOMAIN Q[i] : l + 1 \in DOMAIN job /\ Q[i][l] = job[l + 1]
                 /\ IsNewsJob(Q[i]) <=> IsNewsJob(job)
        <4>1. k + 1 \in DOMAIN job /\ Q[i][k] = job[k + 1] /\ k + 1 # 1
          BY <2>0, <3>2
        <4>2. SavesOf(job, k + 1, cursor)
          BY <1>0, <1>2, <1>3, <4>1
        <4>3. CASE IsNewsJob(job)
          <5>1. Len(job) \in Nat /\ DOMAIN job = 1 .. Len(job)
            BY RunsMoves
          <5>2. Len(job) = 2 /\ job[Len(job)].kind = "write"
            BY <3>2, <4>3 DEF IsNewsJob, LastOp
          <5>3. k + 1 = 2
            BY <2>0, <4>1, <5>1, <5>2
          <5> QED
            BY <1>3, <4>1, <5>2, <5>3
        <4>4. CASE IsAnswerJob(job)
          <5>1. Len(job) \in Nat /\ Len(job) > 1
            BY <3>2, RunsMoves
          <5>2. CASE Len(job) = 2
            <6>1. c = LastOp(job).cur /\ LastOp(job) = job[2] /\ DOMAIN job = 1 .. 2
              BY <1>1, <4>4, <5>1, <5>2, RunsMoves
            <6>2. k + 1 = 2
              BY <2>0, <4>1, <6>1
            <6>3. Q[i][k].cur = c /\ c.store \in Nat /\ c.rev \in Nat
              BY <1>0, <2>1, <4>1, <6>1, <6>2 DEF Shaped
            <6>4. Len(Q[i]) = 1
              BY <3>2, <5>2
            <6> QED
              BY <6>3, <6>4 DEF SavesOf
          <5>3. CASE Len(job) # 2
            <6>1. Len(Q[i]) > 1
              BY <3>2, <5>1, <5>3
            <6> QED
              BY <2>1, <3>2, <4>1, <4>2, <4>4, <5>1, <6>1 DEF SavesOf
          <5> QED
            BY <5>2, <5>3
        <4> QED
          BY <4>3, <4>4, RunsMoves
      <3> QED
        BY <3>1, <3>2, RunsFrom
    <2>2. CASE c # cursor
      <3>1. IsAnswerJob(job) /\ Len(job) = 2 /\ c = LastOp(job).cur
        BY <1>1, <2>2, RunsMoves
      <3>2. /\ c.store \in Nat /\ c.rev \in Nat
            /\ cursor.store <= c.store
            /\ c.store = cursor.store => cursor.rev <= c.rev
        <4>1. /\ c \in Cursor /\ c.store \in Nat /\ c.rev \in Nat
              /\ Len(job) > 1 => /\ cursor.store <= c.store /\ c.store <= led.store
                                 /\ c.store = cursor.store => cursor.rev <= c.rev
          BY <3>1, LastSave
        <4>2. Len(job) > 1
          BY <3>1
        <4> QED
          BY <4>1, <4>2
      <3>3. ~(IsAnswerJob(Q[i]) /\ Len(Q[i]) > 1)
        <4>1. IsAnswerJob(Q[i]) => Len(Q[i]) = Len(job) - 1
          BY <3>1, RunsJobs
        <4>2. Len(job) - 1 = 1
          BY <3>1
        <4>3. Len(Q[i]) \in Nat
          BY <1>0, QueueOps
        <4>4. PICK l \in Nat : l = Len(Q[i])
          BY <4>3
        <4>5. IsAnswerJob(Q[i]) => l = 1
          BY <4>1, <4>2, <4>4, Zenon
        <4>6. ~(1 > 1)
          OBVIOUS
        <4>7. ~(IsAnswerJob(Q[i]) /\ l > 1)
          BY <4>5, <4>6, Zenon
        <4> QED
          BY <4>4, <4>7, Zenon
      <3>4. CASE i + 1 \in DOMAIN jobs /\ Q[i] = jobs[i + 1]
        <4>1. SavesOf(Q[i], k, cursor)
          BY <1>2, <1>3, <3>4
        <4>2. PICK d : d = Q[i][k].cur
          OBVIOUS
        <4>3. d.store \in Nat /\ d.rev \in Nat
          BY <1>3, <2>0, <4>2, OpIs
        <4>4. d.store <= cursor.store /\ (d.store = cursor.store => d.rev <= cursor.rev)
          BY <3>3, <4>1, <4>2 DEF SavesOf
        <4>5. d.store <= c.store /\ (d.store = c.store => d.rev <= c.rev)
          <5>1. PICK x \in Nat, y \in Nat : x = cursor.store /\ y = cursor.rev
            BY <1>0 DEF Shaped
          <5>2. PICK u \in Nat, z \in Nat : u = c.store /\ z = c.rev
            BY <3>2
          <5>3. PICK a \in Nat, b \in Nat : a = d.store /\ b = d.rev
            BY <4>3
          <5>4. x <= u /\ (u = x => y <= z) /\ a <= x /\ (a = x => b <= y)
            BY <3>2, <4>4, <5>1, <5>2, <5>3
          <5>5. a <= u /\ (a = u => b <= z)
            BY <5>4
          <5> QED
            BY <5>2, <5>3, <5>5
        <4> QED
          BY <3>3, <4>2, <4>5 DEF SavesOf
      <3>5. CASE \A l \in DOMAIN Q[i] : l + 1 \in DOMAIN job /\ Q[i][l] = job[l + 1]
        <4>1. DOMAIN job = 1 .. 2 /\ LastOp(job) = job[2]
          BY <3>1, RunsMoves
        <4>2. k + 1 = 2 /\ Q[i][k] = job[2]
          <5>1. k + 1 \in 1 .. 2 /\ Q[i][k] = job[k + 1]
            BY <3>5, <4>1
          <5> QED
            BY <2>0, <5>1
        <4> QED
          BY <3>1, <3>2, <3>3, <4>1, <4>2 DEF SavesOf
      <3> QED
        BY <3>4, <3>5, RunsFrom
    <2> QED
      BY <2>1, <2>2
  <1> QED
    BY <1>0, <1>1, <1>3, SavesBecome

LEMMA RunsApply ==
  ASSUME IInv, NEW job, NEW Q, Runs(job, Q)
  PROVE  ApplyInv'
  <1>0. /\ Rests /\ OnLink' = OnLink /\ job = jobs[1] /\ 1 \in DOMAIN jobs /\ jobs' = Q /\ BridgeInv
        /\ \A e \in Entity : \A v : Right(e, v) => Right(e, v)'
    BY RunsFacts DEF Runs, IInv
  <1>1. ASSUME NEW i \in DOMAIN Q, AppliedAnswer(Q[i]), NEW c, c = LastOp(Q[i]).cur.rev
        PROVE  /\ c \in Nat /\ Taken(c, openRead)
               /\ \A w \in Truths(openRead) : After(w, c) \/ Right(w.on, w.is)'
               /\ \A n \in OnLink : Behind(n, c)
    <2>1. \E j \in DOMAIN jobs : AppliedAnswer(jobs[j]) /\ c = LastOp(jobs[j]).cur.rev
      <3>1. CASE i + 1 \in DOMAIN jobs /\ Q[i] = jobs[i + 1]
        BY <1>1, <3>1
      <3>2. CASE Len(job) > 1 /\ (IsAnswerJob(Q[i]) <=> IsAnswerJob(job)) /\ LastOp(Q[i]) = LastOp(job)
        BY <1>0, <1>1, <3>2 DEF AppliedAnswer
      <3> QED
        BY <3>1, <3>2, RunsFrom
    <2>2. /\ c \in Nat /\ Taken(c, openRead)
          /\ \A w \in Truths(openRead) : After(w, c) \/ Right(w.on, w.is)
          /\ \A n \in OnLink : Behind(n, c)
      BY <2>1, ApplyIs
    <2>3. \A w \in Truths(openRead) : w.on \in Entity
      BY <1>0, DatesBound
    <2> QED
      BY <1>0, <2>2, <2>3
  <1> QED
    BY <1>0, <1>1, ApplyBecomes

\* While an answer is applied, e is what it says and no statement says otherwise.
LEMMA RunsRight ==
  ASSUME IInv, NEW job, NEW Q, Runs(job, Q), IsAnswerJob(job), Len(job) > 1,
         NEW d, d = LastOp(job).cur, Ours(d)
  PROVE  /\ d.rev \in Nat /\ Taken(d.rev, openRead)
         /\ \A w \in Truths(openRead) : After(w, d.rev) \/ Right(w.on, w.is)
         /\ \A e \in Entity : \A v : Right(e, v) => (Touches(job[1], e) => Brought(job[1], e) = v)
  <1>0. job = jobs[1] /\ 1 \in DOMAIN jobs /\ 1 \in DOMAIN job
    BY RunsFacts, RunsMoves
  <1>1. AppliedAnswer(jobs[1])
    BY <1>0 DEF AppliedAnswer
  <1>2. /\ d.rev \in Nat /\ Taken(d.rev, openRead)
        /\ \A w \in Truths(openRead) : After(w, d.rev) \/ Right(w.on, w.is)
    BY <1>0, <1>1, ApplyIs
  <1>3. \A e \in Entity : \A v : Right(e, v) => (Touches(job[1], e) => Brought(job[1], e) = v)
    BY <1>0 DEF Right
  <1> QED
    BY <1>2, <1>3

LEMMA RunsSoundNews ==
  ASSUME IInv, NEW job, NEW Q, Runs(job, Q), ~(IsAnswerJob(job) /\ Len(job) > 1)
  PROVE  CursorInv'
  <1>0. /\ Rests /\ job = jobs[1] /\ 1 \in DOMAIN jobs /\ 1 \in DOMAIN job /\ job[1] \in Op
        /\ CursorInv /\ BridgeInv /\ Shaped
    BY RunsFacts, RunsMoves, TypesOf DEF IInv
  <1>1. PICK c, s : c = cursor /\ s = savedCursor'
    OBVIOUS
  <1>2. cursor' = c /\ c \in Cursor /\ c.store \in Nat /\ c.rev \in Nat
    BY <1>0, <1>1, RunsMoves DEF IInv, TypeOK, Shaped
  <1>3. s \in Cursor /\ s.store <= c.store /\ (s.store = c.store => s.rev <= c.rev)
    <2>1. CASE job[1].kind = "save"
      <3>1. s = job[1].cur
        BY <1>1, <2>1 DEF Runs
      <3>2. SavesOf(job, 1, c)
        BY <1>0, <1>1, <2>1, SavesAre DEF IInv
      <3> QED
        BY <1>0, <2>1, <3>1, <3>2, OpIs DEF SavesOf
    <2>2. CASE job[1].kind # "save"
      <3>1. s = savedCursor
        BY <1>1, <2>2 DEF Runs
      <3> QED
        BY <1>0, <1>1, <3>1 DEF CursorInv, IInv, TypeOK
    <2> QED
      BY <2>1, <2>2
  <1>4. \A e \in Entity : \A v : Kept(e, v) => Kept(e, v)'
    <2>1. IsAnswerJob(job) => \A e \in Entity : ~Touches(job[1], e)
      BY RunsMoves DEF Touches
    <2> QED
      BY <2>1, RunsFacts
  <1>5. \A w \in Truths(openRead) : w.on \in Entity
    BY <1>0, DatesBound
  <1>6. /\ c.store <= led.store
        /\ c.store = led.store =>
             /\ Taken(c.rev, openRead)
             /\ \A w \in Truths(openRead) : After(w, c.rev) \/ Kept(w.on, w.is)'
    BY <1>0, <1>1, <1>4, <1>5 DEF CursorInv, Ours
  <1>7. savedCursor' = s
    BY <1>1
  <1> QED
    BY <1>0, <1>2, <1>3, <1>6, <1>7, CursorBecomes

LEMMA RunsSoundWrite ==
  ASSUME IInv, NEW job, NEW Q, Runs(job, Q), IsAnswerJob(job), Len(job) > 1, Len(job) # 2
  PROVE  CursorInv'
  <1>0. /\ Rests /\ CursorInv /\ BridgeInv /\ Shaped
        /\ cursor' = cursor /\ savedCursor' = savedCursor
    BY RunsFacts, RunsMoves, TypesOf DEF IInv
  <1>1. PICK c, s : c = cursor /\ s = savedCursor /\ c \in Cursor /\ s \in Cursor
    BY DEF IInv, TypeOK
  <1>2. PICK d : d = LastOp(job).cur
    OBVIOUS
  <1>3. /\ d.store \in Nat /\ d.rev \in Nat /\ c.store <= d.store /\ d.store <= led.store
        /\ d.store = c.store => c.rev <= d.rev
    BY <1>1, <1>2, LastSave
  <1>4. ASSUME c.store = led.store, NEW w \in Truths(openRead)
        PROVE  After(w, c.rev) \/ Kept(w.on, w.is)'
    <2>1. d.store = led.store /\ c.rev <= d.rev /\ c.rev \in Nat
      BY <1>0, <1>1, <1>3, <1>4 DEF Shaped
    <2>2. Ours(d)
      BY <2>1 DEF Ours
    <2>3. /\ After(w, d.rev) \/ Right(w.on, w.is)
          /\ \A e \in Entity : \A v : Right(e, v) => (Touches(job[1], e) => Brought(job[1], e) = v)
      BY <1>2, <2>2, RunsRight
    <2>4. w.on \in Entity /\ \A r \in w.dates : r \in Nat
      BY <1>0, DatesBound
    <2>5. CASE After(w, d.rev)
      <3>1. PICK r \in w.dates : r > d.rev /\ \A n \in Heard : n.rev = r => n.id = w.on /\ Value(n) = w.is
        BY <2>5 DEF After
      <3>2. r > c.rev
        BY <1>3, <2>1, <2>4, <3>1
      <3> QED
        BY <3>1, <3>2 DEF After
    <2>6. CASE Right(w.on, w.is)
      <3>1. After(w, c.rev) \/ Kept(w.on, w.is)
        BY <1>0, <1>1, <1>4 DEF CursorInv, Ours
      <3> QED
        BY <2>3, <2>4, <2>6, <3>1, RunsFacts
    <2> QED
      BY <2>3, <2>5, <2>6
  <1>5. /\ c.store <= led.store /\ s.store <= c.store /\ (s.store = c.store => s.rev <= c.rev)
        /\ c.store = led.store => Taken(c.rev, openRead)
    BY <1>0, <1>1 DEF CursorInv, Ours
  <1>6. cursor' = c /\ savedCursor' = s
    BY <1>0, <1>1
  <1> QED
    BY <1>0, <1>1, <1>4, <1>5, <1>6, CursorBecomes

LEMMA RunsSoundSave ==
  ASSUME IInv, NEW job, NEW Q, Runs(job, Q), IsAnswerJob(job), Len(job) = 2
  PROVE  CursorInv'
  <1>0. /\ Rests /\ CursorInv /\ BridgeInv /\ Shaped /\ jobs' = Q
        /\ Q \in Seq(Seq(Op) \ {<<>>})
    BY RunsFacts, RunsMoves, TypesOf DEF IInv, Runs
  <1>1. PICK s : s = savedCursor /\ s \in Cursor
    BY DEF IInv, TypeOK
  <1>2. PICK d : d = LastOp(job).cur
    OBVIOUS
  <1>3. Len(job) > 1
    OBVIOUS
  <1>4. cursor' = d /\ savedCursor' = s
    BY <1>1, <1>2, <1>3, RunsMoves
  <1>5. /\ d \in Cursor /\ d.store \in Nat /\ d.rev \in Nat
        /\ cursor.store <= d.store /\ d.store <= led.store
        /\ d.store = cursor.store => cursor.rev <= d.rev
    BY <1>2, <1>3, LastSave
  <1>6. PICK R : R = replica'
    OBVIOUS
  <1>7. ASSUME NEW e \in Entity, NEW v, Right(e, v)'
        PROVE  Kept(e, v)'
    <2>1. RightIn(Q, R, e, v)
      BY <1>0, <1>6, <1>7, InWords
    <2>2. ASSUME NEW i \in DOMAIN Q
          PROVE  /\ Len(Q[i]) \in DOMAIN Q[i]
                 /\ \A k \in DOMAIN Q[i] : Touches(Q[i][k], e) =>
                      IsNewsJob(Q[i]) /\ Q[i][k] = LastOp(Q[i])
      <3>1. /\ Len(Q[i]) \in DOMAIN Q[i] /\ DOMAIN Q[i] = 1 .. Len(Q[i])
            /\ Len(Q[i]) \in Nat
        BY <1>0, QueueOps
      <3>2. ASSUME IsAnswerJob(Q[i]), NEW k \in DOMAIN Q[i] PROVE ~Touches(Q[i][k], e)
        <4>1. Len(Q[i]) = Len(job) - 1
          BY <3>2, RunsJobs
        <4>2. Len(Q[i]) = 1
          BY <4>1
        <4>3. k = 1
          BY <3>1, <3>2, <4>2
        <4> QED
          BY <3>2, <4>2, <4>3 DEF IsAnswerJob, LastOp, Touches
      <3>3. ASSUME IsNewsJob(Q[i]), NEW k \in DOMAIN Q[i], Touches(Q[i][k], e)
            PROVE  Q[i][k] = LastOp(Q[i])
        <4>1. CASE Len(Q[i]) = 1
          <5>1. k = 1
            BY <3>1, <3>3, <4>1
          <5> QED
            BY <4>1, <5>1 DEF LastOp
        <4>2. CASE Len(Q[i]) = 2 /\ Q[i][1].kind = "save"
          <5>1. k = 2
            BY <3>1, <3>3, <4>2 DEF Touches
          <5> QED
            BY <4>2, <5>1 DEF LastOp
        <4> QED
          BY <3>3, <4>1, <4>2 DEF IsNewsJob
      <3>4. IsNewsJob(Q[i]) \/ IsAnswerJob(Q[i])
        <4>1. CASE i + 1 \in DOMAIN jobs /\ Q[i] = jobs[i + 1]
          BY <4>1 DEF IInv, JobsInv
        <4>2. CASE IsAnswerJob(Q[i]) <=> IsAnswerJob(job)
          BY <4>2
        <4> QED
          BY <4>1, <4>2, RunsFrom
      <3> QED
        BY <3>1, <3>2, <3>3, <3>4
    <2>3. KeptIn(Q, R, e, v)
      BY <2>1, <2>2, RightKept
    <2> QED
      BY <1>0, <1>6, <2>3, InWords
  <1>8. ASSUME d.store = led.store
        PROVE  /\ Taken(d.rev, openRead)
               /\ \A w \in Truths(openRead) : After(w, d.rev) \/ Kept(w.on, w.is)'
    <2>1. Ours(d)
      BY <1>8 DEF Ours
    <2>2. /\ Taken(d.rev, openRead)
          /\ \A w \in Truths(openRead) : After(w, d.rev) \/ Right(w.on, w.is)
      BY <1>2, <1>3, <2>1, RunsRight
    <2>3. \A w \in Truths(openRead) : w.on \in Entity
      BY <1>0, DatesBound
    <2>4. \A w \in Truths(openRead) : After(w, d.rev) \/ Right(w.on, w.is)'
      BY <2>2, <2>3, RunsFacts
    <2> QED
      BY <1>7, <2>2, <2>3, <2>4
  <1>9. s.store <= d.store /\ (s.store = d.store => s.rev <= d.rev)
    <2>1. PICK x \in Nat, y \in Nat : x = cursor.store /\ y = cursor.rev
      BY <1>0 DEF Shaped
    <2>2. PICK u \in Nat, z \in Nat : u = d.store /\ z = d.rev
      BY <1>5
    <2>3. PICK a \in Nat, b \in Nat : a = s.store /\ b = s.rev
      BY <1>1 DEF Cursor
    <2>4. x <= u /\ (u = x => y <= z) /\ a <= x /\ (a = x => b <= y)
      BY <1>0, <1>1, <1>5, <2>1, <2>2, <2>3 DEF CursorInv
    <2>5. a <= u /\ (a = u => b <= z)
      BY <2>4
    <2> QED
      BY <2>2, <2>3, <2>5
  <1> QED
    BY <1>0, <1>1, <1>4, <1>5, <1>8, <1>9, CursorBecomes

LEMMA RunsStep ==
  ASSUME IInv, TypeOK', NEW job, NEW Q, Runs(job, Q)
  PROVE  IInv'
  <1>0. /\ Rests /\ OnLink' = OnLink /\ Shifted(0) /\ led' = led /\ ents' = ents
        /\ \A e \in Entity : \A v : Kept(e, v) /\ ~IsAnswerJob(job) => Kept(e, v)'
    BY RunsFacts
  <1>1. Keeps /\ BridgeInv' /\ NewsInv'
    BY <1>0, RestsKeeps DEF Keeps
  <1>2. JobsInv' /\ SavesInv' /\ ApplyInv'
    BY RunsJobs, RunsSaves, RunsApply
  <1>3. CursorInv'
    BY RunsSoundNews, RunsSoundWrite, RunsSoundSave
  <1>4. OneAnswer' /\ LinkInv' /\ ReadyInv' /\ AskedInv'
    <2>1. CASE IsAnswerJob(job)
      BY <2>1, RunsQuietly
    <2>2. CASE ~IsAnswerJob(job)
      <3>1. /\ syncPc' = syncPc /\ cursor' = cursor /\ asked' = asked /\ listed' = listed
            /\ answer' = answer /\ link' = link
        BY <2>2, RunsMoves DEF Runs
      <3>2. cursor.rev \in Nat /\ DOMAIN link' \subseteq Nat \ {0} /\ 0 \in Nat
        <4>1. cursor.rev \in Nat /\ DOMAIN link = 1 .. Len(link) /\ Len(link) \in Nat
          BY TypesOf DEF IInv, Shaped
        <4> QED
          BY <3>1, <4>1
      <3>3. ASSUME NEW S, NEW a, AnswerInv(a, S) PROVE AnswerStep(a)
        <4>1. \A e \in Entity : \A v : Brings(a, e, v) /\ ~Reads(a, e) => Kept(e, v)'
          BY <1>0, <2>2 DEF Brings
        <4> QED
          BY <3>1, <3>2, <3>3, <4>1 DEF AnswerStep, AnswerInv
      <3>4. LinkInv' /\ OneAnswer'
        BY <1>0, <1>1, <3>1, <3>2, <3>3, LinkMoves, OneAnswerMoves
      <3>5. ReadyInv'
        BY <1>0, <3>1, <3>3, ReadyMoves
      <3>6. AskedInv'
        BY <1>0, <3>1, <3>2, AskedMoves
      <3> QED
        BY <3>4, <3>5, <3>6
    <2> QED
      BY <2>1, <2>2
  <1> QED
    BY <1>1, <1>2, <1>3, <1>4 DEF IInv

LEMMA ExecuteStep ==
  ASSUME IInv, Execute
  PROVE  IInv'
  <1>1. PICK job : job = jobs[1]
    OBVIOUS
  <1>2. PICK Q : Q = Requeue(Tail(jobs), Tail(job))
    OBVIOUS
  <1>3. jobs # <<>> /\ Executes(job, Q)
    BY <1>1, <1>2 DEF Execute, Executes
  <1>4. job = Head(jobs) /\ Head(job) = job[1]
    BY <1>1
  <1>5. Runs(job, Q)
    <2>1. /\ replica' = Done(job[1], replica) /\ jobs' = Q
          /\ cursor' = CursorOf(Tail(job), cursor)
          /\ savedCursor' = IF job[1].kind = "save" THEN job[1].cur ELSE savedCursor
          /\ syncPc' = IF ~(job[1].kind = "save" /\ Tail(job) = <<>>) THEN syncPc
                       ELSE IF again THEN "start" ELSE "idle"
          /\ again' = (again /\ ~(job[1].kind = "save" /\ Tail(job) = <<>>))
      BY <1>2, <1>4 DEF Execute
    <2>2. again' \in BOOLEAN
      BY <2>1
    <2>3. /\ UNCHANGED bridgeVars /\ link' = link /\ connected' = connected
          /\ asked' = asked /\ listed' = listed /\ answer' = answer
      BY DEF Execute
    <2> QED
      BY <1>3, <2>1, <2>2, <2>3 DEF Runs
  <1>6. TypeOK'
    <2>1. Q \in Seq(Seq(Op) \ {<<>>}) /\ job[1] \in Op /\ replica' \in [Entity -> Nat]
      BY <1>5, RunsMoves, RunsFacts
    <2>2. savedCursor' \in Cursor
      BY <1>5, <2>1, OpIs DEF Runs, IInv, TypeOK
    <2>3. cursor' \in Cursor
      <3>1. cursor \in Cursor
        BY DEF IInv, TypeOK
      <3>2. CASE IsAnswerJob(job)
        <4>1. LastOp(job).cur \in Cursor
          BY <1>5, <3>2, LastSave
        <4>2. cursor' = cursor \/ cursor' = LastOp(job).cur
          BY <1>5, <3>2, RunsMoves
        <4> QED
          BY <3>1, <4>1, <4>2
      <3>3. CASE ~IsAnswerJob(job)
        BY <1>5, <3>1, <3>3, RunsMoves
      <3> QED
        BY <3>2, <3>3
    <2>4. syncPc' \in SyncPc
      BY <1>5 DEF Runs, IInv, TypeOK, SyncPc
    <2>5. loading' = loading
      BY DEF Execute
    <2> QED
      BY <1>5, <2>1, <2>2, <2>3, <2>4, <2>5, BridgeTypeStays DEF Runs, IInv, TypeOK
  <1> QED
    BY <1>5, <1>6, RunsStep
--------------------------------------------------------------------------------
(* The app is killed.                                                          *)

LEMMA TakenDown ==
  ASSUME IInv, NEW c \in Nat, NEW d \in Nat, c <= d, NEW S, Taken(d, S)
  PROVE  Taken(c, S)
  <1>0. Shaped /\ savedEnts \in [Entity -> Nat]
    BY TypesOf DEF IInv, TypeOK, BridgeTypeOK
  <1>1. c <= led.rev
    BY <1>0 DEF Taken, Shaped
  <1>2. ReadOver(c) \subseteq ReadOver(d)
    <2> SUFFICES ASSUME NEW s \in Store, NEW n \in NewsOf(s), n.rev <= c
                 PROVE  n.rev <= d
      BY DEF ReadOver
    <2>1. n.rev \in Nat
      BY <1>0 DEF Shaped, News
    <2> QED
      BY <2>1
  <1>3. Durable(d) => Durable(c)
    BY <1>0 DEF Durable, Shaped
  <1> QED
    BY <1>1, <1>2, <1>3 DEF Taken

LEMMA KillStep ==
  ASSUME CursorSchedules, IInv, Kill
  PROVE  IInv'
  <1>1. /\ UNCHANGED bridgeVars /\ link' \in OnlyNews /\ ~CursorAhead
        /\ connected' = FALSE /\ syncPc' = "idle" /\ again' = FALSE
        /\ asked' = NoCursor /\ listed' = NoList /\ answer' = NoAnswer
        /\ jobs' = <<>> /\ cursor' = savedCursor /\ replica' = replica /\ savedCursor' = savedCursor
        /\ loading' \in BOOLEAN
    BY DEF Kill, CursorSchedules
  <1>2. /\ link' \in Seq(News \cup Answer)
        /\ \A i \in DOMAIN link' : link'[i] \in OnLink
    BY <1>1, NewsOnly
  <1>3. \A n \in OnLink' : n \in OnLink
    BY <1>2 DEF OnLink
  <1>4. Rests
    BY <1>1, <1>3, QuietRests DEF Quiet
  <1>5. Keeps /\ BridgeInv' /\ NewsInv'
    BY <1>4, RestsKeeps DEF Keeps
  <1>6. TypeOK'
    <2>1. Nothing \in Put /\ NoList \in [reset : BOOLEAN, put : Put]
      BY DEF Nothing, Put, Absent, NoList
    <2>2. NoAnswer \in Answer /\ NoCursor \in Cursor
      BY <2>1 DEF NoAnswer, Answer, NoCursor, Cursor
    <2>3. <<>> \in Seq(Seq(Op) \ {<<>>})
      OBVIOUS
    <2> QED
      BY <1>1, <1>2, <2>1, <2>2, <2>3, BridgeTypeStays DEF IInv, TypeOK, SyncPc
  <1>7. \A i \in DOMAIN link' : link'[i] \notin Answer
    BY <1>2, NewsIsNoAnswer DEF OnLink
  <1>8. OneAnswer' /\ LinkInv' /\ ReadyInv' /\ AskedInv'
    BY <1>1, <1>7, NoAnswers DEF AskedInv
  <1>9. DOMAIN jobs' = {}
    BY <1>1
  <1>10. JobsInv' /\ SavesInv' /\ ApplyInv'
    BY <1>9 DEF JobsInv, SavesInv, ApplyInv
  <1>11. \A i \in DOMAIN jobs : ~IsNewsJob(jobs[i])
    BY <1>1 DEF CursorAhead, IsNewsJob, LastOp
  <1>12. \A e, v : Kept(e, v) => Kept(e, v)'
    <2>1. \A e : NewsOn(e) = {} /\ NewsOn(e)' = {}
      BY <1>9, <1>11 DEF NewsOn
    <2> QED
      BY <1>1, <2>1 DEF Kept, Wrong
  <1>13. CursorInv'
    <2>0. CursorInv /\ BridgeInv /\ Shaped
      BY TypesOf DEF IInv
    <2>1. PICK s \in Cursor : s = savedCursor
      BY DEF IInv, TypeOK
    <2>2. PICK x \in Nat, y \in Nat : x = s.store /\ y = s.rev
      BY DEF Cursor
    <2>3. PICK u \in Nat, z \in Nat : u = cursor.store /\ z = cursor.rev
      BY <2>0 DEF Shaped
    <2>4. PICK l \in Nat : l = led.store
      BY <2>0 DEF Shaped
    <2>5. u <= l /\ x <= u /\ (x = u => y <= z)
      BY <2>0, <2>1, <2>2, <2>3, <2>4 DEF CursorInv
    <2>6. ASSUME x = l
          PROVE  /\ Taken(y, openRead)
                 /\ \A w \in Truths(openRead) : After(w, y) \/ Kept(w.on, w.is)'
      <3>1. u = l /\ y <= z
        BY <2>5, <2>6
      <3>2. /\ Taken(z, openRead)
            /\ \A w \in Truths(openRead) : After(w, z) \/ Kept(w.on, w.is)
        BY <2>0, <2>3, <2>4, <3>1 DEF CursorInv, Ours
      <3>3. Taken(y, openRead)
        BY <3>1, <3>2, TakenDown
      <3>4. ASSUME NEW w \in Truths(openRead), After(w, z) PROVE After(w, y)
        <4>1. PICK r \in w.dates : r > z /\ \A n \in Heard : n.rev = r => n.id = w.on /\ Value(n) = w.is
          BY <3>4 DEF After
        <4>2. r \in Nat
          BY <2>0, <4>1, DatesBound
        <4>3. r > y
          BY <3>1, <4>1, <4>2
        <4> QED
          BY <4>1, <4>3 DEF After
      <3> QED
        BY <1>12, <3>2, <3>3, <3>4
    <2>7. s.store <= led.store /\ s.store <= s.store /\ (s.store = s.store => s.rev <= s.rev)
      <3>1. x <= l /\ x <= x /\ y <= y
        BY <2>5
      <3> QED
        BY <2>2, <2>4, <3>1
    <2>8. cursor' = s /\ savedCursor' = s
      BY <1>1, <2>1
    <2>9. s.store = led.store => /\ Taken(s.rev, openRead)
                                 /\ \A w \in Truths(openRead) : After(w, s.rev) \/ Kept(w.on, w.is)'
      BY <2>2, <2>4, <2>6
    <2> QED
      BY <1>4, <2>7, <2>8, <2>9, CursorBecomes
  <1> QED
    BY <1>5, <1>6, <1>8, <1>10, <1>13 DEF IInv
--------------------------------------------------------------------------------
(* The theorems.                                                               *)

LEMMA InitInv == Init => IInv
  <1> SUFFICES ASSUME Init PROVE IInv
    OBVIOUS
  <1>1. Empty(1)
    BY DEF Init, BridgeInit, Empty
  <1>2. /\ BridgeInv /\ led.store = 1
        /\ \A s \in Store : NewsOf(s) = {} /\ due[s] = <<>>
    BY <1>1, EmptyInv
  <1>3. /\ connected = FALSE /\ link = <<>> /\ syncPc = "idle" /\ again = FALSE
        /\ asked = NoCursor /\ listed = NoList /\ answer = NoAnswer
        /\ cursor = NoCursor /\ replica = NothingStored /\ savedCursor = NoCursor /\ jobs = <<>>
        /\ loading = FALSE
    BY DEF Init
  <1>4. TypeOK
    <2>1. Nothing \in Put /\ NoList \in [reset : BOOLEAN, put : Put]
      BY DEF Nothing, Put, Absent, NoList
    <2>2. NoAnswer \in Answer /\ NoCursor \in Cursor
      BY <2>1 DEF NoAnswer, Answer, NoCursor, Cursor
    <2>3. NothingStored \in [Entity -> Nat]
      BY DEF NothingStored, Absent
    <2>4. <<>> \in Seq(Seq(Op) \ {<<>>}) /\ <<>> \in Seq(News \cup Answer)
      OBVIOUS
    <2> QED
      BY <1>2, <1>3, <2>1, <2>2, <2>3, <2>4 DEF TypeOK, SyncPc, BridgeInv
  <1>5. DOMAIN jobs = {} /\ DOMAIN link = {}
    BY <1>3
  <1>6. NewsInv
    <2>1. \A s \in Store : DOMAIN due[s] = {}
      BY <1>2
    <2>2. \A s \in Store : DueOf(s) = {}
      BY <2>1 DEF DueOf
    <2>3. OnLink = {}
      BY <1>5 DEF OnLink
    <2>4. Heard = {} /\ Flushed = {}
      BY <1>2, <2>2, <2>3 DEF Heard, Flushed, Due
    <2> QED
      BY <2>2, <2>4 DEF NewsInv, Distinct, DueSays
  <1>7. JobsInv /\ OneAnswer /\ SavesInv /\ ApplyInv /\ LinkInv
    BY <1>5 DEF JobsInv, OneAnswer, SavesInv, ApplyInv, LinkInv
  <1>8. ReadyInv /\ AskedInv
    BY <1>3 DEF ReadyInv, AskedInv
  <1>9. CursorInv
    BY <1>2, <1>3 DEF CursorInv, Ours, NoCursor
  <1> QED
    BY <1>2, <1>4, <1>6, <1>7, <1>8, <1>9 DEF IInv

LEMMA NextInv ==
  ASSUME CursorSchedules, IInv, [Next]_vars
  PROVE  IInv'
  <1>1. Phone => IInv'
    BY LoadCursorStep, RequestSyncStep, DropStaleStep, TakeNextStep, TakeAheadStep, ReceiveAnswerStep, ExecuteStep
       DEF Phone
  <1>2. Bridge => IInv'
    BY BridgeStepInv, AnnounceStep, ListThreadsStep, ReadRestStep, SendAnswerStep DEF Bridge
  <1>3. Environment => IInv'
    BY BridgeStepInv, BridgeRestartStep, ResumeStep, DisconnectStep, EvictStep, ConnectStep, KillStep
       DEF Environment
  <1>4. UNCHANGED vars => IInv'
    BY StutterStep
  <1> QED
    BY <1>1, <1>2, <1>3, <1>4 DEF Next

(* The inductive invariant holds of every schedule but those CursorSchedules   *)
(* leaves out.                                                                 *)
THEOREM Invariance ==
  ASSUME CursorSchedules
  PROVE  Spec => []IInv
  <1>1. IInv /\ [Next]_vars => IInv'
    BY NextInv
  <1> QED
    BY <1>1, InitInv, PTL DEF Spec

(* The state stays in its types (bridge_replica.dart, sync-handler.ts).        *)
THEOREM TypeCorrect ==
  ASSUME CursorSchedules
  PROVE  Spec => []TypeOK
  <1>1. IInv => TypeOK
    BY DEF IInv
  <1> QED
    BY <1>1, Invariance, PTL

\* What is kept is there or on its way.
LEMMA KeptReaches ==
  ASSUME IInv, NEW e \in Entity, NEW v, Kept(e, v)
  PROVE  Reaches(e, v)
  <1>1. CASE replica[e] = v
    BY <1>1 DEF Reaches
  <1>2. ASSUME NEW i \in NewsOn(e), i \notin Wrong(e, v)
        PROVE  Reaches(e, v)
    <2>1. i \in DOMAIN jobs /\ Touches(LastOp(jobs[i]), e) /\ Brought(LastOp(jobs[i]), e) = v
      BY <1>2 DEF NewsOn, Wrong
    <2>2. Len(jobs[i]) \in DOMAIN jobs[i]
      BY <2>1, JobShape
    <2>3. Sets(LastOp(jobs[i]), e, v)
      BY <2>1 DEF Sets, Touches, Brought
    <2> QED
      BY <2>1, <2>2, <2>3 DEF Reaches, LastOp
  <1> QED
    BY <1>1, <1>2 DEF Kept

\* What a cursor of the bridge's store covers, the phone has.
LEMMA CoveredReaches ==
  ASSUME IInv, Ours(cursor), led.horizon <= cursor.rev, NEW e \in Entity, Covered(e, cursor)
  PROVE  Reaches(e, ents[e])
  <1>0. /\ led.horizon \in Nat /\ cursor.rev \in Nat /\ led.tomb[e] \in Nat /\ ents[e] \in Nat
        /\ CursorInv
    BY Types, TypesOf DEF IInv, Shaped, BridgeInv
  <1>1. Memory(e) \in Truths(openRead)
    BY TruthIs
  <1>2. ~After(Memory(e), cursor.rev)
    <2>1. \A r \in Dates(led, ents[e], e) : ~(r > cursor.rev)
      BY <1>0 DEF Dates, Covered
    <2> QED
      BY <2>1, TruthFields DEF After
  <1>3. Kept(e, ents[e])
    BY <1>0, <1>1, <1>2, TruthFields DEF CursorInv
  <1> QED
    BY <1>3, KeptReaches

(* Whatever the cursor in memory covers, the phone has or is writing           *)
(* (sync-ledger.ts:6-10, bridge_replica.dart:333-336).                         *)
THEOREM CursorIsSound ==
  ASSUME CursorSchedules
  PROVE  Spec => []CursorSound
  <1>1. IInv => CursorSound
    <2> SUFFICES ASSUME IInv, Answerable(cursor), NEW e \in Entity, Covered(e, cursor)
                 PROVE  Reaches(e, ents[e])
      BY DEF CursorSound
    <2>1. Ours(cursor) /\ led.horizon <= cursor.rev
      BY Types, TypesOf DEF Answerable, NeedsReset, Ours, IInv, Shaped, BridgeInv
    <2> QED
      BY <2>1, CoveredReaches
  <1> QED
    BY <1>1, Invariance, PTL

(* The same of the cursor on the phone's disk, from which a killed app goes on *)
(* (bridge_replica.dart:333-336).                                              *)
THEOREM SavedCursorIsSound ==
  ASSUME CursorSchedules
  PROVE  Spec => []SavedCursorSound
  <1>1. IInv => SavedCursorSound
    <2> SUFFICES ASSUME IInv, Answerable(savedCursor), NEW e \in Entity, Covered(e, savedCursor)
                 PROVE  Reaches(e, ents[e])
      BY DEF SavedCursorSound
    <2>0. /\ led.horizon \in Nat /\ led.tomb[e] \in Nat /\ ents[e] \in Nat /\ led.store \in Nat
          /\ Shaped /\ CursorInv
      BY Types, TypesOf DEF IInv, Shaped, BridgeInv
    <2>1. savedCursor.store = led.store /\ led.horizon <= savedCursor.rev
      BY <2>0 DEF Answerable, NeedsReset, Shaped
    <2>2. cursor.store = led.store /\ savedCursor.rev <= cursor.rev
      BY <2>0, <2>1 DEF CursorInv, Shaped
    <2>3. led.horizon <= cursor.rev /\ Covered(e, cursor)
      BY <2>0, <2>1, <2>2 DEF Covered, Shaped
    <2> QED
      BY <2>2, <2>3, CoveredReaches DEF Ours
  <1> QED
    BY <1>1, Invariance, PTL

(* The phone never holds a revision the bridge might hand out again            *)
(* (thread-store.ts:1889-1890).                                                *)
THEOREM CursorRevsAreTaken ==
  ASSUME CursorSchedules
  PROVE  Spec => []CursorRevTaken
  <1>1. IInv => CursorRevTaken
    BY DEF IInv, CursorInv, CursorRevTaken, Ours, Taken
  <1> QED
    BY <1>1, Invariance, PTL
================================================================================
