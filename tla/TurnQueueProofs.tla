---------------------------- MODULE TurnQueueProofs ----------------------------
(* That TurnQueue, for any number of messages and on the safe schedules, gives *)
(* the agent one turn at a time and each message once, and strands none.       *)
EXTENDS TurnQueueInv, FiniteSetTheorems, TLAPS

\* None is no turn.
LEMMA NoneIsNoTurn == None \notin Turn /\ Turn \subseteq Nat
BY TurnAssumption DEF None, Turn
--------------------------------------------------------------------------------
(* The queue *)

\* Queue q holds, once each, the turns that are queued in f.
Fits(f, q) ==
  /\ q \in Seq(Turn) /\ IsInjective(q)
  /\ \A t \in Turn : f[t] = "queued" <=> t \in Range(q)

\* The first of the queue leaves it. (#drainQueue's shift)
LEMMA TailFits ==
  ASSUME NEW f \in [Turn -> Position], NEW q, Fits(f, q), q # <<>>
  PROVE  /\ Head(q) \in Turn /\ f[Head(q)] = "queued"
         /\ Fits([f EXCEPT ![Head(q)] = "promoting"], Tail(q))
<1> USE DEF Fits
<1>1. q[1] = Head(q) /\ 1 \in DOMAIN q /\ Head(q) \in Turn
  OBVIOUS
<1>2. Head(q) \in Range(q)
  BY <1>1 DEF Range
<1>3. Tail(q) \in Seq(Turn) /\ DOMAIN Tail(q) = 1 .. Len(q) - 1
  OBVIOUS
<1>4. \A i \in DOMAIN Tail(q) : Tail(q)[i] = q[i + 1] /\ i + 1 \in DOMAIN q
  OBVIOUS
<1>5. IsInjective(Tail(q))
  BY <1>3, <1>4 DEF IsInjective
<1>6. Range(Tail(q)) = Range(q) \ {Head(q)}
  <2>1. ASSUME NEW x \in Range(Tail(q)) PROVE x \in Range(q) /\ x # Head(q)
    BY <1>1, <1>3, <1>4 DEF Range, IsInjective
  <2>2. ASSUME NEW x \in Range(q), x # Head(q) PROVE x \in Range(Tail(q))
    <3>1. PICK i \in DOMAIN q : q[i] = x
      BY DEF Range
    <3>2. i # 1 /\ i - 1 \in DOMAIN Tail(q) /\ Tail(q)[i - 1] = x
      BY <1>1, <1>3, <1>4, <2>2, <3>1
    <3> QED
      BY <3>2 DEF Range
  <2> QED
    BY <2>1, <2>2
<1> QED
  BY <1>1, <1>2, <1>3, <1>5, <1>6 DEF Position

\* A turn joins the queue at its end. (#enqueueTurn's push)
LEMMA AppendFits ==
  ASSUME NEW f \in [Turn -> Position], NEW q, Fits(f, q), NEW t \in Turn, f[t] # "queued"
  PROVE  Fits([f EXCEPT ![t] = "queued"], Append(q, t)) /\ Append(q, t) # <<>>
<1> USE DEF Fits
<1>1. t \notin Range(q)
  OBVIOUS
<1>2. Append(q, t) \in Seq(Turn) /\ DOMAIN Append(q, t) = 1 .. Len(q) + 1
  OBVIOUS
<1>3. \A i \in DOMAIN Append(q, t) :
        Append(q, t)[i] = IF i = Len(q) + 1 THEN t ELSE q[i]
  OBVIOUS
<1>4. IsInjective(Append(q, t))
  BY <1>1, <1>2, <1>3 DEF IsInjective, Range
<1>5. Range(Append(q, t)) = Range(q) \cup {t}
  <2>1. ASSUME NEW x \in Range(q) PROVE x \in Range(Append(q, t))
    <3>1. PICK i \in DOMAIN q : q[i] = x
      BY DEF Range
    <3>2. i \in DOMAIN Append(q, t) /\ Append(q, t)[i] = x
      BY <1>2, <1>3, <3>1
    <3> QED
      BY <3>2 DEF Range
  <2>2. t \in Range(Append(q, t))
    <3>1. Len(q) + 1 \in DOMAIN Append(q, t) /\ Append(q, t)[Len(q) + 1] = t
      BY <1>2, <1>3
    <3> QED
      BY <3>1 DEF Range
  <2>3. ASSUME NEW x \in Range(Append(q, t)) PROVE x \in Range(q) \cup {t}
    BY <1>2, <1>3 DEF Range
  <2> QED
    BY <2>1, <2>2, <2>3
<1>6. Append(q, t) # <<>>
  OBVIOUS
<1> DEFINE g == [f EXCEPT ![t] = "queued"]
<1>7. \A u \in Turn : g[u] = "queued" <=> u \in Range(q) \cup {t}
  OBVIOUS
<1> QED
  BY <1>2, <1>4, <1>5, <1>6, <1>7

\* What is left of a queue without one of its turns. (splice)
LEMMA WithoutIs ==
  ASSUME queue \in Seq(Turn), IsInjective(queue), NEW t \in Turn
  PROVE  /\ Without(t) \in Seq(Turn) /\ IsInjective(Without(t))
         /\ Range(Without(t)) = Range(queue) \ {t}
<1>1. CASE t \notin Range(queue)
  BY <1>1 DEF Without
<1>2. CASE t \in Range(queue)
  <2>1. PICK i \in DOMAIN queue : queue[i] = t /\ Without(t) = RemoveAt(queue, i)
    BY <1>2 DEF Without, Range
  <2> DEFINE w == RemoveAt(queue, i)
  <2>2. /\ w \in Seq(Turn) /\ Len(w) = Len(queue) - 1
        /\ \A j \in 1 .. Len(queue) - 1 : w[j] = IF j < i THEN queue[j] ELSE queue[j + 1]
    <3> DEFINE a == SubSeq(queue, 1, i - 1)
               b == SubSeq(queue, i + 1, Len(queue))
    <3>1. i \in 1 .. Len(queue) /\ Len(queue) \in Nat
      BY <2>1
    <3>2. a \in Seq(Turn) /\ Len(a) = i - 1 /\ \A j \in 1 .. i - 1 : a[j] = queue[j]
      BY <3>1
    <3>3. /\ b \in Seq(Turn) /\ Len(b) = Len(queue) - i
          /\ \A j \in 1 .. Len(queue) - i : b[j] = queue[j + i]
      BY <3>1
    <3>4. w = a \o b
      BY DEF RemoveAt
    <3> HIDE DEF a, b
    <3> QED
      BY SMTT(30), <3>1, <3>2, <3>3, <3>4
  <2> HIDE DEF w
  <2>3. DOMAIN w = 1 .. Len(queue) - 1
    BY <2>2
  <2> DEFINE old(j) == IF j < i THEN j ELSE j + 1
  <2>0. \A j \in DOMAIN w : old(j) \in DOMAIN queue /\ old(j) # i /\ w[j] = queue[old(j)]
    BY <2>1, <2>2, <2>3
  <2>4. IsInjective(w)
    <3> SUFFICES ASSUME NEW j \in DOMAIN w, NEW k \in DOMAIN w, w[j] = w[k] PROVE j = k
      BY DEF IsInjective
    <3>1. j \in Int /\ k \in Int /\ i \in Int
      BY <2>3
    <3>2. old(j) = old(k)
      BY <2>0 DEF IsInjective
    <3> QED
      BY <3>1, <3>2
  <2>5. ASSUME NEW x \in Range(w) PROVE x \in Range(queue) /\ x # t
    <3>1. PICK j \in DOMAIN w : w[j] = x
      BY <2>5 DEF Range
    <3>2. old(j) \in DOMAIN queue /\ old(j) # i /\ queue[old(j)] = x
      BY <2>0, <3>1
    <3> QED
      BY <2>1, <3>2 DEF Range, IsInjective
  <2>6. ASSUME NEW x \in Range(queue), x # t PROVE x \in Range(w)
    <3>1. PICK j \in DOMAIN queue : queue[j] = x
      BY DEF Range
    <3>2. CASE j < i
      <4>1. j \in DOMAIN w /\ w[j] = x
        BY <2>1, <2>2, <2>3, <3>1, <3>2
      <4> QED
        BY <4>1 DEF Range
    <3>3. CASE j > i
      <4>1. j - 1 \in DOMAIN w /\ w[j - 1] = x
        BY <2>1, <2>2, <2>3, <3>1, <3>3
      <4> QED
        BY <4>1 DEF Range
    <3> QED
      BY <2>1, <2>6, <3>1, <3>2, <3>3
  <2> QED
    BY <2>1, <2>2, <2>4, <2>5, <2>6 DEF w
<1> QED
  BY <1>1, <1>2

\* A turn leaves the queue. (#cancelQueuedTurn, #attemptSteer)
LEMMA WithoutFits ==
  ASSUME at \in [Turn -> Position], Fits(at, queue), NEW t \in Turn,
         NEW p \in Position, p # "queued"
  PROVE  Fits([at EXCEPT ![t] = p], Without(t))
BY WithoutIs DEF Fits

\* A turn is put first. (sendQueuedNow's unshift)
LEMMA ForemostFits ==
  ASSUME at \in [Turn -> Position], Fits(at, queue), NEW t \in Turn, t \in Range(queue)
  PROVE  Fits(at, Foremost(t)) /\ Foremost(t) # <<>>
<1> DEFINE w == Without(t)
<1>1. w \in Seq(Turn) /\ IsInjective(w) /\ Range(w) = Range(queue) \ {t}
  BY WithoutIs DEF Fits
<1> HIDE DEF w
<1>2. /\ Foremost(t) \in Seq(Turn) /\ DOMAIN Foremost(t) = 1 .. Len(w) + 1
      /\ \A i \in 1 .. Len(w) + 1 : Foremost(t)[i] = IF i = 1 THEN t ELSE w[i - 1]
  <2>1. Foremost(t) = <<t>> \o w
    BY DEF Foremost, w
  <2> QED
    BY <1>1, <2>1
<1>3. \A i \in 1 .. Len(w) : w[i] \in Range(w)
  BY <1>1 DEF Range
<1>4. IsInjective(Foremost(t))
  <2> SUFFICES ASSUME NEW i \in 1 .. Len(w) + 1, NEW j \in 1 .. Len(w) + 1,
                      Foremost(t)[i] = Foremost(t)[j]
               PROVE  i = j
    BY <1>2 DEF IsInjective
  <2>1. Foremost(t)[i] = (IF i = 1 THEN t ELSE w[i - 1])
        /\ Foremost(t)[j] = (IF j = 1 THEN t ELSE w[j - 1])
    BY <1>2
  <2>2. CASE i = 1 \/ j = 1
    <3>1. \A k \in 1 .. Len(w) + 1 : k # 1 => k - 1 \in 1 .. Len(w)
      BY <1>1
    <3>2. \A k \in 1 .. Len(w) + 1 : k # 1 => w[k - 1] # t
      BY <1>1, <1>3, <3>1
    <3> QED
      BY <2>1, <2>2, <3>2
  <2>3. CASE i # 1 /\ j # 1
    <3>1. Len(w) \in Nat /\ DOMAIN w = 1 .. Len(w)
      BY <1>1
    <3>2. i - 1 \in DOMAIN w /\ j - 1 \in DOMAIN w
      BY <2>3, <3>1
    <3>3. w[i - 1] = w[j - 1]
      BY <2>1, <2>3
    <3> QED
      BY <1>1, <3>2, <3>3 DEF IsInjective
  <2> QED
    BY <2>2, <2>3
<1>5. Range(Foremost(t)) = Range(w) \cup {t}
  <2>1. ASSUME NEW x \in Range(w) PROVE x \in Range(Foremost(t))
    <3>1. PICK i \in DOMAIN w : w[i] = x
      BY DEF Range
    <3>2. i + 1 \in DOMAIN Foremost(t) /\ Foremost(t)[i + 1] = x
      BY <1>1, <1>2, <3>1
    <3> QED
      BY <3>2 DEF Range
  <2>2. t \in Range(Foremost(t))
    <3>1. 1 \in DOMAIN Foremost(t) /\ Foremost(t)[1] = t
      BY <1>1, <1>2
    <3> QED
      BY <3>1 DEF Range
  <2>3. ASSUME NEW x \in Range(Foremost(t)) PROVE x \in Range(w) \cup {t}
    BY <1>1, <1>2, <1>3 DEF Range
  <2> QED
    BY <2>1, <2>2, <2>3
<1> QED
  BY <1>1, <1>2, <1>4, <1>5 DEF Fits
--------------------------------------------------------------------------------
(* What the steps have in common *)

\* The turns the queue is made of, and what becomes of them in it.
Early == {"unsent", "storing", "parking", "queued", "promoting"}
Gone == {"cancelling", "cancelled"}

\* Turns on their way into and out of the queue are nobody's output.
\* (#enqueueTurn, #drainQueue, #cancelQueuedTurn, clearQueue)
LEMMA QueueMoves ==
  ASSUME IInv, UNCHANGED <<active, offer, shows, live, given>>,
         at' \in [Turn -> Position],
         \A t \in Turn : \/ at'[t] = at[t]
                         \/ at[t] \in Early /\ at'[t] \in Early \cup Gone \cup {"failing"}
                         \/ at[t] = "cancelling" /\ at'[t] = "cancelled"
                         \/ at[t] = "failing" /\ at'[t] = "ended"
                         \/ at[t] = "preparing" /\ at'[t] = "stuck",
         \A r \in Turn : end'[r] = end[r] \/ (end[r].stage = "settling" /\ end'[r].stage = "none"),
         Read \/ Readable => at'[offer.turn] = "queued"
  PROVE  ShowInv' /\ EndInv' /\ OfferInv' /\ GivenInv' /\ RunningInv'
<1> USE NoneIsNoTurn DEF IInv, Early, Gone
<1>1. /\ shows \in [Turn -> Turn \cup {None}] /\ live \subseteq Turn
      /\ at \in [Turn -> Position]
  BY DEF TypeOK
<1>a. \A t \in Turn : at[t] \in {"running", "ended"} => at'[t] = at[t]
  BY <1>1
<1>b. \A r \in Turn : shows[r] # None => shows[r] \in Turn
  BY <1>1
<1>2. ShowInv'
  <2>1. ASSUME NEW r \in Turn, shows[r] # None
        PROVE  /\ at'[shows[r]] = "running" /\ at'[r] \in {"running", "ended"}
               /\ r \in live \/ end'[r].stage \in {"waiting", "woken", "checking", "booking"}
               /\ end'[r].stage = "booking" \/ active = shows[r]
    <3>1. at[shows[r]] = "running" /\ at[r] \in {"running", "ended"}
      BY <2>1 DEF ShowInv
    <3>2. end'[r] = end[r]
      BY <2>1 DEF ShowInv, EndInv, EndFits
    <3>3. at'[shows[r]] = "running" /\ at'[r] \in {"running", "ended"}
      BY <1>a, <1>b, <2>1, <3>1
    <3>4. r \in live \/ end[r].stage \in {"waiting", "woken", "checking", "booking"}
      BY <2>1 DEF ShowInv
    <3>5. end[r].stage = "booking" \/ active = shows[r]
      BY <2>1 DEF ShowInv
    <3> QED
      BY <3>2, <3>3, <3>4, <3>5
  <2>2. ASSUME NEW r \in live PROVE shows[r] # None /\ end'[r].stage = "none"
    <3>1. r \in Turn /\ shows[r] # None /\ end[r].stage = "none"
      BY <1>1, <2>2 DEF ShowInv
    <3> QED
      BY <3>1
  <2> QED
    BY <2>1, <2>2 DEF ShowInv
<1>3. EndInv'
  <2> SUFFICES ASSUME NEW r \in Turn
               PROVE  /\ end'[r].stage # "none" => at'[r] \in {"running", "ended"}
                      /\ end'[r].stage \in {"waiting", "woken"} =>
                           shows[r] # None \/ (at'[r] = "ended" /\ end'[r].kind = "completed")
                      /\ end'[r].stage \in {"checking", "booking"} =>
                           /\ end'[r].turn \in Turn
                           /\ \/ shows[r] # None /\ shows[r] = end'[r].turn
                              \/ end'[r].stage = "checking" /\ shows[r] = None /\ at'[end'[r].turn] = "ended"
                      /\ end'[r].stage = "settling" => shows[r] = None
                      /\ end'[r].stage = "failing" =>
                           /\ shows[r] = None /\ end'[r].turn \in Turn
                           /\ at'[end'[r].turn] \in {"running", "ended"}
                           /\ \A s \in Turn : shows[s] # end'[r].turn
    BY DEF EndInv, EndFits
  <2>1. CASE end'[r] = end[r]
    <3>1. /\ end[r].stage \in {"waiting", "woken"} =>
               shows[r] # None \/ (at[r] = "ended" /\ end[r].kind = "completed")
          /\ end[r].stage = "settling" => shows[r] = None
      BY DEF EndInv, EndFits
    <3>2. end[r].stage \in {"checking", "booking"} =>
            /\ end[r].turn \in Turn
            /\ \/ shows[r] # None /\ shows[r] = end[r].turn
               \/ end[r].stage = "checking" /\ shows[r] = None /\ at[end[r].turn] = "ended"
      BY DEF EndInv, EndFits
    <3>3. end[r].stage = "failing" =>
            /\ shows[r] = None /\ end[r].turn \in Turn
            /\ at[end[r].turn] \in {"running", "ended"}
            /\ \A s \in Turn : shows[s] # end[r].turn
      BY DEF EndInv, EndFits
    <3>4. /\ at[r] = "ended" => at'[r] = "ended"
          /\ end[r].stage # "none" => at'[r] \in {"running", "ended"}
      BY <1>a DEF EndInv, EndFits
    <3>5. end[r].turn \in Turn /\ at[end[r].turn] \in {"running", "ended"} => at'[end[r].turn] = at[end[r].turn]
      BY <1>a
    <3> QED
      BY <2>1, <3>1, <3>2, <3>3, <3>4, <3>5
  <2>2. CASE end'[r].stage = "none"
    BY <2>2
  <2> QED
    BY <2>1, <2>2
<1>4. OfferInv'
  <2>1. \A t \in Turn : at[t] \in Launched => at'[t] \in Launched
    BY DEF Launched
  <2>2. active # None => active \in Turn /\ at[active] \in Launched
    BY DEF OfferInv, TypeOK
  <2>3. offer.stage # "none" =>
          /\ offer.turn \in Turn /\ offer.of \in Turn /\ offer.run \in Turn
          /\ at[offer.run] \in Launched
    BY DEF OfferInv
  <2>4. Readable' => Readable
    BY <1>1, <2>3 DEF Readable
  <2>5. Read => shows[offer.run] # None
                  /\ (offer.run \in live \/ end'[offer.run].stage = "waiting")
    BY <2>3 DEF OfferInv, Read
  <2>6. Read \/ Readable => at'[offer.turn] = "queued" /\ active = offer.of
    BY DEF OfferInv
  <2> QED
    BY <2>1, <2>2, <2>3, <2>4, <2>5, <2>6 DEF OfferInv, Read
<1>5. GivenInv'
  BY <1>1 DEF GivenInv, Read
<1>6. RunningInv'
  BY <1>1 DEF RunningInv, EndInv, EndFits
<1> QED
  BY <1>2, <1>3, <1>4, <1>5, <1>6

\* The queue and its turns fit each other.
LEMMA QueueFits == IInv => Fits(at, queue) /\ at \in [Turn -> Position]
BY DEF IInv, TypeOK, NobodyStranded, Fits

\* A turn that is queued neither before nor after changes nothing of it.
LEMMA OtherFits ==
  ASSUME IInv, NEW t \in Turn, at[t] # "queued", NEW p \in Position, p # "queued",
         at' = [at EXCEPT ![t] = p], queue' = queue
  PROVE  Fits(at', queue') /\ at' \in [Turn -> Position]
BY QueueFits DEF Fits

\* While a message is being read, or may be, a turn is active: nothing drains.
LEMMA ReadKeepsActive == IInv /\ (Read \/ Readable) => active # None /\ offer.turn \in Turn
BY NoneIsNoTurn DEF IInv, OfferInv, Read, Readable

\* Draining a queue q that fits the turns f: it still fits, and one turn at most
\* has left it, over an idle thread. (#drainQueue)
LEMMA DrainFits ==
  ASSUME NEW f \in [Turn -> Position], NEW q, NEW p \in BOOLEAN, Fits(f, q),
         "overlap" \notin Windows, Drain(f, q, p)
  PROVE  /\ Fits(at', queue') /\ at' \in [Turn -> Position]
         /\ \/ at' = f
            \/ /\ active = None /\ Starting = {}
               /\ \E t \in Turn : f[t] = "queued" /\ at' = [f EXCEPT ![t] = "promoting"]
BY TailFits DEF Drain, MayStart, Position

\* ... so whatever was on its way to the agent is all there is.
LEMMA DrainStart ==
  ASSUME IInv, UNCHANGED active, NEW f \in [Turn -> Position],
         \A t \in Turn : f[t] = at[t] \/ (at[t] \in Early \cup Gone /\ f[t] \in {"queued"} \cup Gone),
         \/ at' = f
         \/ /\ active = None /\ Starting = {}
            /\ \E t \in Turn : f[t] = "queued" /\ at' = [f EXCEPT ![t] = "promoting"]
  PROVE  StartInv'
<1> USE DEF IInv, StartInv, Early, Gone
<1>1. CASE at' = f
  BY <1>1 DEF Starting
<1>2. CASE /\ active = None /\ Starting = {}
           /\ \E t \in Turn : f[t] = "queued" /\ at' = [f EXCEPT ![t] = "promoting"]
  <2>1. PICK t \in Turn : f[t] = "queued" /\ at' = [f EXCEPT ![t] = "promoting"]
    BY <1>2
  <2>2. Starting' \subseteq {t}
    BY <1>2, <2>1 DEF Starting
  <2>3. \A u \in Turn : at'[u] \in {"preparing", "launching", "stuck"} => at[u] = at'[u]
    BY <2>1
  <2> QED
    BY <1>2, <2>2, <2>3
<1> QED
  BY <1>1, <1>2
\* Nothing more is on its way to the agent.
LEMMA StartShrinks ==
  ASSUME IInv, Starting' \subseteq Starting, active' = active,
         \A t \in Turn : at'[t] \in {"preparing", "launching", "stuck"} =>
                         at[t] \in {"preparing", "launching", "stuck"}
  PROVE  StartInv'
BY DEF IInv, StartInv
--------------------------------------------------------------------------------
(* Sending *)

\* A message is accepted: at most one over an idle thread. (sendTurn)
LEMMA SendStep ==
  ASSUME IInv, SafeSchedules, NEW t \in Turn, Send(t)
  PROVE  IInv'
<1> USE NoneIsNoTurn, QueueFits
<1>1. /\ UNCHANGED <<active, queue, paused, nextUp, offer, missed, shows, inStep, live, given, end, held>>
      /\ at[t] = "unsent"
      /\ \/ at' = [at EXCEPT ![t] = "parking"]
         \/ at' = [at EXCEPT ![t] = "storing"] /\ active = None /\ Starting = {}
  BY DEF Send, Moved, MayStart, SafeSchedules, waiting, offering, agent
<1>2. Fits(at', queue') /\ at' \in [Turn -> Position]
  <2>1. \E p \in {"parking", "storing"} : at' = [at EXCEPT ![t] = p]
    BY <1>1
  <2> QED
    BY <1>1, <2>1, OtherFits DEF Position
<1>3. TypeOK' /\ NobodyStranded'
  BY <1>1, <1>2 DEF IInv, TypeOK, NobodyStranded, Fits
<1>4. StartInv'
  <2>1. Starting' \subseteq Starting \cup {t}
    BY <1>1 DEF Starting
  <2>2. t \notin Starting' \/ (Starting = {} /\ active = None)
    BY <1>1, <1>2 DEF Starting
  <2>3. \A u \in Turn : at'[u] \in {"preparing", "launching", "stuck"} => at[u] = at'[u]
    BY <1>1, <1>2
  <2> QED
    BY <1>1, <2>1, <2>2, <2>3 DEF IInv, StartInv
<1>5. Read \/ Readable => at'[offer.turn] = "queued"
  BY <1>1, ReadKeepsActive DEF IInv, OfferInv
<1> QED
  BY <1>1, <1>2, <1>3, <1>4, <1>5, QueueMoves DEF IInv, Early

\* The thread is the turn's that was stored for it. (sendTurn, #runTurn)
LEMMA StoreStep ==
  ASSUME IInv, SafeSchedules, NEW t \in Turn, Store(t) \/ Begin(t)
  PROVE  IInv'
<1> USE NoneIsNoTurn, QueueFits
<1>1. /\ UNCHANGED <<queue, paused, nextUp, offer, missed, shows, inStep, live, given, end, held>>
      /\ t \in Starting /\ at[t] # "queued" /\ active' = t
      /\ \E p \in {"preparing", "launching"} : at' = [at EXCEPT ![t] = p]
  BY DEF Store, Begin, Moved, Starting, waiting, offering, agent
<1>2. active = None /\ \A u \in Turn : u \in Starting => u = t
  BY <1>1 DEF IInv, StartInv
<1>3. Fits(at', queue') /\ at' \in [Turn -> Position]
  <2>1. PICK p \in {"preparing", "launching"} : at' = [at EXCEPT ![t] = p]
    BY <1>1
  <2> QED
    BY <1>1, <2>1, OtherFits DEF Position
<1>4. TypeOK' /\ NobodyStranded'
  BY <1>1, <1>3 DEF IInv, TypeOK, NobodyStranded, Fits
<1>5. StartInv'
  <2>1. Starting' = {}
    BY <1>1, <1>2, <1>3 DEF Starting
  <2>2. \A u \in Turn : at'[u] \in {"preparing", "launching", "stuck"} => u = t
    BY <1>1, <1>2 DEF IInv, StartInv
  <2> QED
    BY <1>1, <2>1, <2>2 DEF StartInv
<1>6. \A u \in Turn : u # t => at'[u] = at[u]
  BY <1>1, <1>3
<1>7. /\ at[t] \in {"storing", "promoting"} /\ at'[t] \in {"preparing", "launching"}
      /\ shows \in [Turn -> Turn \cup {None}]
  BY <1>1, <1>3 DEF Starting, IInv, TypeOK
<1>8. \A r \in Turn : shows[r] # None => end[r].stage = "booking" /\ shows[r] # t /\ r # t
  BY <1>2, <1>7 DEF IInv, ShowInv
<1>9. ShowInv'
  BY <1>1, <1>2, <1>6, <1>7, <1>8 DEF IInv, ShowInv
<1>10. EndInv'
  BY <1>1, <1>6, <1>7 DEF IInv, EndInv, EndFits
<1>11. OfferInv' /\ GivenInv'
  BY <1>1, <1>2, <1>6, <1>7 DEF IInv, OfferInv, GivenInv, Read, Readable, Launched
<1>12. RunningInv'
  BY <1>1, <1>6, <1>7 DEF IInv, RunningInv
<1> QED
  BY <1>4, <1>5, <1>9, <1>10, <1>11, <1>12 DEF IInv

\* A message joins the queue, which may go on. (#enqueueTurn)
LEMMA ParkStep ==
  ASSUME IInv, SafeSchedules, NEW t \in Turn, Park(t)
  PROVE  IInv'
<1> USE NoneIsNoTurn, QueueFits
<1> DEFINE f == [at EXCEPT ![t] = "queued"]
<1>1. /\ UNCHANGED <<active, paused, nextUp, offer, missed, shows, inStep, live, given, end, held>>
      /\ at[t] = "parking" /\ Drain(f, Append(queue, t), paused)
  BY DEF Park, Moved, waiting, offering, agent
<1>2. f \in [Turn -> Position] /\ Fits(f, Append(queue, t))
  BY <1>1, AppendFits DEF Position
<1>3. paused \in BOOLEAN /\ "overlap" \notin Windows
  BY DEF IInv, TypeOK, SafeSchedules
<1>4. /\ Fits(at', queue') /\ at' \in [Turn -> Position]
      /\ \/ at' = f
         \/ /\ active = None /\ Starting = {}
            /\ \E u \in Turn : f[u] = "queued" /\ at' = [f EXCEPT ![u] = "promoting"]
  BY <1>1, <1>2, <1>3, DrainFits
<1>5. TypeOK' /\ NobodyStranded'
  BY <1>1, <1>4 DEF IInv, TypeOK, NobodyStranded, Fits
<1>6. \A u \in Turn : f[u] = at[u] \/ (at[u] \in Early /\ f[u] = "queued")
  BY <1>1 DEF Early
<1>7. StartInv'
  BY <1>1, <1>2, <1>4, <1>6, DrainStart
<1>8. \A u \in Turn : at'[u] = at[u] \/ (at[u] \in Early /\ at'[u] \in Early)
  BY <1>2, <1>4, <1>6 DEF Early
<1>9. Read \/ Readable => at'[offer.turn] = "queued"
  BY <1>1, <1>4, ReadKeepsActive DEF IInv, OfferInv
<1> QED
  BY <1>1, <1>4, <1>5, <1>7, <1>8, <1>9, QueueMoves DEF IInv

\* A queued turn that cannot start gives the thread back. (#drainQueue's catch)
LEMMA StartFailsStep ==
  ASSUME IInv, SafeSchedules, NEW t \in Turn, StartFails(t)
  PROVE  IInv'
<1> USE NoneIsNoTurn, QueueFits
<1>1. /\ UNCHANGED <<queue, paused, nextUp, offer, missed, shows, inStep, live, given, end>>
      /\ at[t] \in {"promoting", "launching"} /\ at' = [at EXCEPT ![t] = "failing"]
      /\ active' = None /\ held' \in {{}, Range(queue)}
  BY DEF StartFails, Moved, HeldBack, waiting, offering, agent
<1>2. Fits(at', queue') /\ at' \in [Turn -> Position]
  BY <1>1, OtherFits DEF Position
<1>3. TypeOK' /\ NobodyStranded'
  <2>1. Range(queue) \subseteq Turn
    BY DEF IInv, TypeOK, Range
  <2> QED
    BY <1>1, <1>2, <2>1 DEF IInv, TypeOK, NobodyStranded, Fits
<1>4. Starting' \subseteq Starting /\ \A u \in Turn : u # t => at'[u] = at[u]
  BY <1>1 DEF Starting
<1>5. CASE at[t] = "promoting"
  <2>1. active = None
    BY <1>5 DEF IInv, StartInv, Starting
  <2>2. StartInv'
    BY <1>1, <1>2, <1>4, <2>1, StartShrinks
  <2>3. ~(Read \/ Readable)
    BY <2>1, ReadKeepsActive
  <2> QED
    BY <1>1, <1>2, <1>3, <1>4, <1>5, <2>1, <2>2, <2>3, QueueMoves DEF IInv, Early
<1>6. CASE at[t] = "launching"
  <2>1. /\ active = t /\ shows \in [Turn -> Turn \cup {None}] /\ live \subseteq Turn
        /\ at'[t] = "failing"
    BY <1>1, <1>2, <1>6 DEF IInv, StartInv, TypeOK
  <2>2. Starting = {} /\ \A u \in Turn : at[u] \in {"preparing", "launching", "stuck"} => u = t
    BY <2>1 DEF IInv, StartInv
  <2>3. StartInv'
    BY <1>1, <1>4, <2>1, <2>2 DEF StartInv
  <2>4. \A r \in Turn : shows[r] # None => end[r].stage = "booking" /\ shows[r] # t /\ r # t
    BY <1>6, <2>1 DEF IInv, ShowInv
  <2>5. ShowInv'
    BY <1>1, <1>4, <2>1, <2>4 DEF IInv, ShowInv
  <2>6. EndInv'
    <3> SUFFICES ASSUME NEW r \in Turn PROVE EndFits(r)'
      BY DEF EndInv
    <3>1. EndFits(r) /\ end' = end /\ shows' = shows
      BY <1>1 DEF IInv, EndInv
    <3>2. /\ at[t] = "launching" /\ at'[t] = "failing"
          /\ \A u \in Turn : u # t => at'[u] = at[u]
      BY <1>4, <1>6, <2>1
    <3> HIDE DEF Turn
    <3> QED
      BY <3>1, <3>2 DEF EndFits
  <2>7. ~Read /\ (Readable => offer.run = t)
    BY <2>1, <2>2, <2>4 DEF IInv, ShowInv, OfferInv, Read, Readable
  <2>8. t \notin live
    BY <1>6, <2>4 DEF IInv, ShowInv
  <2>9. ~Read' /\ ~Readable'
    BY <1>1, <1>4, <2>1, <2>7, <2>8 DEF IInv, OfferInv, Read, Readable
  <2>10. OfferInv'
    BY <1>1, <1>4, <2>1, <2>9 DEF IInv, OfferInv, Launched
  <2>11. GivenInv'
    BY <1>1, <1>4, <2>1, <2>7, <2>9 DEF IInv, GivenInv
  <2>12. RunningInv'
    BY <1>1, <1>4, <2>1 DEF IInv, RunningInv
  <2> QED
    BY <1>3, <2>3, <2>5, <2>6, <2>10, <2>11, <2>12 DEF IInv
<1> QED
  BY <1>1, <1>5, <1>6

\* A turn's end with nothing behind it, or its withdrawal. (#drainQueue's catch,
\* sendTurn, #cancelQueuedTurn)
LEMMA LeaveStep ==
  ASSUME IInv, SafeSchedules, NEW t \in Turn, StartFailed(t) \/ StartThrows(t) \/ Cancelled(t)
  PROVE  IInv'
<1> USE NoneIsNoTurn, QueueFits
<1>1. /\ UNCHANGED <<active, queue, nextUp, offer, missed, shows, inStep, live, given, end, held>>
      /\ paused' \in BOOLEAN
      /\ \/ at[t] = "failing" /\ at' = [at EXCEPT ![t] = "ended"]
         \/ at[t] = "preparing" /\ at' = [at EXCEPT ![t] = "stuck"]
         \/ at[t] = "cancelling" /\ at' = [at EXCEPT ![t] = "cancelled"]
  BY DEF StartFailed, StartThrows, Cancelled, Moved, Pause, waiting, offering, agent, IInv, TypeOK
<1>2. Fits(at', queue') /\ at' \in [Turn -> Position]
  <2>1. PICK p \in {"ended", "stuck", "cancelled"} : at[t] # "queued" /\ at' = [at EXCEPT ![t] = p]
    BY <1>1
  <2> QED
    BY <1>1, <2>1, OtherFits DEF Position
<1>3. TypeOK' /\ NobodyStranded'
  BY <1>1, <1>2 DEF IInv, TypeOK, NobodyStranded, Fits
<1>4. StartInv'
  <2>1. Starting' \subseteq Starting
    BY <1>1, <1>2 DEF Starting
  <2>2. \A u \in Turn : at'[u] \in {"preparing", "launching", "stuck"} =>
                         at[u] \in {"preparing", "launching", "stuck"}
    BY <1>1, <1>2
  <2> QED
    BY <1>1, <2>1, <2>2, StartShrinks
<1>5. Read \/ Readable => at'[offer.turn] = "queued"
  BY <1>1, ReadKeepsActive DEF IInv, OfferInv
<1> QED
  BY <1>1, <1>2, <1>3, <1>4, <1>5, QueueMoves DEF IInv

\* The agent gets the turn: nothing else runs. (#runTurn's adapter.sendTurn)
LEMMA HandStep ==
  ASSUME IInv, SafeSchedules, NEW t \in Turn, Hand(t)
  PROVE  IInv'
<1> USE NoneIsNoTurn, QueueFits
<1>1. /\ UNCHANGED <<active, queue, paused, nextUp, offer, missed, inStep, end, held>>
      /\ at[t] \in {"preparing", "launching"} /\ at' = [at EXCEPT ![t] = "running"]
      /\ live' = live \cup {t} /\ shows' = [shows EXCEPT ![t] = t]
      /\ given' = [given EXCEPT ![t] = @ + 1]
  BY DEF Hand, Moved, waiting, offering, agent
<1>2. Fits(at', queue') /\ at' \in [Turn -> Position]
  BY <1>1, OtherFits DEF Position
<1>3. TypeOK' /\ NobodyStranded'
  BY SMTT(30), <1>1, <1>2 DEF IInv, TypeOK, NobodyStranded, Fits
<1>4. /\ active = t /\ at'[t] = "running" /\ shows'[t] = t /\ given'[t] = given[t] + 1
      /\ \A u \in Turn : u # t => at'[u] = at[u] /\ shows'[u] = shows[u] /\ given'[u] = given[u]
  BY <1>1, <1>2 DEF IInv, TypeOK, StartInv
<1>5. StartInv'
  <2>1. Starting' \subseteq Starting
    BY <1>1, <1>2 DEF Starting
  <2> QED
    BY <1>1, <1>4, <2>1, StartShrinks
<1>6. \A r \in Turn : /\ shows[r] # None => shows[r] \in Turn /\ end[r].stage = "booking" /\ shows[r] # t /\ r # t
                      /\ r \notin live
  BY <1>1, <1>4 DEF IInv, ShowInv, TypeOK
<1>7. end[t].stage = "none"
  BY <1>1 DEF IInv, EndInv, EndFits
<1>8. ShowInv'
  <2>1. \A r, s \in Turn : shows'[r] = shows'[s] /\ shows'[r] # None => r = s
    BY <1>4, <1>6 DEF IInv, ShowInv
  <2>2. ASSUME NEW r \in Turn, shows'[r] # None
        PROVE  /\ at'[shows'[r]] = "running" /\ at'[r] \in {"running", "ended"}
               /\ r \in live' \/ end[r].stage \in {"waiting", "woken", "checking", "booking"}
               /\ end[r].stage = "booking" \/ active = shows'[r]
    <3>1. CASE r = t
      BY <1>1, <1>4, <3>1
    <3>2. CASE r # t
      <4>1. shows'[r] = shows[r] /\ at'[r] = at[r]
        BY <1>4, <3>2
      <4>2. shows[r] # None /\ shows[r] \in Turn /\ shows[r] # t /\ end[r].stage = "booking"
        BY <1>6, <2>2, <4>1
      <4>3. at'[shows[r]] = at[shows[r]]
        BY <1>4, <4>2
      <4>4. at[shows[r]] = "running" /\ at[r] \in {"running", "ended"}
        BY <4>2 DEF IInv, ShowInv
      <4> QED
        BY <4>1, <4>2, <4>3, <4>4
    <3> QED
      BY <3>1, <3>2
  <2>3. ASSUME NEW r \in live' PROVE shows'[r] # None /\ end[r].stage = "none"
    <3>1. r = t
      BY <1>1, <1>6, <2>3 DEF IInv, TypeOK
    <3> QED
      BY <1>4, <1>7, <3>1
  <2> QED
    BY <1>1, <2>1, <2>2, <2>3 DEF ShowInv
<1>9. EndInv'
  <2> SUFFICES ASSUME NEW r \in Turn
               PROVE  /\ end[r].stage # "none" => at'[r] \in {"running", "ended"}
                      /\ end[r].stage \in {"waiting", "woken"} =>
                           shows'[r] # None \/ (at'[r] = "ended" /\ end[r].kind = "completed")
                      /\ end[r].stage \in {"checking", "booking"} =>
                           /\ end[r].turn \in Turn
                           /\ \/ shows'[r] # None /\ shows'[r] = end[r].turn
                              \/ end[r].stage = "checking" /\ shows'[r] = None /\ at'[end[r].turn] = "ended"
                      /\ end[r].stage = "settling" => shows'[r] = None
                      /\ end[r].stage = "failing" =>
                           /\ shows'[r] = None /\ end[r].turn \in Turn
                           /\ at'[end[r].turn] \in {"running", "ended"}
                           /\ \A s \in Turn : shows'[s] # end[r].turn
    BY <1>1 DEF EndInv, EndFits
  <2>1. CASE r = t
    BY <1>7, <2>1
  <2>2. CASE r # t
    <3>1. \A u \in Turn : at[u] \in {"running", "ended"} => at'[u] = at[u] /\ u # t
      BY <1>1, <1>4
    <3>2. shows'[r] = shows[r] /\ at'[r] = at[r]
      BY <1>4, <2>2
    <3>3. \A s \in Turn : shows'[s] = shows[s] \/ shows'[s] = t
      BY <1>4
    <3>4. /\ end[r].stage # "none" => at'[r] \in {"running", "ended"}
          /\ end[r].stage \in {"waiting", "woken"} =>
               shows'[r] # None \/ (at'[r] = "ended" /\ end[r].kind = "completed")
          /\ end[r].stage = "settling" => shows'[r] = None
      BY <3>2 DEF IInv, EndInv, EndFits
    <3>5. end[r].stage \in {"checking", "booking"} =>
            /\ end[r].turn \in Turn
            /\ \/ shows'[r] # None /\ shows'[r] = end[r].turn
               \/ end[r].stage = "checking" /\ shows'[r] = None /\ at'[end[r].turn] = "ended"
      <4>1. end[r].stage \in {"checking", "booking"} =>
              /\ end[r].turn \in Turn
              /\ \/ shows[r] # None /\ shows[r] = end[r].turn
                 \/ end[r].stage = "checking" /\ shows[r] = None /\ at[end[r].turn] = "ended"
        BY DEF IInv, EndInv, EndFits
      <4>2. end[r].turn \in Turn /\ at[end[r].turn] = "ended" => at'[end[r].turn] = "ended"
        BY <3>1
      <4> QED
        BY <3>2, <4>1, <4>2
    <3>6. ASSUME end[r].stage = "failing"
          PROVE  /\ shows'[r] = None /\ end[r].turn \in Turn
                 /\ at'[end[r].turn] \in {"running", "ended"}
                 /\ \A s \in Turn : shows'[s] # end[r].turn
      <4>1. /\ shows[r] = None /\ end[r].turn \in Turn
            /\ at[end[r].turn] \in {"running", "ended"}
            /\ \A s \in Turn : shows[s] # end[r].turn
        BY <3>6 DEF IInv, EndInv, EndFits
      <4> QED
        BY <3>1, <3>2, <3>3, <4>1
    <3> QED
      BY <3>4, <3>5, <3>6
  <2> QED
    BY <2>1, <2>2
<1>10. OfferInv'
  <2>1. ~Read /\ (Readable => offer.run = t)
    BY <1>4, <1>6 DEF IInv, StartInv, OfferInv, Read, Readable
  <2>2. ~Read' /\ (Readable' => Readable)
    BY <1>1, <1>2, <1>4, <1>6, <2>1 DEF IInv, OfferInv, Read, Readable
  <2>3. /\ offer.stage # "none" => at'[offer.run] \in Launched
        /\ at'[active] \in Launched
    BY <1>4 DEF IInv, OfferInv, Launched
  <2>4. Readable => at'[offer.turn] = "queued"
    BY <1>1, <1>4, ReadKeepsActive DEF IInv, OfferInv
  <2> QED
    BY <1>1, <2>2, <2>3, <2>4 DEF IInv, OfferInv
<1>11. GivenInv'
  <2>1. ~Read /\ ~Read'
    BY <1>1, <1>6 DEF IInv, OfferInv, Read
  <2>2. given[t] = 0
    BY <1>1, <2>1 DEF IInv, GivenInv
  <2> QED
    BY <1>1, <1>4, <2>1, <2>2 DEF IInv, GivenInv
<1>12. RunningInv'
  BY <1>1, <1>4, <1>6 DEF IInv, RunningInv
<1> QED
  BY <1>3, <1>5, <1>8, <1>9, <1>10, <1>11, <1>12 DEF IInv
--------------------------------------------------------------------------------
(* What the person asks *)

\* A queued message is withdrawn, unless the agent is taking it. (cancelTurn)
LEMMA CancelQueuedStep ==
  ASSUME IInv, SafeSchedules, NEW t \in Turn, CancelQueued(t)
  PROVE  IInv'
<1> USE NoneIsNoTurn, QueueFits
<1>1. /\ UNCHANGED <<active, paused, nextUp, offer, missed, shows, inStep, live, given, end, held>>
      /\ at[t] = "queued" /\ at' = [at EXCEPT ![t] = "cancelling"]
      /\ queue' = Without(t) /\ t # Delivering
  BY DEF CancelQueued, Moved, waiting, offering, agent
<1>2. Fits(at', queue') /\ at' \in [Turn -> Position]
  BY <1>1, WithoutFits DEF Position
<1>3. TypeOK' /\ NobodyStranded'
  BY <1>1, <1>2 DEF IInv, TypeOK, NobodyStranded, Fits
<1>4. StartInv'
  <2>1. Starting' \subseteq Starting
    BY <1>1, <1>2 DEF Starting
  <2> QED
    BY <1>1, <1>2, <2>1, StartShrinks
<1>5. Read \/ Readable => at'[offer.turn] = "queued"
  BY <1>1, ReadKeepsActive DEF IInv, OfferInv, Delivering, Read, Readable
<1> QED
  BY <1>1, <1>2, <1>3, <1>4, <1>5, QueueMoves DEF IInv, Early, Gone

\* The queue is drained, as it is or in a new order. (sendQueuedNow, resumeQueue)
LEMMA DrainStep ==
  ASSUME IInv, SafeSchedules,
         UNCHANGED <<active, offer, missed, shows, inStep, live, given>>,
         NEW q, Fits(at, q), NEW p \in BOOLEAN, Drain(at, q, p),
         paused' \in BOOLEAN, nextUp' \in Turn \cup {None}, held' \subseteq Turn,
         end' = end \/ \E r \in Turn : end[r].stage = "settling" /\ end' = [end EXCEPT ![r] = NoEnd]
  PROVE  IInv'
<1> USE NoneIsNoTurn, QueueFits
<1>1. "overlap" \notin Windows
  BY DEF SafeSchedules
<1>2. /\ Fits(at', queue') /\ at' \in [Turn -> Position]
      /\ \/ at' = at
         \/ /\ active = None /\ Starting = {}
            /\ \E u \in Turn : at[u] = "queued" /\ at' = [at EXCEPT ![u] = "promoting"]
  BY <1>1, DrainFits
<1>3. TypeOK' /\ NobodyStranded'
  <2>1. end' \in [Turn -> [stage : {"none", "waiting", "woken", "checking", "booking", "settling", "failing"},
                           kind : {"completed", "broken"}, turn : Turn \cup {None}]]
    BY SMTT(30) DEF IInv, TypeOK, NoEnd
  <2> QED
    BY <1>2, <2>1 DEF IInv, TypeOK, NobodyStranded, Fits
<1>4. StartInv'
  BY <1>2, DrainStart
<1>5. \A u \in Turn : at'[u] = at[u] \/ (at[u] \in Early /\ at'[u] \in Early)
  BY <1>2 DEF Early
<1>6. Read \/ Readable => at'[offer.turn] = "queued"
  BY <1>2, ReadKeepsActive DEF IInv, OfferInv
<1>7. \A r \in Turn : end'[r] = end[r] \/ (end[r].stage = "settling" /\ end'[r].stage = "none")
  BY DEF NoEnd, IInv, TypeOK
<1> QED
  BY <1>2, <1>3, <1>4, <1>5, <1>6, <1>7, QueueMoves DEF IInv

\* A message goes next, and at once if nothing runs. (sendQueuedNow)
LEMMA SendNowStep ==
  ASSUME IInv, SafeSchedules, NEW t \in Turn, SendNow(t)
  PROVE  IInv'
<1> USE NoneIsNoTurn, QueueFits
<1>1. t \in Range(queue) /\ Fits(at, Foremost(t)) /\ Foremost(t) # <<>>
  BY ForemostFits DEF SendNow
<1>2. CASE active # None
  <2>1. /\ UNCHANGED <<active, offer, missed, shows, inStep, live, given, end>>
        /\ at' = at /\ queue' = Foremost(t) /\ paused' = paused
        /\ nextUp' \in {t, None} /\ held' = {}
    BY <1>2 DEF SendNow, waiting, offering, agent
  <2>2. Drain(at, Foremost(t), paused)
    BY <1>2, <2>1 DEF Drain
  <2>3. paused \in BOOLEAN /\ nextUp \in Turn \cup {None} /\ t \in Turn
    BY DEF IInv, TypeOK
  <2> QED
    BY <1>1, <2>1, <2>2, <2>3, DrainStep
<1>3. CASE active = None
  <2>1. /\ UNCHANGED <<active, offer, missed, shows, inStep, live, given, end, nextUp>>
        /\ Drain(at, Foremost(t), FALSE) /\ paused' = FALSE /\ held' = {}
    BY <1>3 DEF SendNow, waiting, offering, agent
  <2>2. nextUp \in Turn \cup {None}
    BY DEF IInv, TypeOK
  <2> QED
    BY <1>1, <2>1, <2>2, DrainStep
<1> QED
  BY <1>2, <1>3

\* The pause is lifted. (resumeQueue)
LEMMA ResumeStep ==
  ASSUME IInv, SafeSchedules, Resume
  PROVE  IInv'
<1>1. /\ UNCHANGED <<active, offer, missed, shows, inStep, live, given, end, nextUp>>
      /\ Drain(at, queue, FALSE) /\ paused' = FALSE /\ held' = {}
  BY DEF Resume, waiting, offering, agent
<1> QED
  BY <1>1, QueueFits, DrainStep DEF IInv, TypeOK

\* Everything waiting is withdrawn, nothing being taken. (clearQueue)
LEMMA ClearStep ==
  ASSUME IInv, SafeSchedules, Clear
  PROVE  IInv'
<1> USE NoneIsNoTurn, QueueFits
<1>1. /\ UNCHANGED <<active, nextUp, offer, missed, shows, inStep, live, given, end>>
      /\ at' = [t \in Turn |-> IF t \in Range(queue) THEN "cancelled" ELSE at[t]]
      /\ queue' = <<>> /\ paused' = FALSE /\ held' = {} /\ Delivering \notin Range(queue)
  BY DEF Clear, waiting, offering, agent, SafeSchedules
<1>2. Range(queue) \subseteq Turn /\ \A t \in Turn : at[t] = "queued" <=> t \in Range(queue)
  BY DEF Fits, Range
<1>3. /\ at' \in [Turn -> Position]
      /\ \A t \in Turn : at'[t] = at[t] \/ (at[t] = "queued" /\ at'[t] = "cancelled")
      /\ \A t \in Turn : at'[t] # "queued"
  BY <1>1, <1>2 DEF Position
<1>4. Fits(at', queue')
  BY <1>1, <1>3 DEF Fits, IsInjective, Range
<1>5. TypeOK' /\ NobodyStranded'
  BY <1>1, <1>3, <1>4 DEF IInv, TypeOK, NobodyStranded, Fits
<1>6. StartInv'
  <2>1. Starting' \subseteq Starting
    BY <1>3 DEF Starting
  <2> QED
    BY <1>1, <1>3, <2>1, StartShrinks
<1>7. ~(Read \/ Readable)
  BY <1>1, <1>2, ReadKeepsActive DEF IInv, OfferInv, Delivering, Read, Readable
<1> QED
  BY <1>1, <1>3, <1>5, <1>6, <1>7, QueueMoves DEF IInv, Early, Gone

\* After an end the queue goes on, is held, or what was sent now runs.
\* (turn_completed's last part, #holdOrSendNext)
LEMMA SettleStep ==
  ASSUME IInv, SafeSchedules, NEW r \in Turn, Continue(r) \/ HoldOrSendNext(r)
  PROVE  IInv'
<1>1. /\ UNCHANGED <<active, offer, missed, shows, inStep, live, given, held>>
      /\ end[r].stage = "settling" /\ end' = [end EXCEPT ![r] = NoEnd]
      /\ nextUp' = None /\ paused' \in BOOLEAN
      /\ \E p \in BOOLEAN : Drain(at, queue, p)
  BY DEF Continue, HoldOrSendNext, Drain, Pause, offering, agent, IInv, TypeOK
<1> QED
  BY <1>1, QueueFits, DrainStep DEF IInv, TypeOK
--------------------------------------------------------------------------------
(* Offers to the agent *)

\* What is offered is queued, and under the active turn. (#deliverAtPause)
LEMMA OffersAre ==
  ASSUME IInv, NEW step \in [Turn -> BOOLEAN], NEW o \in Offers(step)
  PROVE  /\ o.stage = "offered" /\ o.turn \in Turn /\ at[o.turn] = "queued"
         /\ o.of = active /\ active \in Turn /\ o.run \in Turn /\ at[o.run] \in Launched
         /\ o = [stage |-> "offered", turn |-> o.turn, of |-> o.of, run |-> o.run]
<1> USE NoneIsNoTurn
<1>1. active # None /\ active \in Turn /\ queue # <<>> /\ queue \in Seq(Turn)
  BY DEF Offers, IInv, TypeOK
<1>2. o = [stage |-> "offered", turn |-> Head(queue), of |-> active, run |-> RunOf(active)]
  BY DEF Offers
<1>3. Head(queue) \in Turn /\ at[Head(queue)] = "queued"
  <2>1. Head(queue) = queue[1] /\ 1 \in DOMAIN queue /\ Head(queue) \in Turn
    BY <1>1
  <2>2. Head(queue) \in Range(queue)
    BY <2>1 DEF Range
  <2> QED
    BY <2>1, <2>2 DEF IInv, NobodyStranded
<1>4. RunOf(active) \in Turn /\ at[RunOf(active)] \in Launched
  <2>1. CASE \E r \in Turn : shows[r] = active
    <3>1. PICK r \in Turn : shows[r] = active /\ RunOf(active) = r
      BY <2>1 DEF RunOf
    <3>2. at[r] \in {"running", "ended"}
      BY <1>1, <3>1 DEF IInv, ShowInv
    <3> QED
      BY <3>1, <3>2 DEF Launched
  <2>2. CASE ~ \E r \in Turn : shows[r] = active
    BY <1>1, <2>2 DEF RunOf, IInv, OfferInv
  <2> QED
    BY <2>1, <2>2
<1> QED
  BY <1>1, <1>2, <1>3, <1>4

\* The types of the records.
OfferType == [stage : {"none", "offered", "read", "taken", "placing", "handed"},
              turn : Turn \cup {None}, of : Turn \cup {None}, run : Turn \cup {None}]
EndType == [stage : {"none", "waiting", "woken", "checking", "booking", "settling", "failing"},
            kind : {"completed", "broken"}, turn : Turn \cup {None}]

\* A step that moves only the offer, and wakes ends that waited for it.
\* (#trackStep, #steer)
LEMMA OfferMoves ==
  ASSUME IInv, UNCHANGED <<at, active, queue, paused, nextUp, shows, live, given, held>>,
         missed' \in BOOLEAN, inStep' \in [Turn -> BOOLEAN], offer' \in OfferType, OfferInv',
         Read => Read' /\ offer'.turn = offer.turn,
         \A r \in Turn : end'[r] = end[r] \/
           (end[r].stage = "waiting" /\ end'[r] = [end[r] EXCEPT !.stage = "woken"]),
         end' \in [Turn -> EndType]
  PROVE  IInv'
<1> USE NoneIsNoTurn DEF IInv
<1>1. TypeOK' /\ NobodyStranded'
  BY DEF TypeOK, NobodyStranded, OfferType, EndType
<1>2. StartInv'
  BY DEF StartInv, Starting
<1>3. \A r \in Turn : end[r] \in EndType
  BY DEF TypeOK, EndType
<1>4. \A r \in Turn : \/ end'[r] = end[r]
                      \/ end[r].stage = "waiting" /\ end'[r].stage = "woken"
                         /\ end'[r].kind = end[r].kind
  BY <1>3 DEF EndType
<1>5. ShowInv'
  <2>1. ASSUME NEW r \in Turn, shows[r] # None
        PROVE  /\ r \in live \/ end'[r].stage \in {"waiting", "woken", "checking", "booking"}
               /\ end'[r].stage = "booking" \/ active = shows[r]
    BY <1>4, <2>1 DEF ShowInv
  <2>2. ASSUME NEW r \in live PROVE end'[r].stage = "none"
    <3>1. r \in Turn
      BY <2>2 DEF TypeOK
    <3>2. end[r].stage = "none"
      BY <2>2 DEF ShowInv
    <3> QED
      BY <1>4, <3>1, <3>2
  <2> QED
    BY <2>1, <2>2 DEF ShowInv
<1>6. EndInv'
  <2> SUFFICES ASSUME NEW r \in Turn PROVE EndFits(r)'
    BY DEF EndInv
  <2>1. EndFits(r)
    BY DEF EndInv
  <2> QED
    BY <1>4, <2>1 DEF EndFits
<1>7. GivenInv'
  BY DEF GivenInv
<1>8. RunningInv'
  BY <1>4 DEF RunningInv
<1> QED
  BY <1>1, <1>2, <1>5, <1>6, <1>7, <1>8

\* A run starts a step. (#trackStep)
LEMMA StepStartsStep ==
  ASSUME IInv, NEW r \in Turn, StepStarts(r)
  PROVE  IInv'
<1>1. /\ UNCHANGED <<at, active, queue, paused, nextUp, shows, live, given, held, offer, missed, end>>
      /\ inStep' = [inStep EXCEPT ![r] = TRUE]
  BY DEF StepStarts, waiting, offering
<1>2. offer' \in OfferType /\ end' \in [Turn -> EndType] /\ missed' \in BOOLEAN /\ inStep' \in [Turn -> BOOLEAN]
  BY <1>1 DEF IInv, TypeOK, OfferType, EndType
<1>3. OfferInv' /\ Read' = Read
  BY <1>1 DEF IInv, OfferInv, Read, Readable
<1> QED
  BY <1>1, <1>2, <1>3, OfferMoves

\* A step of a run ends: a message may be offered, and one that was taken is
\* placed. (#trackStep, #deliverAtPause)
LEMMA StepEndsStep ==
  ASSUME IInv, NEW r \in Turn, StepEnds(r)
  PROVE  IInv'
<1> USE NoneIsNoTurn
<1>0. /\ inStep \in [Turn -> BOOLEAN] /\ missed \in BOOLEAN
      /\ end \in [Turn -> EndType] /\ offer \in OfferType
  BY DEF IInv, TypeOK, EndType, OfferType
<1>1. /\ UNCHANGED <<at, active, queue, paused, nextUp, shows, live, given, held, end>>
      /\ inStep' \in [Turn -> BOOLEAN] /\ missed' \in BOOLEAN
      /\ end' \in [Turn -> EndType] /\ offer \in OfferType
  <2>1. PICK still \in {FALSE, inStep[r]} : inStep' = [inStep EXCEPT ![r] = still]
    BY DEF StepEnds
  <2>2. inStep' \in [Turn -> BOOLEAN]
    BY <1>0, <2>1
  <2> QED
    BY <1>0, <2>2 DEF StepEnds, waiting
<1>2. CASE offer' = offer
  <2>1. OfferInv' /\ Read' = Read
    BY <1>1, <1>2 DEF IInv, OfferInv, Read, Readable
  <2> QED
    BY <1>1, <1>2, <2>1, OfferMoves
<1>3. CASE offer.stage = "none" /\ offer' \in Offers(inStep')
  <2>1. /\ offer'.stage = "offered" /\ offer'.turn \in Turn /\ at[offer'.turn] = "queued"
        /\ offer'.of = active /\ active \in Turn /\ offer'.run \in Turn /\ at[offer'.run] \in Launched
        /\ offer' = [stage |-> "offered", turn |-> offer'.turn, of |-> offer'.of, run |-> offer'.run]
    BY <1>1, <1>3, OffersAre
  <2>2. offer' \in OfferType
    BY <2>1 DEF OfferType
  <2>3. OfferInv'
    BY <1>1, <2>1 DEF IInv, OfferInv, Read
  <2>4. ~Read
    BY <1>3 DEF Read
  <2> QED
    BY <1>1, <2>2, <2>3, <2>4, OfferMoves
<1>4. CASE offer.stage = "taken" /\ offer' = [offer EXCEPT !.stage = "placing"]
  <2>1. /\ offer' \in OfferType /\ offer'.stage = "placing"
        /\ offer'.turn = offer.turn /\ offer'.of = offer.of /\ offer'.run = offer.run
    BY <1>1, <1>4 DEF OfferType
  <2>2. Read /\ Read'
    BY <1>4, <2>1 DEF Read
  <2>3. OfferInv'
    BY <1>1, <2>1, <2>2, <1>4 DEF IInv, OfferInv
  <2> QED
    BY <1>1, <2>1, <2>2, <2>3, OfferMoves
<1> QED
  BY <1>2, <1>3, <1>4 DEF StepEnds

\* A run reads the message it is offered, for the first time. (adapter.steerTurn)
LEMMA AgentReadsStep ==
  ASSUME IInv, AgentReads
  PROVE  IInv'
<1> USE NoneIsNoTurn
<1>1. /\ UNCHANGED <<at, active, queue, paused, nextUp, missed, shows, inStep, live, end, held>>
      /\ offer.stage = "offered" /\ offer.run \in live
      /\ offer' = [offer EXCEPT !.stage = "read"]
      /\ given' = [given EXCEPT ![offer.turn] = @ + 1]
      /\ offer \in OfferType /\ given \in [Turn -> Nat]
  BY DEF AgentReads, waiting, IInv, TypeOK, OfferType
<1>2. /\ offer' \in OfferType /\ offer'.stage = "read" /\ offer'.turn = offer.turn
      /\ offer'.of = offer.of /\ offer'.run = offer.run
  BY <1>1 DEF OfferType
<1>3. /\ offer.turn \in Turn /\ offer.of \in Turn /\ offer.run \in Turn
      /\ at[offer.run] \in Launched /\ at[offer.turn] = "queued" /\ active = offer.of
      /\ active # None => at[active] \in Launched
  BY <1>1 DEF IInv, OfferInv, Readable
<1>4. ~Read /\ Read'
  BY <1>1, <1>2 DEF Read
<1>5. given[offer.turn] = 0
  BY <1>3, <1>4 DEF IInv, GivenInv
<1>6. /\ given' \in [Turn -> Nat] /\ given'[offer.turn] = 1
      /\ \A t \in Turn : t # offer.turn => given'[t] = given[t]
  BY <1>1, <1>3, <1>5
<1>7. TypeOK' /\ NobodyStranded' /\ StartInv' /\ ShowInv' /\ EndInv' /\ RunningInv'
  <2>1. TypeOK' /\ NobodyStranded'
    BY <1>1, <1>2, <1>6 DEF IInv, TypeOK, NobodyStranded, OfferType
  <2>2. StartInv'
    BY <1>1 DEF IInv, StartInv, Starting
  <2>3. ShowInv' /\ EndInv' /\ RunningInv'
    BY <1>1 DEF IInv, ShowInv, EndInv, EndFits, RunningInv
  <2> QED
    BY <2>1, <2>2, <2>3
<1>8. OfferInv'
  <2>1. shows[offer.run] # None
    BY <1>1 DEF IInv, ShowInv
  <2> QED
    BY <1>1, <1>2, <1>3, <2>1 DEF OfferInv, Read, Readable
<1>9. GivenInv'
  BY <1>1, <1>2, <1>4, <1>6 DEF IInv, GivenInv
<1> QED
  BY <1>7, <1>8, <1>9 DEF IInv

\* The agent has said that it took the message. (#attemptSteer)
LEMMA OfferTakenStep ==
  ASSUME IInv, OfferTaken
  PROVE  IInv'
<1>1. /\ UNCHANGED <<at, active, queue, paused, nextUp, missed, shows, inStep, live, given, end, held>>
      /\ offer.stage = "read" /\ \E p \in {"taken", "placing"} : offer' = [offer EXCEPT !.stage = p]
      /\ offer \in OfferType /\ end \in [Turn -> EndType] /\ inStep \in [Turn -> BOOLEAN] /\ missed \in BOOLEAN
  BY DEF OfferTaken, waiting, agent, IInv, TypeOK, OfferType, EndType
<1>2. /\ offer' \in OfferType /\ offer'.stage \in {"taken", "placing"} /\ offer'.turn = offer.turn
      /\ offer'.of = offer.of /\ offer'.run = offer.run
  BY <1>1 DEF OfferType
<1>3. Read /\ Read'
  BY <1>1, <1>2 DEF Read
<1>4. OfferInv'
  BY <1>1, <1>2, <1>3 DEF IInv, OfferInv
<1> QED
  BY <1>1, <1>2, <1>3, <1>4, OfferMoves

\* An offer is over, with the message in the queue or in its new place.
\* (#steer's and #deliverAtPause's finally)
LEMMA ReleaseStep ==
  ASSUME IInv, OfferRefused \/ HandedOff
  PROVE  IInv'
<1> USE NoneIsNoTurn
<1>1. /\ UNCHANGED <<at, active, queue, paused, nextUp, shows, inStep, live, given, held>>
      /\ missed' = FALSE /\ inStep \in [Turn -> BOOLEAN] /\ end \in [Turn -> EndType]
      /\ offer' = NoOffer \/ offer' \in Offers(inStep)
      /\ end' = [r \in Turn |-> IF end[r].stage = "waiting"
                                THEN [end[r] EXCEPT !.stage = "woken"] ELSE end[r]]
  BY DEF OfferRefused, HandedOff, Release, waiting, agent, IInv, TypeOK, EndType
<1>2. ~Read
  BY DEF OfferRefused, HandedOff, Read, IInv, OfferInv
<1>3. end' \in [Turn -> EndType]
  <2>1. \A r \in Turn : end[r] \in EndType => [end[r] EXCEPT !.stage = "woken"] \in EndType
    BY DEF EndType
  <2> QED
    BY <1>1, <2>1
<1>4. offer' \in OfferType /\ OfferInv'
  <2>1. CASE offer' = NoOffer
    BY <1>1, <2>1 DEF NoOffer, OfferType, IInv, OfferInv, Read, Readable
  <2>2. CASE offer' \in Offers(inStep)
    <3>1. /\ offer'.stage = "offered" /\ offer'.turn \in Turn /\ at[offer'.turn] = "queued"
          /\ offer'.of = active /\ active \in Turn /\ offer'.run \in Turn /\ at[offer'.run] \in Launched
          /\ offer' = [stage |-> "offered", turn |-> offer'.turn, of |-> offer'.of, run |-> offer'.run]
      BY <1>1, <2>2, OffersAre
    <3>2. offer' \in OfferType
      BY <3>1 DEF OfferType
    <3> QED
      BY <1>1, <3>1, <3>2 DEF IInv, OfferInv, Read
  <2> QED
    BY <1>1, <2>1, <2>2
<1> QED
  BY <1>1, <1>2, <1>3, <1>4, OfferMoves
\* The run goes on under the message it took. (#handOff)
LEMMA HandOffStep ==
  ASSUME IInv, HandOff
  PROVE  IInv'
<1> USE NoneIsNoTurn
<1> DEFINE r0 == offer.run
           old == shows[r0]
           new == offer.turn
<1>1. /\ UNCHANGED <<paused, nextUp, missed, inStep, live, given, end, held>>
      /\ offer.stage = "placing" /\ active = offer.of
      /\ at' = [at EXCEPT ![TurnOf(r0)] = "ended", ![new] = "running"]
      /\ shows' = [shows EXCEPT ![r0] = new] /\ active' = new
      /\ queue' = Without(new) /\ offer' = [offer EXCEPT !.stage = "handed"]
  BY DEF HandOff
<1>2. Read
  BY <1>1 DEF Read
<1>3. /\ at \in [Turn -> Position] /\ shows \in [Turn -> Turn \cup {None}] /\ live \subseteq Turn
      /\ offer \in OfferType
  BY DEF IInv, TypeOK, OfferType
<1>4. /\ new \in Turn /\ r0 \in Turn /\ offer.of \in Turn /\ at[r0] \in Launched
      /\ old # None /\ (r0 \in live \/ end[r0].stage = "waiting")
      /\ at[new] = "queued"
  BY <1>1, <1>2 DEF IInv, OfferInv
<1>5. /\ old \in Turn /\ at[old] = "running" /\ at[r0] \in {"running", "ended"} /\ active = old
      /\ TurnOf(r0) = old /\ old # new /\ r0 # new
  <2>1. old \in Turn /\ at[old] = "running" /\ at[r0] \in {"running", "ended"}
    <3>1. old \in Turn
      BY <1>3, <1>4
    <3>2. \A r \in Turn : shows[r] # None => at[shows[r]] = "running" /\ at[r] \in {"running", "ended"}
      BY DEF IInv, ShowInv
    <3> QED
      BY <1>4, <3>1, <3>2
  <2>2. end[r0].stage # "booking"
    BY <1>4 DEF IInv, ShowInv
  <2>3. active = old
    BY <1>4, <2>2 DEF IInv, ShowInv
  <2> QED
    BY <1>4, <2>1, <2>3 DEF TurnOf
<1> HIDE DEF r0, old, new
<1>6. /\ at'[old] = "ended" /\ at'[new] = "running"
      /\ \A t \in Turn : t # old /\ t # new => at'[t] = at[t]
      /\ at' \in [Turn -> Position]
  BY <1>1, <1>3, <1>4, <1>5 DEF Position
<1>7. /\ shows'[r0] = new /\ \A s \in Turn : s # r0 => shows'[s] = shows[s]
      /\ shows' \in [Turn -> Turn \cup {None}]
  BY <1>1, <1>3, <1>4
<1>8. /\ offer' \in OfferType /\ offer'.stage = "handed" /\ offer'.turn = new
      /\ offer'.of = offer.of /\ offer'.run = r0
  BY <1>1, <1>3 DEF OfferType, r0, new
<1>9. TypeOK' /\ NobodyStranded'
  <2>1. Fits([at EXCEPT ![new] = "running"], Without(new))
    BY <1>4, QueueFits, WithoutFits DEF Position
  <2>2. \A t \in Turn : at'[t] = "queued" <=> [at EXCEPT ![new] = "running"][t] = "queued"
    BY <1>3, <1>4, <1>5, <1>6
  <2>3. queue' \in Seq(Turn) /\ IsInjective(queue')
        /\ \A t \in Turn : at'[t] = "queued" <=> t \in Range(queue')
    BY <1>1, <2>1, <2>2 DEF Fits
  <2> QED
    BY <1>1, <1>4, <1>6, <1>7, <1>8, <2>3 DEF IInv, TypeOK, NobodyStranded, OfferType
<1>10. StartInv'
  <2>1. \A t \in Turn : at[t] \notin {"storing", "promoting", "preparing", "launching", "stuck"}
    BY <1>5 DEF IInv, StartInv, Starting
  <2>2. \A t \in Turn : at'[t] \notin {"storing", "promoting", "preparing", "launching", "stuck"}
    BY <1>6, <2>1
  <2> QED
    BY <2>2 DEF StartInv, Starting
<1>11. \A s \in Turn : s # r0 /\ shows[s] # None =>
         /\ end[s].stage = "booking" /\ at[shows[s]] = "running" /\ shows[s] # old
         /\ shows[s] # new /\ shows[s] \in Turn /\ at[s] \in {"running", "ended"} /\ s # new
         /\ s \notin live
  BY <1>3, <1>4, <1>5 DEF IInv, ShowInv, old
<1>12. ShowInv'
  <2>1. \A r, s \in Turn : shows'[r] = shows'[s] /\ shows'[r] # None => r = s
    BY <1>4, <1>7, <1>11 DEF IInv, ShowInv
  <2>2. ASSUME NEW r \in Turn, shows'[r] # None
        PROVE  /\ at'[shows'[r]] = "running" /\ at'[r] \in {"running", "ended"}
               /\ r \in live \/ end[r].stage \in {"waiting", "woken", "checking", "booking"}
               /\ end[r].stage = "booking" \/ active' = shows'[r]
    <3>1. CASE r = r0
      BY <1>1, <1>4, <1>5, <1>6, <1>7, <3>1
    <3>2. CASE r # r0
      <4>1. shows'[r] = shows[r] /\ shows[r] # None
        BY <1>7, <2>2, <3>2
      <4>2. end[r].stage = "booking" /\ at'[shows[r]] = "running"
        <5>1. /\ end[r].stage = "booking" /\ at[shows[r]] = "running" /\ shows[r] \in Turn
              /\ shows[r] # old /\ shows[r] # new
          BY <1>11, <3>2, <4>1
        <5> QED
          BY <1>6, <5>1
      <4>3. at'[r] \in {"running", "ended"}
        BY <1>6, <1>11, <3>2, <4>1
      <4> QED
        BY <4>1, <4>2, <4>3
    <3> QED
      BY <3>1, <3>2
  <2>3. ASSUME NEW r \in live PROVE shows'[r] # None /\ end[r].stage = "none"
    <3>1. r \in Turn /\ shows[r] # None /\ end[r].stage = "none"
      BY <1>3, <2>3 DEF IInv, ShowInv
    <3> QED
      BY <1>4, <1>7, <3>1
  <2> QED
    BY <1>1, <2>1, <2>2, <2>3 DEF ShowInv
<1>13. EndInv'
  <2> SUFFICES ASSUME NEW r \in Turn PROVE EndFits(r)'
    BY DEF EndInv
  <2>1. EndFits(r)
    BY DEF IInv, EndInv
  <2>2. \A t \in Turn : at[t] \in {"running", "ended"} => at'[t] \in {"running", "ended"}
    BY <1>4, <1>6
  <2>3. \A t \in Turn : at[t] = "ended" => at'[t] = "ended"
    BY <1>4, <1>5, <1>6
  <2>4. CASE r = r0
    <3>1. end[r].stage \in {"none", "waiting"}
      BY <1>4, <2>4 DEF IInv, ShowInv
    <3> QED
      BY <1>1, <1>4, <1>7, <2>1, <2>2, <2>4, <3>1 DEF EndFits
  <2>5. CASE r # r0
    <3>1. shows'[r] = shows[r]
      BY <1>7, <2>5
    <3>2. end[r].stage = "failing" => /\ end[r].turn \in Turn
                                      /\ \A s \in Turn : shows'[s] # end[r].turn
      BY <1>4, <1>7, <2>1 DEF EndFits
    <3> QED
      BY <1>1, <2>1, <2>2, <2>3, <3>1, <3>2 DEF EndFits
  <2> QED
    BY <2>4, <2>5
<1>14. OfferInv'
  BY <1>1, <1>4, <1>5, <1>6, <1>8 DEF OfferInv, Read, Readable, Launched
<1>15. GivenInv'
  <2>1. ~Read'
    BY <1>8 DEF Read
  <2> QED
    BY <1>1, <1>5, <1>6, <2>1 DEF IInv, GivenInv, new
<1>16. RunningInv'
  <2> SUFFICES ASSUME NEW t \in Turn, at'[t] = "running"
               PROVE  \E r \in Turn : shows'[r] = t \/ (end[r].stage = "failing" /\ end[r].turn = t)
    BY <1>1 DEF RunningInv
  <2>1. CASE t = new
    BY <1>4, <1>7, <2>1
  <2>2. CASE t # new
    <3>1. t # old /\ at[t] = "running"
      BY <1>6, <2>2
    <3>2. PICK r \in Turn : shows[r] = t \/ (end[r].stage = "failing" /\ end[r].turn = t)
      BY <3>1 DEF IInv, RunningInv
    <3> QED
      BY <1>7, <3>1, <3>2 DEF old
  <2> QED
    BY <2>1, <2>2
<1> QED
  BY <1>9, <1>10, <1>12, <1>13, <1>14, <1>15, <1>16 DEF IInv
--------------------------------------------------------------------------------
(* The end of a run *)

\* The record of an end is of its type, and no other record changes.
EndSet(r, e) ==
  /\ e \in EndType /\ end' = [end EXCEPT ![r] = e]

\* What an end's record is after a step.
LEMMA EndSetIs ==
  ASSUME IInv, NEW r \in Turn, NEW e, EndSet(r, e)
  PROVE  /\ end' \in [Turn -> EndType] /\ end'[r] = e
         /\ \A s \in Turn : s # r => end'[s] = end[s]
BY DEF EndSet, IInv, TypeOK, EndType

\* The agent stops working on a run: the message it took keeps its end waiting.
\* (#onEvent)
LEMMA AgentEndsStep ==
  ASSUME IInv, NEW r \in Turn, NEW kind \in {"completed", "broken"}, AgentEnds(r, kind)
  PROVE  IInv'
<1> USE NoneIsNoTurn
<1> DEFINE e == [NoEnd EXCEPT !.kind = kind, !.stage =
                   IF offer.stage = "none" THEN "woken" ELSE "waiting"]
<1>1. /\ UNCHANGED <<at, active, queue, paused, nextUp, missed, shows, given, held>>
      /\ r \in live /\ live' = live \ {r} /\ inStep' = [inStep EXCEPT ![r] = FALSE]
      /\ offer' = IF offer.stage = "taken" /\ offer.run = r
                  THEN [offer EXCEPT !.stage = "placing"] ELSE offer
      /\ end' = [end EXCEPT ![r] = e]
  BY DEF AgentEnds, waiting
<1>2. /\ e \in EndType /\ e.stage \in {"woken", "waiting"} /\ e.stage # "none" /\ e.kind = kind
      /\ offer.stage # "none" => e.stage = "waiting"
  BY DEF NoEnd, EndType
<1> HIDE DEF e
<1>3. end' \in [Turn -> EndType] /\ end'[r] = e /\ \A s \in Turn : s # r => end'[s] = end[s]
  BY <1>1, <1>2, EndSetIs DEF EndSet
<1>4. /\ offer' \in OfferType /\ offer'.turn = offer.turn /\ offer'.of = offer.of
      /\ offer'.run = offer.run /\ (offer' = offer \/ (Read /\ offer'.stage = "placing"))
  <2>1. offer \in OfferType
    BY DEF IInv, TypeOK, OfferType
  <2> QED
    BY <1>1, <2>1 DEF OfferType, Read
<1>5. TypeOK' /\ NobodyStranded' /\ StartInv'
  <2>1. TypeOK' /\ NobodyStranded'
    BY <1>1, <1>3, <1>4 DEF IInv, TypeOK, NobodyStranded, OfferType, EndType
  <2>2. StartInv'
    BY <1>1 DEF IInv, StartInv, Starting
  <2> QED
    BY <2>1, <2>2
<1>6. shows[r] # None /\ end[r].stage = "none" /\ at[r] \in {"running", "ended"} /\ active = shows[r]
  <2>1. shows[r] # None /\ end[r].stage = "none"
    BY <1>1 DEF IInv, ShowInv
  <2> QED
    BY <2>1 DEF IInv, ShowInv
<1>7. ShowInv'
  <2>1. ASSUME NEW s \in Turn, shows[s] # None
        PROVE  /\ s \in live' \/ end'[s].stage \in {"waiting", "woken", "checking", "booking"}
               /\ end'[s].stage = "booking" \/ active = shows[s]
    <3>1. CASE s = r
      BY <1>2, <1>3, <1>6, <3>1
    <3>2. CASE s # r
      BY <1>1, <1>3, <2>1, <3>2 DEF IInv, ShowInv
    <3> QED
      BY <3>1, <3>2
  <2>2. ASSUME NEW s \in live' PROVE shows[s] # None /\ end'[s].stage = "none"
    <3>1. s \in Turn /\ s # r /\ s \in live
      BY <1>1, <2>2 DEF IInv, TypeOK
    <3> QED
      BY <1>3, <3>1 DEF IInv, ShowInv
  <2>3. /\ \A s, u \in Turn : shows[s] = shows[u] /\ shows[s] # None => s = u
        /\ \A s \in Turn : shows[s] # None => at[shows[s]] = "running" /\ at[s] \in {"running", "ended"}
    BY DEF IInv, ShowInv
  <2> QED
    BY <1>1, <2>1, <2>2, <2>3 DEF ShowInv
<1>8. EndInv'
  <2> SUFFICES ASSUME NEW s \in Turn PROVE EndFits(s)'
    BY DEF EndInv
  <2>1. EndFits(s)
    BY DEF IInv, EndInv
  <2>2. CASE s = r
    BY <1>1, <1>2, <1>3, <1>6, <2>2 DEF EndFits
  <2>3. CASE s # r
    BY <1>1, <1>3, <2>1, <2>3 DEF EndFits
  <2> QED
    BY <2>2, <2>3
<1>9. OfferInv'
  <2>1. offer.stage # "none" =>
          /\ offer.turn \in Turn /\ offer.of \in Turn /\ offer.run \in Turn
          /\ at[offer.run] \in Launched
    BY DEF IInv, OfferInv
  <2>2. Read' = Read /\ (offer'.stage # "none" => offer.stage # "none")
    BY <1>4 DEF Read
  <2>3. Read => shows[offer.run] # None /\ (offer.run \in live' \/ end'[offer.run].stage = "waiting")
    <3>1. CASE offer.run = r
      BY <1>2, <1>3, <1>6, <3>1 DEF Read
    <3>2. CASE offer.run # r
      <4>1. Read => /\ shows[offer.run] # None /\ offer.run \in Turn
                    /\ offer.run \in live \/ end[offer.run].stage = "waiting"
        BY <2>1 DEF IInv, OfferInv, Read
      <4> QED
        BY <1>1, <1>3, <3>2, <4>1
    <3> QED
      BY <3>1, <3>2
  <2>4. Readable' => Readable
    BY <1>1, <1>4 DEF Readable, Read
  <2>5. Read \/ Readable => at[offer.turn] = "queued" /\ active = offer.of
    BY DEF IInv, OfferInv
  <2>6. active # None => at[active] \in Launched
    BY DEF IInv, OfferInv
  <2> QED
    BY <1>1, <1>4, <2>1, <2>2, <2>3, <2>4, <2>5, <2>6 DEF OfferInv
<1>10. GivenInv'
  <2>1. Read' = Read
    BY <1>4 DEF Read
  <2> QED
    BY <1>1, <1>4, <2>1 DEF IInv, GivenInv
<1>11. RunningInv'
  BY <1>1, <1>3, <1>6 DEF IInv, RunningInv
<1> QED
  BY <1>5, <1>7, <1>8, <1>9, <1>10, <1>11 DEF IInv

\* A step of an end that leaves the turns and who shows them alone.
LEMMA EndMoves ==
  ASSUME IInv, UNCHANGED <<at, active, queue, paused, nextUp, offer, missed, shows, inStep, live, given, held>>,
         NEW r \in Turn, NEW e, EndSet(r, e), EndFits(r)',
         r \notin live, end[r].stage # "waiting", end[r].stage # "failing",
         shows[r] # None => e.stage \in {"waiting", "woken", "checking"} /\ end[r].stage # "booking"
  PROVE  IInv'
<1>1. end' \in [Turn -> EndType] /\ end'[r] = e /\ \A s \in Turn : s # r => end'[s] = end[s]
  BY EndSetIs
<1>2. TypeOK' /\ NobodyStranded' /\ StartInv' /\ GivenInv'
  BY <1>1 DEF IInv, TypeOK, NobodyStranded, StartInv, Starting, GivenInv, Read, EndType
<1>3. ShowInv'
  <2>1. ASSUME NEW s \in Turn, shows[s] # None
        PROVE  /\ s \in live \/ end'[s].stage \in {"waiting", "woken", "checking", "booking"}
               /\ end'[s].stage = "booking" \/ active = shows[s]
    <3>1. CASE s = r
      BY <1>1, <2>1, <3>1 DEF IInv, ShowInv
    <3>2. CASE s # r
      BY <1>1, <2>1, <3>2 DEF IInv, ShowInv
    <3> QED
      BY <3>1, <3>2
  <2>2. ASSUME NEW s \in live PROVE shows[s] # None /\ end'[s].stage = "none"
    <3>1. s \in Turn /\ s # r
      BY <2>2 DEF IInv, TypeOK
    <3> QED
      BY <1>1, <2>2, <3>1 DEF IInv, ShowInv
  <2>3. /\ \A s, u \in Turn : shows[s] = shows[u] /\ shows[s] # None => s = u
        /\ \A s \in Turn : shows[s] # None => at[shows[s]] = "running" /\ at[s] \in {"running", "ended"}
    BY DEF IInv, ShowInv
  <2> QED
    BY <2>1, <2>2, <2>3 DEF ShowInv
<1>4. EndInv'
  <2> SUFFICES ASSUME NEW s \in Turn PROVE EndFits(s)'
    BY DEF EndInv
  <2>1. CASE s = r
    BY <2>1
  <2>2. CASE s # r
    <3>1. EndFits(s)
      BY DEF IInv, EndInv
    <3> QED
      BY <1>1, <2>2, <3>1 DEF EndFits
  <2> QED
    BY <2>1, <2>2
<1>5. OfferInv'
  BY <1>1 DEF IInv, OfferInv, Read, Readable
<1>6. RunningInv'
  BY <1>1 DEF IInv, RunningInv
<1> QED
  BY <1>2, <1>3, <1>4, <1>5, <1>6 DEF IInv

\* An end is reported once more, of a turn that has ended. (#onEvent)
LEMMA AgentEndsAgainStep ==
  ASSUME IInv, NEW r \in Turn, AgentEndsAgain(r)
  PROVE  IInv'
<1> DEFINE e == [NoEnd EXCEPT !.stage = IF offer.stage = "none" THEN "woken" ELSE "waiting"]
<1>1. /\ UNCHANGED <<at, active, queue, paused, nextUp, offer, missed, shows, inStep, live, given, held>>
      /\ r \notin live /\ at[r] = "ended" /\ end[r].stage = "none" /\ end' = [end EXCEPT ![r] = e]
  BY DEF AgentEndsAgain, waiting, offering, agent
<1>2. e \in EndType /\ e.stage \in {"woken", "waiting"} /\ e.kind = "completed"
  BY DEF NoEnd, EndType
<1> HIDE DEF e
<1>3. shows[r] = None
  BY <1>1 DEF IInv, ShowInv
<1>4. EndSet(r, e)
  BY <1>1, <1>2 DEF EndSet
<1>5. EndFits(r)'
  BY <1>1, <1>2, <1>4, EndSetIs DEF EndFits
<1> QED
  BY <1>1, <1>3, <1>4, <1>5, EndMoves

\* A turn's end leaves the thread idle, nothing being on its way to the agent,
\* and is booked next. (#onEvent)
LEMMA EndFrees ==
  ASSUME IInv, UNCHANGED <<at, queue, paused, nextUp, offer, missed, shows, inStep, live, given>>,
         NEW r \in Turn, NEW e, EndSet(r, e), r \notin live,
         end[r].stage \in {"woken", "checking"}, shows[r] # None,
         e.stage = "booking", e.turn = shows[r], active' = None, held' \subseteq Turn
  PROVE  IInv'
<1> USE NoneIsNoTurn
<1>1. end' \in [Turn -> EndType] /\ end'[r] = e /\ \A s \in Turn : s # r => end'[s] = end[s]
  BY EndSetIs
<1>2. /\ shows[r] \in Turn /\ at[shows[r]] = "running" /\ at[r] \in {"running", "ended"}
      /\ active = shows[r]
  BY DEF IInv, ShowInv, TypeOK
<1>3. \A t \in Turn : at[t] \notin {"preparing", "launching", "stuck"}
  BY <1>2 DEF IInv, StartInv
<1>4. \A s \in Turn : s # r /\ shows[s] # None => end[s].stage = "booking" /\ s \notin live
  BY <1>2 DEF IInv, ShowInv
<1>5. TypeOK' /\ NobodyStranded'
  BY <1>1 DEF IInv, TypeOK, NobodyStranded, EndType
<1>6. StartInv'
  BY <1>3 DEF IInv, StartInv, Starting
<1>7. ShowInv'
  <2>1. ASSUME NEW s \in Turn, shows[s] # None PROVE end'[s].stage = "booking"
    BY <1>1, <1>4, <2>1
  <2>2. ASSUME NEW s \in live PROVE FALSE
    BY <1>4, <2>2 DEF IInv, ShowInv, TypeOK
  <2>3. /\ \A s, u \in Turn : shows[s] = shows[u] /\ shows[s] # None => s = u
        /\ \A s \in Turn : shows[s] # None => at[shows[s]] = "running" /\ at[s] \in {"running", "ended"}
    BY DEF IInv, ShowInv
  <2> QED
    BY <2>1, <2>2, <2>3 DEF ShowInv
<1>8. EndInv'
  <2> SUFFICES ASSUME NEW s \in Turn PROVE EndFits(s)'
    BY DEF EndInv
  <2>1. CASE s = r
    BY <1>1, <1>2, <2>1 DEF EndFits
  <2>2. CASE s # r
    <3>1. EndFits(s)
      BY DEF IInv, EndInv
    <3> QED
      BY <1>1, <2>2, <3>1 DEF EndFits
  <2> QED
    BY <2>1, <2>2
<1>9. ~Read /\ ~Readable'
  <2>1. ~Read
    <3>1. Read => /\ shows[offer.run] # None /\ offer.run \in Turn
                  /\ offer.run \in live \/ end[offer.run].stage = "waiting"
      BY DEF IInv, OfferInv, Read
    <3> QED
      BY <1>4, <3>1
  <2>2. ASSUME NEW s \in live PROVE FALSE
    BY <1>4, <2>2 DEF IInv, ShowInv, TypeOK
  <2>3. offer.stage = "offered" => offer.run \in Turn
    BY DEF IInv, OfferInv
  <2> QED
    BY <1>3, <2>1, <2>2, <2>3 DEF Readable
<1>10. OfferInv'
  BY <1>9 DEF IInv, OfferInv, Read
<1>11. GivenInv'
  BY DEF IInv, GivenInv, Read
<1>12. RunningInv'
  BY <1>1 DEF IInv, RunningInv
<1> QED
  BY <1>5, <1>6, <1>7, <1>8, <1>10, <1>11, <1>12 DEF IInv

\* The event's turn is named; after an error or a stop the thread is idle.
\* (#onEvent, turn_error, turn_aborted)
LEMMA EndTakenStep ==
  ASSUME IInv, NEW r \in Turn, EndTaken(r)
  PROVE  IInv'
<1> USE NoneIsNoTurn
<1> DEFINE stage == IF end[r].kind = "completed" THEN "checking" ELSE "booking"
           e == [end[r] EXCEPT !.stage = stage, !.turn = TurnOf(r)]
<1>1. /\ UNCHANGED <<at, queue, paused, nextUp, offer, missed, shows, inStep, live, given>>
      /\ end[r].stage = "woken" /\ end[r] \in EndType /\ shows[r] \in Turn \cup {None}
      /\ held' \in {held, {}, Range(queue)}
  BY DEF EndTaken, HeldBack, waiting, offering, agent, IInv, TypeOK, EndType
<1>2. TurnOf(r) \in Turn
  BY <1>1 DEF TurnOf
<1>3. /\ e \in EndType /\ e.kind = end[r].kind /\ e.turn = TurnOf(r)
      /\ e.stage = stage /\ end[r].kind \in {"completed", "broken"}
  BY <1>1, <1>2 DEF EndType
<1>4. /\ end' = [end EXCEPT ![r] = e]
      /\ end[r].kind = "completed" => UNCHANGED <<active, held>>
      /\ end[r].kind = "broken" => active' = None
  BY <1>1, <1>3 DEF EndTaken, IInv, TypeOK
<1> HIDE DEF e
<1>5. EndSet(r, e)
  BY <1>3, <1>4 DEF EndSet
<1>6. r \notin live
  BY <1>1 DEF IInv, ShowInv
<1>7. shows[r] # None \/ (at[r] = "ended" /\ end[r].kind = "completed")
  BY <1>1 DEF IInv, EndInv, EndFits
<1>8. held' \subseteq Turn
  <2>1. Range(queue) \subseteq Turn /\ held \subseteq Turn
    BY DEF IInv, TypeOK, Range
  <2> QED
    BY <1>1, <2>1
<1>9. CASE end[r].kind = "completed"
  <2>1. e.stage = "checking"
    BY <1>3, <1>9
  <2>2. at[r] \in {"running", "ended"}
    BY <1>1 DEF IInv, EndInv, EndFits
  <2>3. \/ shows[r] # None /\ shows[r] = e.turn
        \/ shows[r] = None /\ e.turn = r /\ at[r] = "ended"
    BY <1>3, <1>7 DEF TurnOf
  <2>4. EndFits(r)'
    BY <1>1, <1>2, <1>3, <1>5, <2>1, <2>2, <2>3, EndSetIs DEF EndFits
  <2> QED
    BY <1>1, <1>4, <1>5, <1>6, <1>9, <2>1, <2>4, EndMoves
<1>10. CASE end[r].kind = "broken"
  <2>1. shows[r] # None /\ e.turn = shows[r] /\ e.stage = "booking"
    BY <1>3, <1>7, <1>10 DEF TurnOf
  <2> QED
    BY <1>1, <1>4, <1>5, <1>6, <1>8, <1>10, <2>1, EndFrees
<1> QED
  BY <1>3, <1>9, <1>10

\* A turn ends once. (#hasEnded)
LEMMA EndCheckedStep ==
  ASSUME IInv, NEW r \in Turn, EndChecked(r)
  PROVE  IInv'
<1> USE NoneIsNoTurn
<1>1. /\ UNCHANGED <<at, queue, paused, nextUp, offer, missed, shows, inStep, live, given, held>>
      /\ end[r].stage = "checking" /\ end[r] \in EndType
      /\ held \subseteq Turn
  BY DEF EndChecked, waiting, offering, agent, IInv, TypeOK, EndType
<1>2. end[r].turn \in Turn /\ (shows[r] = end[r].turn \/ (shows[r] = None /\ at[end[r].turn] = "ended"))
  BY <1>1 DEF IInv, EndInv, EndFits
<1>3. r \notin live
  BY <1>1 DEF IInv, ShowInv
<1>4. shows[r] # None => at[shows[r]] = "running"
  BY DEF IInv, ShowInv
<1>5. CASE at[end[r].turn] \in {"ended", "cancelled"}
  <2>1. /\ end' = [end EXCEPT ![r] = NoEnd] /\ active' = active /\ shows[r] = None
        /\ NoEnd \in EndType /\ NoEnd.stage = "none"
    BY <1>2, <1>4, <1>5 DEF EndChecked, NoEnd, EndType
  <2>2. EndSet(r, NoEnd)
    BY <2>1 DEF EndSet
  <2>3. EndFits(r)'
    BY <2>1, <2>2, EndSetIs DEF EndFits
  <2> QED
    BY <1>1, <1>3, <2>1, <2>2, <2>3, EndMoves
<1>6. CASE at[end[r].turn] \notin {"ended", "cancelled"}
  <2> DEFINE e == [end[r] EXCEPT !.stage = "booking"]
  <2>1. e \in EndType /\ e.stage = "booking" /\ e.turn = end[r].turn
    BY <1>1 DEF EndType
  <2>2. end' = [end EXCEPT ![r] = e] /\ active' = None
    BY <1>6 DEF EndChecked, IInv, TypeOK
  <2> HIDE DEF e
  <2>3. EndSet(r, e) /\ shows[r] # None /\ e.turn = shows[r]
    BY <1>2, <1>6, <2>1, <2>2 DEF EndSet
  <2> QED
    BY <1>1, <1>3, <2>1, <2>2, <2>3, EndFrees
<1> QED
  BY <1>5, <1>6

\* The end is written: nobody shows the turn any more. (completeTurn, #forgetRun)
LEMMA BookedStep ==
  ASSUME IInv, NEW r \in Turn, Booked(r)
  PROVE  IInv'
<1> USE NoneIsNoTurn
<1> DEFINE t0 == end[r].turn
           e == [end[r] EXCEPT !.stage = "settling"]
<1>1. /\ UNCHANGED <<active, queue, paused, nextUp, offer, missed, inStep, live, given, held>>
      /\ end[r].stage = "booking" /\ end[r] \in EndType
      /\ at' = [at EXCEPT ![t0] = "ended"] /\ shows' = [shows EXCEPT ![r] = None]
      /\ end' = [end EXCEPT ![r] = e]
  BY DEF Booked, Moved, waiting, offering, IInv, TypeOK, EndType
<1>2. t0 \in Turn /\ shows[r] = t0 /\ shows \in [Turn -> Turn \cup {None}] /\ at[t0] = "running"
  <2>1. t0 \in Turn /\ shows[r] = t0
    BY <1>1 DEF IInv, EndInv, EndFits
  <2> QED
    BY <2>1 DEF IInv, ShowInv, TypeOK
<1>3. e \in EndType /\ e.stage = "settling"
  BY <1>1 DEF EndType
<1> HIDE DEF e, t0
<1>4. end' \in [Turn -> EndType] /\ end'[r] = e /\ \A s \in Turn : s # r => end'[s] = end[s]
  BY <1>1, <1>3, EndSetIs DEF EndSet
<1>5. Fits(at', queue') /\ at' \in [Turn -> Position]
  BY <1>1, <1>2, OtherFits DEF Position
<1>6. /\ at'[t0] = "ended" /\ \A t \in Turn : t # t0 => at'[t] = at[t]
      /\ shows'[r] = None /\ \A s \in Turn : s # r => shows'[s] = shows[s] /\ shows[s] # t0
      /\ shows' \in [Turn -> Turn \cup {None}]
  BY <1>1, <1>2, <1>5, QueueFits DEF IInv, ShowInv
<1>7. TypeOK' /\ NobodyStranded'
  BY <1>1, <1>4, <1>5, <1>6 DEF IInv, TypeOK, NobodyStranded, Fits, EndType
<1>8. \A t \in Turn : /\ at[t] \in {"running", "ended"} => at'[t] \in {"running", "ended"}
                      /\ at[t] = "ended" => at'[t] = "ended"
                      /\ at'[t] # "ended" => at'[t] = at[t]
  BY <1>6
<1>9. StartInv'
  <2>1. Starting' \subseteq Starting
    BY <1>8 DEF Starting
  <2>2. \A t \in Turn : at'[t] \in {"preparing", "launching", "stuck"} =>
                         at[t] \in {"preparing", "launching", "stuck"}
    BY <1>8
  <2> QED
    BY <1>1, <2>1, <2>2, StartShrinks
<1>10. ShowInv'
  <2>1. ASSUME NEW s \in Turn, shows'[s] # None
        PROVE  /\ at'[shows'[s]] = "running" /\ at'[s] \in {"running", "ended"}
               /\ s \in live \/ end'[s].stage \in {"waiting", "woken", "checking", "booking"}
               /\ end'[s].stage = "booking" \/ active = shows'[s]
    <3>1. s # r /\ shows'[s] = shows[s] /\ shows[s] # t0 /\ shows[s] \in Turn /\ end'[s] = end[s]
      BY <1>2, <1>4, <1>6, <2>1
    <3>2. /\ at[shows[s]] = "running" /\ at[s] \in {"running", "ended"}
          /\ s \in live \/ end[s].stage \in {"waiting", "woken", "checking", "booking"}
          /\ end[s].stage = "booking" \/ active = shows[s]
      BY <2>1, <3>1 DEF IInv, ShowInv
    <3> QED
      BY <1>6, <1>8, <3>1, <3>2
  <2>2. ASSUME NEW s \in live PROVE shows'[s] # None /\ end'[s].stage = "none"
    <3>1. s \in Turn /\ shows[s] # None /\ end[s].stage = "none"
      BY <2>2 DEF IInv, ShowInv, TypeOK
    <3> QED
      BY <1>1, <1>4, <1>6, <3>1
  <2>3. \A s, u \in Turn : shows'[s] = shows'[u] /\ shows'[s] # None => s = u
    BY <1>6 DEF IInv, ShowInv
  <2> QED
    BY <1>1, <2>1, <2>2, <2>3 DEF ShowInv
<1>11. EndInv'
  <2> SUFFICES ASSUME NEW s \in Turn PROVE EndFits(s)'
    BY DEF EndInv
  <2>1. EndFits(s)
    BY DEF IInv, EndInv
  <2>2. CASE s = r
    <3>1. at[r] \in {"running", "ended"}
      BY <1>1, <2>1, <2>2 DEF EndFits
    <3> QED
      BY <1>3, <1>4, <1>6, <1>8, <2>2, <3>1 DEF EndFits
  <2>3. CASE s # r
    <3>1. end'[s] = end[s] /\ shows'[s] = shows[s]
      BY <1>4, <1>6, <2>3
    <3>2. end[s].stage = "failing" => \A u \in Turn : shows'[u] # end[s].turn
      BY <1>6, <2>1 DEF EndFits
    <3> QED
      BY <1>8, <2>1, <3>1, <3>2 DEF EndFits
  <2> QED
    BY <2>2, <2>3
<1>12. OfferInv'
  <2>1. \A t \in Turn : at[t] \in Launched => at'[t] \in Launched
    BY <1>8 DEF Launched
  <2>2. /\ active # None => active \in Turn /\ at[active] \in Launched
        /\ offer.stage # "none" =>
             /\ offer.turn \in Turn /\ offer.of \in Turn /\ offer.run \in Turn
             /\ at[offer.run] \in Launched
    BY DEF IInv, OfferInv, TypeOK
  <2>3. Readable' => Readable
    BY <1>1, <1>8, <2>2 DEF Readable
  <2>4. Read => shows'[offer.run] # None /\ (offer.run \in live \/ end'[offer.run].stage = "waiting")
    <3>1. Read => /\ shows[offer.run] # None /\ offer.run \in Turn
                  /\ offer.run \in live \/ end[offer.run].stage = "waiting"
      BY DEF IInv, OfferInv, Read
    <3>2. r \notin live
      BY <1>1 DEF IInv, ShowInv
    <3> QED
      BY <1>1, <1>4, <1>6, <3>1, <3>2
  <2>5. Read \/ Readable => at'[offer.turn] = "queued" /\ active = offer.of
    <3>1. Read \/ Readable => offer.turn \in Turn /\ at[offer.turn] = "queued" /\ active = offer.of
      BY DEF IInv, OfferInv, Read, Readable
    <3> QED
      BY <1>2, <1>6, <3>1
  <2> QED
    BY <1>1, <2>1, <2>2, <2>3, <2>4, <2>5 DEF OfferInv, Read
<1>13. GivenInv'
  BY <1>1, <1>8 DEF IInv, GivenInv, Read
<1>14. RunningInv'
  <2> SUFFICES ASSUME NEW t \in Turn, at'[t] = "running"
               PROVE  \E s \in Turn : shows'[s] = t \/ (end'[s].stage = "failing" /\ end'[s].turn = t)
    BY DEF RunningInv
  <2>1. t # t0 /\ at[t] = "running"
    BY <1>6
  <2>2. PICK s \in Turn : shows[s] = t \/ (end[s].stage = "failing" /\ end[s].turn = t)
    BY <2>1 DEF IInv, RunningInv
  <2>3. s # r
    BY <1>1, <1>2, <2>1, <2>2
  <2> QED
    BY <1>4, <1>6, <2>2, <2>3
<1> QED
  BY <1>7, <1>9, <1>10, <1>11, <1>12, <1>13, <1>14 DEF IInv

\* The end could not be written, and nothing else was started meanwhile: the
\* turn is to be failed. (#onEvent's catch)
LEMMA BookFailsStep ==
  ASSUME IInv, SafeSchedules, NEW r \in Turn, BookFails(r)
  PROVE  IInv'
<1> USE NoneIsNoTurn
<1> DEFINE t0 == end[r].turn
           e == [end[r] EXCEPT !.stage = "failing"]
<1>1. /\ UNCHANGED <<at, active, queue, paused, nextUp, offer, missed, inStep, live, given>>
      /\ end[r].stage = "booking" /\ end[r] \in EndType /\ held' \in {held, {}, Range(queue)}
      /\ shows' = [shows EXCEPT ![r] = None] /\ end' = [end EXCEPT ![r] = e]
  BY DEF BookFails, HeldBack, SafeSchedules, waiting, offering, IInv, TypeOK, EndType
<1>2. t0 \in Turn /\ shows[r] = t0 /\ shows \in [Turn -> Turn \cup {None}] /\ at[t0] = "running"
  <2>1. t0 \in Turn /\ shows[r] = t0
    BY <1>1 DEF IInv, EndInv, EndFits
  <2> QED
    BY <2>1 DEF IInv, ShowInv, TypeOK
<1>3. e \in EndType /\ e.stage = "failing" /\ e.turn = t0
  BY <1>1 DEF EndType
<1> HIDE DEF e, t0
<1>4. end' \in [Turn -> EndType] /\ end'[r] = e /\ \A s \in Turn : s # r => end'[s] = end[s]
  BY <1>1, <1>3, EndSetIs DEF EndSet
<1>5. /\ shows'[r] = None /\ \A s \in Turn : s # r => shows'[s] = shows[s] /\ shows[s] # t0
      /\ shows' \in [Turn -> Turn \cup {None}]
  BY <1>1, <1>2 DEF IInv, ShowInv
<1>6. TypeOK' /\ NobodyStranded' /\ StartInv' /\ GivenInv'
  <2>1. Range(queue) \subseteq Turn
    BY DEF IInv, TypeOK, Range
  <2>2. TypeOK' /\ NobodyStranded'
    BY <1>1, <1>4, <1>5, <2>1 DEF IInv, TypeOK, NobodyStranded, EndType
  <2> QED
    BY <1>1, <2>2 DEF IInv, StartInv, Starting, GivenInv, Read
<1>7. ShowInv'
  <2>1. ASSUME NEW s \in Turn, shows'[s] # None
        PROVE  /\ at[shows'[s]] = "running" /\ at[s] \in {"running", "ended"}
               /\ s \in live \/ end'[s].stage \in {"waiting", "woken", "checking", "booking"}
               /\ end'[s].stage = "booking" \/ active = shows'[s]
    <3>1. s # r /\ shows'[s] = shows[s] /\ end'[s] = end[s]
      BY <1>4, <1>5, <2>1
    <3> QED
      BY <2>1, <3>1 DEF IInv, ShowInv
  <2>2. ASSUME NEW s \in live PROVE shows'[s] # None /\ end'[s].stage = "none"
    <3>1. s \in Turn /\ shows[s] # None /\ end[s].stage = "none"
      BY <2>2 DEF IInv, ShowInv, TypeOK
    <3> QED
      BY <1>1, <1>4, <1>5, <3>1
  <2>3. \A s, u \in Turn : shows'[s] = shows'[u] /\ shows'[s] # None => s = u
    BY <1>5 DEF IInv, ShowInv
  <2> QED
    BY <1>1, <2>1, <2>2, <2>3 DEF ShowInv
<1>8. EndInv'
  <2> SUFFICES ASSUME NEW s \in Turn PROVE EndFits(s)'
    BY DEF EndInv
  <2>1. EndFits(s)
    BY DEF IInv, EndInv
  <2>2. CASE s = r
    <3>1. at[r] \in {"running", "ended"}
      BY <1>1, <2>1, <2>2 DEF EndFits
    <3>2. \A u \in Turn : shows'[u] # t0
      BY <1>2, <1>5
    <3> QED
      BY <1>1, <1>2, <1>3, <1>4, <1>5, <2>2, <3>1, <3>2 DEF EndFits
  <2>3. CASE s # r
    <3>1. end'[s] = end[s] /\ shows'[s] = shows[s]
      BY <1>4, <1>5, <2>3
    <3>2. end[s].stage = "failing" => end[s].turn \in Turn /\ \A u \in Turn : shows'[u] # end[s].turn
      BY <1>5, <2>1 DEF EndFits
    <3> QED
      BY <1>1, <2>1, <3>1, <3>2 DEF EndFits
  <2> QED
    BY <2>2, <2>3
<1>9. OfferInv'
  <2>1. Read => shows'[offer.run] # None /\ (offer.run \in live \/ end'[offer.run].stage = "waiting")
    <3>1. Read => /\ shows[offer.run] # None /\ offer.run \in Turn
                  /\ offer.run \in live \/ end[offer.run].stage = "waiting"
      BY DEF IInv, OfferInv, Read
    <3>2. r \notin live
      BY <1>1 DEF IInv, ShowInv
    <3> QED
      BY <1>1, <1>4, <1>5, <3>1, <3>2
  <2> QED
    BY <1>1, <2>1 DEF IInv, OfferInv, Read, Readable
<1>10. RunningInv'
  <2> SUFFICES ASSUME NEW t \in Turn, at[t] = "running"
               PROVE  \E s \in Turn : shows'[s] = t \/ (end'[s].stage = "failing" /\ end'[s].turn = t)
    BY <1>1 DEF RunningInv
  <2>1. CASE t = t0
    BY <1>3, <1>4, <2>1
  <2>2. CASE t # t0
    <3>1. PICK s \in Turn : shows[s] = t \/ (end[s].stage = "failing" /\ end[s].turn = t)
      BY DEF IInv, RunningInv
    <3>2. s # r
      BY <1>1, <1>2, <2>2, <3>1
    <3> QED
      BY <1>4, <1>5, <3>1, <3>2
  <2> QED
    BY <2>1, <2>2
<1> QED
  BY <1>6, <1>7, <1>8, <1>9, <1>10 DEF IInv

\* The turn is failed, and the queue held. (#onEvent's catch, failTurn)
LEMMA BookFailedStep ==
  ASSUME IInv, NEW r \in Turn, BookFailed(r)
  PROVE  IInv'
<1> USE NoneIsNoTurn
<1> DEFINE t0 == end[r].turn
<1>1. /\ UNCHANGED <<active, queue, nextUp, offer, missed, shows, inStep, live, given, held>>
      /\ end[r].stage = "failing" /\ paused' \in BOOLEAN
      /\ at' = [at EXCEPT ![t0] = "ended"] /\ end' = [end EXCEPT ![r] = NoEnd]
      /\ NoEnd \in EndType /\ NoEnd.stage = "none"
  BY DEF BookFailed, Pause, Moved, offering, agent, IInv, TypeOK, NoEnd, EndType
<1>2. t0 \in Turn /\ at[t0] \in {"running", "ended"} /\ \A s \in Turn : shows[s] # t0
  BY <1>1 DEF IInv, EndInv, EndFits
<1> HIDE DEF t0
<1>3. end' \in [Turn -> EndType] /\ end'[r] = NoEnd /\ \A s \in Turn : s # r => end'[s] = end[s]
  BY <1>1, EndSetIs DEF EndSet
<1>4. Fits(at', queue') /\ at' \in [Turn -> Position]
  BY <1>1, <1>2, OtherFits DEF Position
<1>5. at'[t0] = "ended" /\ \A t \in Turn : t # t0 => at'[t] = at[t]
  BY <1>1, <1>2, QueueFits
<1>6. TypeOK' /\ NobodyStranded'
  BY <1>1, <1>3, <1>4 DEF IInv, TypeOK, NobodyStranded, Fits, EndType
<1>7. \A t \in Turn : /\ at[t] \in {"running", "ended"} => at'[t] \in {"running", "ended"}
                      /\ at[t] = "ended" => at'[t] = "ended"
                      /\ at'[t] # "ended" => at'[t] = at[t]
  BY <1>5
<1>8. StartInv'
  <2>1. Starting' \subseteq Starting
    BY <1>7 DEF Starting
  <2>2. \A t \in Turn : at'[t] \in {"preparing", "launching", "stuck"} =>
                         at[t] \in {"preparing", "launching", "stuck"}
    BY <1>7
  <2> QED
    BY <1>1, <2>1, <2>2, StartShrinks
<1>9. ShowInv'
  <2>1. ASSUME NEW s \in Turn, shows[s] # None
        PROVE  /\ at'[shows[s]] = "running" /\ at'[s] \in {"running", "ended"}
               /\ s \in live \/ end'[s].stage \in {"waiting", "woken", "checking", "booking"}
               /\ end'[s].stage = "booking" \/ active = shows[s]
    <3>1. /\ at[shows[s]] = "running" /\ at[s] \in {"running", "ended"}
          /\ s \in live \/ end[s].stage \in {"waiting", "woken", "checking", "booking"}
          /\ end[s].stage = "booking" \/ active = shows[s]
      BY <2>1 DEF IInv, ShowInv
    <3>2. shows[s] \in Turn /\ shows[s] # t0
      BY <1>2, <2>1 DEF IInv, TypeOK
    <3>3. end'[s] = end[s]
      <4>1. s # r
        BY <1>1, <2>1 DEF IInv, EndInv, EndFits
      <4> QED
        BY <1>3, <4>1
    <3> QED
      BY <1>5, <1>7, <3>1, <3>2, <3>3
  <2>2. ASSUME NEW s \in live PROVE shows[s] # None /\ end'[s].stage = "none"
    <3>1. s \in Turn /\ shows[s] # None /\ end[s].stage = "none"
      BY <2>2 DEF IInv, ShowInv, TypeOK
    <3> QED
      BY <1>1, <1>3, <3>1
  <2>3. \A s, u \in Turn : shows[s] = shows[u] /\ shows[s] # None => s = u
    BY DEF IInv, ShowInv
  <2> QED
    BY <1>1, <2>1, <2>2, <2>3 DEF ShowInv
<1>10. EndInv'
  <2> SUFFICES ASSUME NEW s \in Turn PROVE EndFits(s)'
    BY DEF EndInv
  <2>1. CASE s = r
    BY <1>1, <1>3, <2>1 DEF EndFits
  <2>2. CASE s # r
    <3>1. EndFits(s) /\ end'[s] = end[s]
      BY <1>3, <2>2 DEF IInv, EndInv
    <3> QED
      BY <1>1, <1>7, <3>1 DEF EndFits
  <2> QED
    BY <2>1, <2>2
<1>11. OfferInv'
  <2>1. \A t \in Turn : at[t] \in Launched => at'[t] \in Launched
    BY <1>7 DEF Launched
  <2>2. /\ active # None => active \in Turn /\ at[active] \in Launched
        /\ offer.stage # "none" =>
             /\ offer.turn \in Turn /\ offer.of \in Turn /\ offer.run \in Turn
             /\ at[offer.run] \in Launched
    BY DEF IInv, OfferInv, TypeOK
  <2>3. Readable' => Readable
    BY <1>1, <1>7, <2>2 DEF Readable
  <2>4. Read => shows[offer.run] # None /\ (offer.run \in live \/ end'[offer.run].stage = "waiting")
    <3>1. Read => /\ shows[offer.run] # None /\ offer.run \in Turn
                  /\ offer.run \in live \/ end[offer.run].stage = "waiting"
      BY DEF IInv, OfferInv, Read
    <3> QED
      BY <1>1, <1>3, <3>1
  <2>5. Read \/ Readable => at'[offer.turn] = "queued" /\ active = offer.of
    <3>1. Read \/ Readable => offer.turn \in Turn /\ at[offer.turn] = "queued" /\ active = offer.of
      BY DEF IInv, OfferInv, Read, Readable
    <3> QED
      BY <1>2, <1>5, <3>1
  <2> QED
    BY <1>1, <2>1, <2>2, <2>3, <2>4, <2>5 DEF OfferInv, Read
<1>12. GivenInv'
  BY <1>1, <1>7 DEF IInv, GivenInv, Read
<1>13. RunningInv'
  <2> SUFFICES ASSUME NEW t \in Turn, at'[t] = "running"
               PROVE  \E s \in Turn : shows[s] = t \/ (end'[s].stage = "failing" /\ end'[s].turn = t)
    BY <1>1 DEF RunningInv
  <2>1. t # t0 /\ at[t] = "running"
    BY <1>5
  <2>2. PICK s \in Turn : shows[s] = t \/ (end[s].stage = "failing" /\ end[s].turn = t)
    BY <2>1 DEF IInv, RunningInv
  <2> QED
    BY <1>3, <2>1, <2>2 DEF t0
<1> QED
  BY <1>6, <1>8, <1>9, <1>10, <1>11, <1>12, <1>13 DEF IInv
--------------------------------------------------------------------------------
(* The theorems *)

\* No message was sent: nothing is queued, running or offered.
LEMMA StartsWell == Init => IInv
<1> SUFFICES ASSUME Init PROVE IInv
  OBVIOUS
<1> USE NoneIsNoTurn DEF Init
<1>1. TypeOK
  <2>1. queue \in Seq(Turn) /\ IsInjective(queue)
    BY DEF IsInjective
  <2>2. offer \in OfferType /\ end \in [Turn -> EndType]
    BY DEF OfferType, EndType, NoOffer, NoEnd
  <2> QED
    BY <2>1, <2>2 DEF TypeOK, Position, OfferType, EndType
<1>2. NobodyStranded
  BY DEF NobodyStranded, Range
<1>3. StartInv /\ ShowInv
  BY DEF StartInv, Starting, ShowInv
<1>4. EndInv /\ OfferInv /\ GivenInv /\ RunningInv
  BY DEF EndInv, EndFits, OfferInv, GivenInv, RunningInv, Read, Readable, NoEnd, NoOffer
<1> QED
  BY <1>1, <1>2, <1>3, <1>4 DEF IInv

\* Every step of the manager, of the agent and of the person keeps the invariant.
LEMMA StepsKeep == IInv /\ SafeSchedules /\ [Next]_vars => IInv'
<1> SUFFICES ASSUME IInv, SafeSchedules, [Next]_vars PROVE IInv'
  OBVIOUS
<1>1. ASSUME NEW t \in Turn, TurnStep(t) PROVE IInv'
  BY <1>1, StoreStep, ParkStep, HandStep, StartFailsStep, LeaveStep DEF TurnStep
<1>2. ASSUME NEW t \in Turn, Send(t) \/ StartThrows(t) \/ CancelQueued(t) \/ SendNow(t) PROVE IInv'
  BY <1>2, SendStep, LeaveStep, CancelQueuedStep, SendNowStep
<1>3. ASSUME NEW r \in Turn, EndStep(r) PROVE IInv'
  BY <1>3, EndTakenStep, EndCheckedStep, BookedStep, BookFailsStep, BookFailedStep, SettleStep DEF EndStep
<1>4. ASSUME NEW r \in Turn, StepStarts(r) \/ StepEnds(r) \/ AgentEndsAgain(r) PROVE IInv'
  BY <1>4, StepStartsStep, StepEndsStep, AgentEndsAgainStep
<1>5. ASSUME NEW r \in Turn, NEW kind \in {"completed", "broken"}, AgentEnds(r, kind) PROVE IInv'
  BY <1>5, AgentEndsStep
<1>6. CASE OfferStep
  BY <1>6, AgentReadsStep, OfferTakenStep, ReleaseStep, HandOffStep DEF OfferStep
<1>7. CASE Resume \/ Clear
  BY <1>7, ResumeStep, ClearStep
<1>8. CASE UNCHANGED vars
  <2>1. UNCHANGED <<at, active, queue, paused, nextUp, offer, missed, shows, inStep, live, given, end, held>>
    BY <1>8 DEF vars, waiting, offering, agent
  <2>2. TypeOK' /\ NobodyStranded' /\ StartInv' /\ ShowInv'
    BY <2>1 DEF IInv, TypeOK, NobodyStranded, StartInv, Starting, ShowInv
  <2>3. EndInv' /\ OfferInv' /\ GivenInv' /\ RunningInv'
    BY <2>1 DEF IInv, EndInv, EndFits, OfferInv, GivenInv, RunningInv, Read, Readable
  <2> QED
    BY <2>2, <2>3 DEF IInv
<1> QED
  BY <1>1, <1>2, <1>3, <1>4, <1>5, <1>6, <1>7, <1>8 DEF Next

\* On the safe schedules the invariant always holds, for any number of messages.
\* (AgentManager)
THEOREM Invariance == SafeSchedules /\ Spec => []IInv
<1> SUFFICES ASSUME SafeSchedules PROVE Spec => []IInv
  OBVIOUS
<1>1. IInv /\ [Next]_vars => IInv'
  BY StepsKeep
<1> QED
  BY StartsWell, <1>1, PTL DEF Spec

\* Every variable keeps its type and no message is in the queue twice, however
\* the requests and the agent's events interleave. (#queueByThread)
THEOREM TurnTypes == SafeSchedules /\ Spec => []TypeOK
<1>1. IInv => TypeOK
  BY DEF IInv
<1> QED
  BY Invariance, <1>1, PTL

\* No message is left queued in the store and forgotten by the manager, nor the
\* other way round. (#enqueueTurn, #drainQueue, #handOff, clearQueue)
THEOREM NobodyIsStranded == SafeSchedules /\ Spec => []NobodyStranded
<1>1. IInv => NobodyStranded
  BY DEF IInv
<1> QED
  BY Invariance, <1>1, PTL

\* The agent reads no message twice: one that it took at a pause is not run from
\* the queue as well, even when the run ended meanwhile. (#steer, #onEvent)
THEOREM NeverGivenTwice == SafeSchedules /\ Spec => []NeverTwice
<1>1. IInv => NeverTwice
  BY DEF IInv, GivenInv, NeverTwice
<1> QED
  BY Invariance, <1>1, PTL

\* The bridge drives one turn at a time, if it never starts one over another
\* that is on its way: sendTurn's promise, given what it assumes. (sendTurn)
THEOREM OneTurnAtATime == SafeSchedules /\ Spec => []OneTurn
<1>1. ASSUME IInv PROVE OneTurn
  <2> USE <1>1, NoneIsNoTurn
  <2>1. \A r, s \in live : r = s
    BY DEF IInv, ShowInv, TypeOK
  <2>2. \A t \in Driven : t = active
    BY DEF IInv, ShowInv, StartInv, TypeOK, Driven
  <2>3. \A S : (\A x, y \in S : x = y) => Cardinality(S) <= 1
    <3> SUFFICES ASSUME NEW S, \A x, y \in S : x = y PROVE Cardinality(S) <= 1
      OBVIOUS
    <3>1. CASE S = {}
      BY <3>1, FS_EmptySet
    <3>2. CASE S # {}
      <4>1. PICK x \in S : S = {x}
        BY <3>2
      <4> QED
        BY <4>1, FS_Singleton
    <3> QED
      BY <3>1, <3>2
  <2> QED
    BY <2>1, <2>2, <2>3 DEF OneTurn
<1> QED
  BY Invariance, <1>1, PTL

\* What a working run says is shown under the active turn, and a turn that shows
\* as running has a run that will end it. (#handOff, #forgetRun, #onEvent)
THEOREM AlwaysShown == SafeSchedules /\ Spec => []Shown
<1>1. ASSUME IInv PROVE Shown
  <2> USE <1>1, NoneIsNoTurn
  <2>1. \A r \in live : at[shows[r]] = "running" /\ active = shows[r]
    BY DEF IInv, ShowInv, TypeOK
  <2>2. ASSUME NEW t \in Turn, at[t] = "running"
        PROVE  \E r \in Turn : \/ shows[r] = t /\ (r \in live \/ end[r].stage # "none")
                               \/ end[r].stage = "failing" /\ end[r].turn = t
    <3>1. PICK r \in Turn : shows[r] = t \/ (end[r].stage = "failing" /\ end[r].turn = t)
      BY <2>2 DEF IInv, RunningInv
    <3> QED
      BY <3>1 DEF IInv, ShowInv
  <2> QED
    BY <2>1, <2>2 DEF Shown
<1> QED
  BY Invariance, <1>1, PTL

\* What is withdrawn stays so, and the queue with its pause, when neither moves.
LEMMA PauseStays ==
  ASSUME PauseInv, UNCHANGED <<paused, queue>>, Delivering' \in {Delivering, None},
         \A t \in Turn : at[t] = "cancelling" => at'[t] = "cancelling"
  PROVE  PauseInv'
BY DEF PauseInv, PausedMeansWaiting

\* Nothing is held at first, and every step keeps a pause behind something, on
\* the schedules where a stop's pause does not come late. (#pauseQueue)
LEMMA PauseKept ==
  ASSUME IInv, SafeSchedules, "late_pause" \notin Windows, PauseInv, [Next]_vars
  PROVE  PauseInv'
<1> USE NoneIsNoTurn
<1>0. at \in [Turn -> Position] /\ offer \in OfferType /\ paused \in BOOLEAN
  BY DEF IInv, TypeOK, OfferType
<1>1. ASSUME NEW t \in Turn, Send(t) \/ Store(t) \/ Begin(t) \/ StartFails(t) \/ StartThrows(t) \/ Hand(t)
      PROVE  PauseInv'
  <2>1. /\ UNCHANGED <<paused, queue, offer>> /\ at[t] # "cancelling"
        /\ \E p \in Position : at' = [at EXCEPT ![t] = p]
    BY <1>1 DEF Send, Store, Begin, StartFails, StartThrows, Hand, Moved, waiting, offering, Position
  <2>2. \A u \in Turn : at[u] = "cancelling" => at'[u] = "cancelling"
    BY <1>0, <2>1
  <2> QED
    BY <2>1, <2>2, PauseStays DEF Delivering
<1>2. ASSUME NEW t \in Turn, Park(t) PROVE PauseInv'
  <2>1. /\ UNCHANGED <<paused, offer>> /\ Drain([at EXCEPT ![t] = "queued"], Append(queue, t), paused)
    BY <1>2 DEF Park, Moved, offering
  <2>2. paused => queue' # <<>>
    <3>1. paused => queue' = Append(queue, t)
      BY <2>1 DEF Drain
    <3>2. Append(queue, t) # <<>>
      BY <1>2, QueueFits, AppendFits DEF Park
    <3> QED
      BY <3>1, <3>2
  <2> QED
    BY <2>1, <2>2 DEF PauseInv, PausedMeansWaiting, Delivering
<1>3. ASSUME NEW t \in Turn, StartFailed(t) PROVE PauseInv'
  <2>1. /\ UNCHANGED <<queue, offer>> /\ Delivering = None /\ paused' = (paused \/ queue # <<>>)
        /\ at[t] = "failing" /\ at' = [at EXCEPT ![t] = "ended"]
    BY <1>3 DEF StartFailed, Pause, Moved, offering
  <2>2. \A u \in Turn : at[u] = "cancelling" => at'[u] = "cancelling"
    BY <1>0, <2>1
  <2> QED
    BY <2>1, <2>2 DEF PauseInv, PausedMeansWaiting, Delivering
<1>4. ASSUME NEW t \in Turn, Cancelled(t) PROVE PauseInv'
  BY <1>4 DEF Cancelled, PauseInv, PausedMeansWaiting, Delivering, offering, Moved
<1>5. ASSUME NEW t \in Turn, CancelQueued(t) PROVE PauseInv'
  <2>1. UNCHANGED <<paused, offer>> /\ at'[t] = "cancelling"
    BY <1>0, <1>5 DEF CancelQueued, Moved, offering
  <2> QED
    BY <2>1 DEF PauseInv, PausedMeansWaiting, Delivering
<1>6. ASSUME NEW t \in Turn, SendNow(t) PROVE PauseInv'
  <2>1. Foremost(t) # <<>>
    BY <1>0, <1>6, QueueFits, ForemostFits DEF SendNow
  <2>2. UNCHANGED offer /\ \/ paused' = paused /\ queue' = Foremost(t)
                           \/ paused' = FALSE
    BY <1>6 DEF SendNow, offering
  <2> QED
    BY <2>1, <2>2 DEF PauseInv, PausedMeansWaiting, Delivering
<1>7. ASSUME NEW r \in Turn, EndTaken(r) \/ EndChecked(r) \/ BookFails(r) \/ StepStarts(r) \/ AgentEndsAgain(r)
      PROVE  PauseInv'
  BY <1>7, PauseStays DEF EndTaken, EndChecked, BookFails, StepStarts, AgentEndsAgain, waiting, offering, Delivering
<1>8. ASSUME NEW r \in Turn, Booked(r) PROVE PauseInv'
  <2>1. end[r].turn \in Turn /\ at[end[r].turn] = "running"
    BY <1>8 DEF Booked, IInv, EndInv, EndFits, ShowInv
  <2>2. UNCHANGED <<paused, queue, offer>> /\ at' = [at EXCEPT ![end[r].turn] = "ended"]
    BY <1>8 DEF Booked, Moved, waiting, offering
  <2>3. \A u \in Turn : at[u] = "cancelling" => at'[u] = "cancelling"
    BY <1>0, <2>1, <2>2
  <2> QED
    BY <2>2, <2>3, PauseStays DEF Delivering
<1>9. ASSUME NEW r \in Turn, BookFailed(r) PROVE PauseInv'
  <2>1. /\ UNCHANGED <<queue, offer>> /\ Delivering = None /\ paused' = (paused \/ queue # <<>>)
        /\ at' = [at EXCEPT ![end[r].turn] = "ended"]
    BY <1>9 DEF BookFailed, Pause, Moved, offering
  <2>2. end[r].turn \in Turn /\ at[end[r].turn] \in {"running", "ended"}
    BY <1>9 DEF BookFailed, IInv, EndInv, EndFits
  <2>3. \A u \in Turn : at[u] = "cancelling" => at'[u] = "cancelling"
    BY <1>0, <2>1, <2>2
  <2> QED
    BY <2>1, <2>3 DEF PauseInv, PausedMeansWaiting, Delivering
<1>10. ASSUME NEW r \in Turn, Continue(r) PROVE PauseInv'
  <2>1. UNCHANGED <<paused, offer>> /\ (paused => at' = at /\ queue' = queue)
    BY <1>10 DEF Continue, Drain, offering
  <2> QED
    BY <2>1 DEF PauseInv, PausedMeansWaiting, Delivering
<1>11. ASSUME NEW r \in Turn, HoldOrSendNext(r) PROVE PauseInv'
  <2>1. UNCHANGED offer /\ \/ paused' = FALSE
                           \/ Delivering = None /\ paused' = (paused \/ queue # <<>>) /\ UNCHANGED <<at, queue>>
    BY <1>11 DEF HoldOrSendNext, Pause, offering
  <2> QED
    BY <2>1 DEF PauseInv, PausedMeansWaiting, Delivering
<1>12. ASSUME NEW r \in Turn, StepEnds(r) PROVE PauseInv'
  <2>1. UNCHANGED <<at, paused, queue>>
    BY <1>12 DEF StepEnds, waiting
  <2>2. CASE offer.stage = "none" /\ offer' \in Offers(inStep')
    BY <2>1, <2>2 DEF Offers, PauseInv, PausedMeansWaiting
  <2>3. CASE offer' = offer \/ (offer.stage = "taken" /\ offer' = [offer EXCEPT !.stage = "placing"])
    <3>1. Delivering' = Delivering
      BY <1>0, <2>3 DEF Delivering, OfferType
    <3> QED
      BY <2>1, <3>1, PauseStays
  <2> QED
    BY <1>12, <2>2, <2>3 DEF StepEnds
<1>13. ASSUME NEW r \in Turn, NEW kind \in {"completed", "broken"}, AgentEnds(r, kind) PROVE PauseInv'
  <2>1. /\ UNCHANGED <<at, paused, queue>>
        /\ offer' = offer \/ (offer.stage = "taken" /\ offer' = [offer EXCEPT !.stage = "placing"])
    BY <1>13 DEF AgentEnds, waiting
  <2>2. Delivering' = Delivering
    BY <1>0, <2>1 DEF Delivering, OfferType
  <2> QED
    BY <2>1, <2>2, PauseStays
<1>14. CASE AgentReads \/ OfferTaken
  <2>1. /\ UNCHANGED <<at, paused, queue>>
        /\ offer.stage \in {"offered", "read"}
        /\ \E p \in {"read", "taken", "placing"} : offer' = [offer EXCEPT !.stage = p]
    BY <1>14 DEF AgentReads, OfferTaken, waiting
  <2>2. Delivering' = Delivering
    BY <1>0, <2>1 DEF Delivering, OfferType
  <2> QED
    BY <2>1, <2>2, PauseStays
<1>15. CASE OfferRefused \/ HandedOff
  <2>1. /\ UNCHANGED <<at, paused, queue>>
        /\ offer' = NoOffer \/ offer' \in Offers(inStep)
    BY <1>15 DEF OfferRefused, HandedOff, Release, waiting
  <2>2. CASE offer' = NoOffer
    BY <2>1, <2>2, PauseStays DEF NoOffer, Delivering
  <2>3. CASE offer' \in Offers(inStep)
    BY <2>1, <2>3 DEF Offers, PauseInv, PausedMeansWaiting
  <2> QED
    BY <2>1, <2>2, <2>3
<1>16. CASE HandOff
  <2>1. UNCHANGED paused /\ Delivering = offer.turn /\ offer.turn \in Turn
    BY <1>16 DEF HandOff, Delivering, IInv, OfferInv
  <2> QED
    BY <2>1 DEF PauseInv, PausedMeansWaiting
<1>17. CASE Resume \/ Clear
  BY <1>17 DEF Resume, Clear, PauseInv, PausedMeansWaiting
<1>18. CASE UNCHANGED vars
  BY <1>18, PauseStays DEF vars, waiting, offering, Delivering
<1> QED
  BY <1>1, <1>2, <1>3, <1>4, <1>5, <1>6, <1>7, <1>8, <1>9, <1>10, <1>11, <1>12, <1>13,
     <1>14, <1>15, <1>16, <1>17, <1>18 DEF Next, TurnStep, EndStep, OfferStep

\* A queue is held only with something in it, or being withdrawn from it: the
\* person is never shown a pause that nothing lifts, if a stop's pause does not
\* come late. (#pauseQueue, #cancelQueuedTurn)
THEOREM PausesMeanWaiting ==
  SafeSchedules /\ "late_pause" \notin Windows /\ Spec => []PausedMeansWaiting
<1> SUFFICES ASSUME SafeSchedules, "late_pause" \notin Windows PROVE Spec => []PausedMeansWaiting
  OBVIOUS
<1>1. Init => PauseInv
  BY DEF Init, PauseInv, PausedMeansWaiting
<1>2. IInv /\ PauseInv /\ [Next]_vars => PauseInv'
  BY PauseKept
<1>3. PauseInv => PausedMeansWaiting
  BY DEF PauseInv
<1>4. Spec => []IInv
  BY Invariance
<1> QED
  BY <1>1, <1>2, <1>3, <1>4, PTL DEF Spec

\* What waited at a stop still waits: nothing runs or starts, no message is sent
\* now, and the queue is held or about to be.
Waits == \E t \in held : at[t] = "queued"
WaitInv ==
  Waits => /\ active = None /\ Starting = {} /\ nextUp \notin Range(queue)
           /\ paused \/ Stopping

\* The message sent now was sent, and is first as long as it is in the queue.
NextInv ==
  nextUp # None => /\ at[nextUp] \notin {"unsent", "storing", "parking"}
                   /\ nextUp \in Range(queue) => Head(queue) = nextUp

\* A queue that is not empty has its head in it, and nothing twice.
LEMMA HeadIs ==
  ASSUME NEW q \in Seq(Turn), q # <<>>
  PROVE  Head(q) \in Range(q) /\ Head(q) \in Turn
<1>1. Head(q) = q[1] /\ 1 \in DOMAIN q
  OBVIOUS
<1> QED
  BY <1>1 DEF Range

\* The first of the queue stays first when another leaves it.
LEMMA WithoutHead ==
  ASSUME queue \in Seq(Turn), queue # <<>>, NEW t \in Turn, t # Head(queue)
  PROVE  Head(Without(t)) = Head(queue)
<1>1. CASE t \notin Range(queue)
  BY <1>1 DEF Without
<1>2. CASE t \in Range(queue)
  <2>1. PICK i \in DOMAIN queue : queue[i] = t /\ Without(t) = RemoveAt(queue, i)
    BY <1>2 DEF Without, Range
  <2>2. i \in 2 .. Len(queue)
    BY <2>1
  <2> DEFINE a == SubSeq(queue, 1, i - 1)
             b == SubSeq(queue, i + 1, Len(queue))
  <2>3. a \in Seq(Turn) /\ Len(a) >= 1 /\ a[1] = queue[1]
    BY <2>2
  <2>4. b \in Seq(Turn)
    BY <2>2
  <2>5. Without(t) = a \o b
    BY <2>1 DEF RemoveAt
  <2> HIDE DEF a, b
  <2>6. Len(a \o b) >= 1 /\ (a \o b)[1] = a[1]
    BY <2>3, <2>4
  <2> QED
    BY <2>3, <2>4, <2>5, <2>6
<1> QED
  BY <1>1, <1>2

\* The message sent now keeps its place when the queue is drained.
LEMMA DrainNext ==
  ASSUME NEW f \in [Turn -> Position], NEW q, Fits(f, q), NEW p, Drain(f, q, p),
         NEW n \in Turn, f[n] \notin {"unsent", "storing", "parking"},
         n \in Range(q) => Head(q) = n
  PROVE  /\ at'[n] \notin {"unsent", "storing", "parking"}
         /\ n \in Range(queue') => Head(queue') = n
<1>1. CASE at' = f /\ queue' = q
  BY <1>1
<1>2. CASE q # <<>> /\ at' = [f EXCEPT ![Head(q)] = "promoting"] /\ queue' = Tail(q)
  <2>1. Fits(at', queue') /\ Head(q) \in Turn
    BY <1>2, TailFits
  <2>2. at'[Head(q)] = "promoting" /\ \A t \in Turn \ {Head(q)} : at'[t] = f[t]
    BY <1>2, <2>1
  <2>3. Head(q) \notin Range(queue')
    BY <2>1, <2>2 DEF Fits
  <2>4. n \in Range(queue') => n \in Range(q)
    BY <2>1, <2>2 DEF Fits
  <2> QED
    BY <2>2, <2>3, <2>4
<1> QED
  BY <1>1, <1>2 DEF Drain

\* No step changes the queue under the message sent now, or puts one before it.
LEMMA NextKept ==
  ASSUME IInv, NextInv, [Next]_vars
  PROVE  NextInv'
<1> USE NoneIsNoTurn
<1> DEFINE Before == {"unsent", "storing", "parking"}
<1>0. /\ at \in [Turn -> Position] /\ queue \in Seq(Turn) /\ nextUp \in Turn \cup {None}
      /\ Fits(at, queue)
  BY QueueFits DEF IInv, TypeOK
\* A step that leaves the queue alone and sends no turn back.
<1>a. ASSUME UNCHANGED queue, nextUp' \in {nextUp, None}, \A t \in Turn : at[t] \notin Before => at'[t] \notin Before
      PROVE  NextInv'
  BY <1>0, <1>a DEF NextInv
<1>b. ASSUME NEW f \in [Turn -> Position], NEW q, Fits(f, q), NEW p, Drain(f, q, p),
             nextUp' \in {nextUp, None}, nextUp # None => f[nextUp] \notin Before,
             nextUp # None /\ nextUp \in Range(q) => Head(q) = nextUp
      PROVE  NextInv'
  <2>1. CASE nextUp' = None
    BY <2>1 DEF NextInv
  <2>2. CASE nextUp' = nextUp /\ nextUp # None
    <3>1. /\ at'[nextUp] \notin Before
          /\ nextUp \in Range(queue') => Head(queue') = nextUp
      BY <1>0, <1>b, <2>2, DrainNext
    <3> QED
      BY <2>2, <3>1 DEF NextInv
  <2> QED
    BY <1>b, <2>1, <2>2
<1>1. ASSUME NEW t \in Turn,
             Send(t) \/ Store(t) \/ Begin(t) \/ StartFails(t) \/ StartThrows(t) \/ Hand(t) \/ StartFailed(t) \/ Cancelled(t)
      PROVE  NextInv'
  <2>1. /\ UNCHANGED <<queue, nextUp>>
        /\ \E p \in Position : at' = [at EXCEPT ![t] = p] /\ (at[t] \notin Before => p \notin Before)
    BY <1>1 DEF Send, Store, Begin, StartFails, StartThrows, Hand, StartFailed, Cancelled, Moved, waiting, Position
  <2>2. \A u \in Turn : at[u] \notin Before => at'[u] \notin Before
    BY <1>0, <2>1
  <2> QED
    BY <1>a, <2>1, <2>2
<1>2. ASSUME NEW t \in Turn, Park(t) PROVE NextInv'
  <2> DEFINE f == [at EXCEPT ![t] = "queued"]
             q == Append(queue, t)
  <2>1. at[t] = "parking" /\ UNCHANGED <<nextUp>> /\ Drain(f, q, paused)
    BY <1>2 DEF Park, Moved
  <2>2. Fits(f, q) /\ f \in [Turn -> Position]
    BY <1>0, <2>1, AppendFits DEF Position
  <2>3. nextUp # None => nextUp # t /\ f[nextUp] \notin Before
    BY <1>0, <2>1 DEF NextInv
  <2>4. nextUp # None /\ nextUp \in Range(q) => Head(q) = nextUp
    <3> SUFFICES ASSUME nextUp # None, nextUp \in Range(q) PROVE Head(q) = nextUp
      OBVIOUS
    <3>1. nextUp \in Range(queue)
      BY <1>0, <2>2, <2>3 DEF Fits
    <3>2. Head(queue) = nextUp /\ queue # <<>>
      BY <1>0, <3>1 DEF NextInv, Range
    <3>3. Head(q) = Head(queue)
      BY <1>0, <3>2
    <3> QED
      BY <3>2, <3>3
  <2> HIDE DEF f, q
  <2> QED
    BY <1>b, <2>1, <2>2, <2>3, <2>4
\* Turn t leaves the queue.
<1>c. ASSUME NEW t \in Turn, NEW p \in Position \ Before, queue' = Without(t), nextUp' = nextUp,
             at' = [at EXCEPT ![t] = p]
      PROVE  NextInv'
  <2>2. Range(queue') = Range(queue) \ {t}
    BY <1>0, <1>c, WithoutIs DEF Fits
  <2> SUFFICES ASSUME nextUp # None
               PROVE  at'[nextUp] \notin Before /\ (nextUp \in Range(queue') => Head(queue') = nextUp)
    BY <1>c DEF NextInv
  <2>3. at'[nextUp] \notin Before
    BY <1>0, <1>c DEF NextInv
  <2>4. ASSUME nextUp \in Range(queue') PROVE Head(queue') = nextUp
    <3>1. nextUp \in Range(queue) /\ Head(queue) = nextUp /\ t # nextUp
      BY <2>2, <2>4 DEF NextInv
    <3>2. queue # <<>>
      BY <1>0, <3>1 DEF Range
    <3> QED
      BY <1>0, <1>c, <3>1, <3>2, WithoutHead
  <2> QED
    BY <2>3, <2>4
<1>3. ASSUME NEW t \in Turn, CancelQueued(t) PROVE NextInv'
  BY <1>3, <1>c DEF CancelQueued, Moved, Position
<1>4. ASSUME NEW t \in Turn, SendNow(t) PROVE NextInv'
  <2>1. at[t] = "queued" /\ t \in Range(queue)
    BY <1>0, <1>4 DEF SendNow, Fits
  <2>2. PICK w \in Seq(Turn) : w = Without(t)
    BY <1>0, WithoutIs DEF Fits
  <2>3. /\ Foremost(t) # <<>> /\ Head(Foremost(t)) = t /\ Tail(Foremost(t)) = Without(t)
    <3>1. <<t>> \o w # <<>> /\ Head(<<t>> \o w) = t /\ Tail(<<t>> \o w) = w
      OBVIOUS
    <3> QED
      BY <2>2, <3>1 DEF Foremost
  <2>4. CASE active # None
    <3>1. UNCHANGED at /\ queue' = Foremost(t) /\ nextUp' \in {t, None}
      BY <1>4, <2>4 DEF SendNow
    <3> QED
      BY <2>1, <2>3, <3>1 DEF NextInv
  <2>5. CASE active = None
    <3>1. Drain(at, Foremost(t), FALSE) /\ UNCHANGED nextUp
      BY <1>4, <2>5 DEF SendNow
    <3>2. queue' = Without(t) /\ at' = [at EXCEPT ![t] = "promoting"]
      BY <2>3, <2>5, <3>1 DEF Drain
    <3> QED
      BY <1>c, <3>1, <3>2 DEF Position
  <2> QED
    BY <2>4, <2>5
<1>5. ASSUME NEW r \in Turn, Continue(r) \/ HoldOrSendNext(r) \/ Resume PROVE NextInv'
  <2>1. nextUp' \in {nextUp, None}
    BY <1>5 DEF Continue, HoldOrSendNext, Resume
  <2>2. UNCHANGED <<at, queue>> \/ \E p \in BOOLEAN : Drain(at, queue, p)
    <3>1. paused \in BOOLEAN
      BY DEF IInv, TypeOK
    <3> QED
      BY <1>5, <3>1 DEF Continue, HoldOrSendNext, Resume
  <2>3. CASE UNCHANGED <<at, queue>>
    BY <1>a, <2>1, <2>3
  <2>4. CASE \E p \in BOOLEAN : Drain(at, queue, p)
    <3>1. PICK p \in BOOLEAN : Drain(at, queue, p)
      BY <2>4
    <3>2. nextUp # None => at[nextUp] \notin Before /\ (nextUp \in Range(queue) => Head(queue) = nextUp)
      BY DEF NextInv
    <3> QED
      BY <1>0, <1>b, <2>1, <3>1, <3>2
  <2> QED
    BY <2>2, <2>3, <2>4
<1>6. CASE Clear
  <2>1. /\ queue' = <<>> /\ UNCHANGED nextUp
        /\ at' = [t \in Turn |-> IF t \in Range(queue) THEN "cancelled" ELSE at[t]]
    BY <1>6 DEF Clear
  <2>2. Range(queue') = {}
    BY <2>1 DEF Range
  <2> QED
    BY <1>0, <2>1, <2>2 DEF NextInv
<1>7. ASSUME NEW r \in Turn, Booked(r) \/ BookFailed(r) PROVE NextInv'
  <2>1. end[r].turn \in Turn /\ UNCHANGED <<queue, nextUp>> /\ at' = [at EXCEPT ![end[r].turn] = "ended"]
    BY <1>7 DEF Booked, BookFailed, Moved, waiting, IInv, EndInv, EndFits
  <2>2. \A u \in Turn : at[u] \notin Before => at'[u] \notin Before
    BY <1>0, <2>1
  <2> QED
    BY <1>a, <2>1, <2>2
<1>8. CASE HandOff
  <2>1. /\ offer.turn \in Turn /\ TurnOf(offer.run) \in Turn
        /\ UNCHANGED nextUp /\ queue' = Without(offer.turn)
        /\ at' = [at EXCEPT ![TurnOf(offer.run)] = "ended", ![offer.turn] = "running"]
    BY <1>8 DEF HandOff, IInv, OfferInv, Read, TurnOf, TypeOK
  <2>2. PICK t \in Turn : t = offer.turn
    BY <2>1
  <2>3. \A u \in Turn : at[u] \notin Before => at'[u] \notin Before
    BY <1>0, <2>1
  <2>4. Range(queue') = Range(queue) \ {t} /\ queue' = Without(t)
    BY <1>0, <2>1, <2>2, WithoutIs DEF Fits
  <2> SUFFICES ASSUME nextUp # None, nextUp \in Range(queue') PROVE Head(queue') = nextUp
    BY <1>0, <2>1, <2>3 DEF NextInv
  <2>5. nextUp \in Range(queue) /\ Head(queue) = nextUp /\ t # nextUp
    BY <2>1, <2>4 DEF NextInv
  <2>6. queue # <<>>
    BY <1>0, <2>5 DEF Range
  <2> QED
    BY <1>0, <2>4, <2>5, <2>6, WithoutHead
<1>9. ASSUME UNCHANGED <<at, queue, nextUp>> PROVE NextInv'
  BY <1>9 DEF NextInv
<1>10. ASSUME NEW r \in Turn, EndTaken(r) \/ EndChecked(r) \/ BookFails(r) \/ StepStarts(r) \/ StepEnds(r) \/ AgentEndsAgain(r)
       PROVE  NextInv'
  BY <1>9, <1>10 DEF EndTaken, EndChecked, BookFails, StepStarts, StepEnds, AgentEndsAgain, waiting
<1>11. ASSUME NEW r \in Turn, NEW kind \in {"completed", "broken"}, AgentEnds(r, kind) PROVE NextInv'
  BY <1>9, <1>11 DEF AgentEnds, waiting
<1>12. CASE AgentReads \/ OfferTaken \/ OfferRefused \/ HandedOff \/ UNCHANGED vars
  BY <1>9, <1>12 DEF AgentReads, OfferTaken, OfferRefused, HandedOff, waiting, vars
<1>13. CASE Resume
  <2>1. 1 \in Turn
    BY TurnAssumption DEF Turn
  <2> QED
    BY <1>5, <1>13, <2>1
<1> QED
  BY <1>1, <1>2, <1>3, <1>4, <1>5, <1>6, <1>7, <1>8, <1>10, <1>11, <1>12, <1>13
     DEF Next, TurnStep, EndStep, OfferStep

\* A stop whose pause is not set yet.
Stops(e) == (e.stage \in {"booking", "settling"} /\ e.kind = "broken") \/ e.stage = "failing"

\* It stays so in a step that takes none of these ends further.
LEMMA StoppingStays ==
  ASSUME Stopping,
         \A r \in Turn : Stops(end[r]) => Stops(end'[r]),
         \A t \in Turn : at[t] = "failing" => at'[t] = "failing"
  PROVE  Stopping'
BY DEF Stopping, Stops

\* What waits goes on waiting in a step that holds back no other turn, queues
\* none of them, and leaves the thread idle and the queue held or about to be.
LEMMA HeldStays ==
  ASSUME StopHolds, WaitInv, held' = held, held \subseteq Turn,
         \A t \in held : /\ at'[t] \in {"queued", "cancelling", "cancelled"}
                         /\ at'[t] = "queued" => at[t] = "queued",
         Waits => /\ active' = None /\ Starting' = {} /\ nextUp' \notin Range(queue')
                  /\ paused' \/ Stopping'
  PROVE  StopHolds' /\ WaitInv'
<1>1. StopHolds'
  BY DEF StopHolds
<1>2. Waits' => Waits
  BY DEF Waits
<1> QED
  BY <1>1, <1>2 DEF WaitInv

\* With a held turn in the queue it is not empty.
LEMMA WaitsQueue == IInv /\ Waits => queue # <<>>
<1> SUFFICES ASSUME IInv, Waits PROVE queue # <<>>
  OBVIOUS
<1>1. PICK t \in held : at[t] = "queued"
  BY DEF Waits
<1>2. t \in Range(queue)
  BY <1>1 DEF IInv, TypeOK, NobodyStranded
<1> QED
  BY <1>2 DEF Range

\* A stop over an idle thread holds back what is queued, all of it or nothing.
LEMMA StopHoldsBack ==
  ASSUME IInv, NextInv, held' = HeldBack, UNCHANGED <<queue, nextUp>>,
         active' = None, Starting' = {}, Stopping',
         \A t \in Turn : at[t] = "queued" => at'[t] = "queued"
  PROVE  StopHolds' /\ WaitInv'
<1> USE NoneIsNoTurn
<1>1. \A t \in held' : at'[t] = "queued"
  <2>1. held' \subseteq Range(queue) /\ Range(queue) \subseteq Turn
    BY DEF HeldBack, Range, IInv, TypeOK
  <2> QED
    BY <2>1 DEF IInv, NobodyStranded
<1>2. StopHolds'
  BY <1>1 DEF StopHolds
<1>3. Waits' => nextUp \notin Range(queue)
  <2>1. ASSUME held' # {}, nextUp \in Range(queue) PROVE FALSE
    <3>1. nextUp \in Turn
      BY <2>1 DEF Range, IInv, TypeOK
    <3>2. Head(queue) = nextUp
      BY <2>1, <3>1 DEF NextInv
    <3>3. queue # <<>>
      BY <2>1 DEF Range
    <3>4. HeldBack = {}
      BY <3>2, <3>3 DEF HeldBack
    <3> QED
      BY <2>1, <3>4
  <2> QED
    BY <2>1 DEF Waits
<1> QED
  BY <1>2, <1>3 DEF WaitInv

\* The queue moves on only with nothing held back in it.
LEMMA DrainHeld ==
  ASSUME StopHolds, WaitInv, held' = held, held \subseteq Turn,
         NEW f \in [Turn -> Position], NEW q, Fits(f, q), NEW p, Drain(f, q, p),
         \A t \in held : f[t] = at[t],
         Waits => p /\ active' = None /\ nextUp' \notin Range(q) /\ paused',
         \A t \in Turn : f[t] \in {"storing", "promoting"} => at[t] \in {"storing", "promoting"}
  PROVE  StopHolds' /\ WaitInv'
<1>1. CASE at' = f /\ queue' = q
  <2>1. \A t \in held : at'[t] \in {"queued", "cancelling", "cancelled"} /\ (at'[t] = "queued" => at[t] = "queued")
    BY <1>1 DEF StopHolds
  <2>2. Starting' \subseteq Starting
    BY <1>1 DEF Starting
  <2>3. Waits => active' = None /\ Starting' = {} /\ nextUp' \notin Range(queue') /\ (paused' \/ Stopping')
    BY <1>1, <2>2 DEF WaitInv
  <2> QED
    BY <2>1, <2>3, HeldStays
<1>2. CASE ~p /\ q # <<>> /\ at' = [f EXCEPT ![Head(q)] = "promoting"]
  <2>1. ~Waits
    BY <1>2
  <2>2. Head(q) \in Turn /\ f[Head(q)] = "queued"
    BY <1>2, TailFits
  <2>3. Head(q) \notin held
    BY <2>1, <2>2 DEF Waits
  <2>4. \A t \in held : at'[t] = at[t]
    BY <1>2, <2>2, <2>3
  <2>5. \A t \in held : at'[t] \in {"queued", "cancelling", "cancelled"} /\ (at'[t] = "queued" => at[t] = "queued")
    BY <2>4 DEF StopHolds
  <2> QED
    BY <2>1, <2>5, HeldStays
<1> QED
  BY <1>1, <1>2 DEF Drain

\* A stop holds the queue for good, on the schedules where nobody moves the
\* queue on between it and its pause; the pause itself may come late.
LEMMA HeldKept ==
  ASSUME IInv, SafeSchedules, "stop_race" \notin Windows, NextInv, StopHolds, WaitInv, [Next]_vars
  PROVE  StopHolds' /\ WaitInv'
<1> USE NoneIsNoTurn
<1> DEFINE HeldAt == {"queued", "cancelling", "cancelled"}
<1>0. /\ at \in [Turn -> Position] /\ end \in [Turn -> [stage : {"none", "waiting", "woken", "checking", "booking", "settling", "failing"},
                                                       kind : {"completed", "broken"}, turn : Turn \cup {None}]]
      /\ held \subseteq Turn /\ paused \in BOOLEAN /\ nextUp \in Turn \cup {None}
      /\ Fits(at, queue)
  BY QueueFits DEF IInv, TypeOK
<1>w. \A t \in held : at[t] \in HeldAt
  BY DEF StopHolds
\* Turn t, which is not held, moves on.
<1>a. ASSUME NEW t \in Turn, NEW p \in Position, at' = [at EXCEPT ![t] = p], held' = held, t \notin held,
             Waits => /\ active' = None /\ p \notin {"storing", "promoting"} /\ UNCHANGED <<queue, nextUp>>
                      /\ paused' \/ Stopping'
      PROVE  StopHolds' /\ WaitInv'
  <2>1. \A u \in held : at'[u] \in HeldAt /\ (at'[u] = "queued" => at[u] = "queued")
    BY <1>0, <1>w, <1>a
  <2>2. Waits => Starting' = {}
    BY <1>0, <1>a DEF WaitInv, Starting
  <2> QED
    BY <1>0, <1>a, <2>1, <2>2, HeldStays DEF WaitInv
\* No turn moves, and the pause stays or is on its way.
<1>b. ASSUME UNCHANGED <<at, queue, nextUp, held>>,
             Waits => active' = None /\ (paused' \/ Stopping')
      PROVE  StopHolds' /\ WaitInv'
  <2>1. Waits => Starting' = {}
    BY <1>b DEF WaitInv, Starting
  <2> QED
    BY <1>0, <1>w, <1>b, <2>1, HeldStays DEF WaitInv
<1>1. ASSUME NEW t \in Turn, Send(t) \/ Store(t) \/ Begin(t) \/ StartThrows(t) \/ Hand(t) PROVE StopHolds' /\ WaitInv'
  <2>1. t \notin held
    BY <1>1, <1>w DEF Send, Store, Begin, StartThrows, Hand
  <2>2. CASE Send(t)
    <3>1. Waits => queue # <<>>
      BY WaitsQueue
    <3>2. /\ at' = [at EXCEPT ![t] = "parking"] \/ (queue = <<>> /\ at' = [at EXCEPT ![t] = "storing"])
          /\ UNCHANGED <<active, queue, nextUp, paused, end, held>> /\ at[t] = "unsent"
      BY <2>2 DEF Send, Moved, waiting
    <3>3. Waits => paused' \/ Stopping'
      BY <1>0, <3>2, StoppingStays DEF WaitInv
    <3>4. PICK p \in Position : at' = [at EXCEPT ![t] = p] /\ (p = "parking" \/ queue = <<>>)
      BY <3>2 DEF Position
    <3> QED
      BY <1>a, <2>1, <3>1, <3>2, <3>3, <3>4 DEF WaitInv
  <2>3. CASE Store(t) \/ Begin(t) \/ StartThrows(t) \/ Hand(t)
    <3>1. t \in Starting \/ active = t
      BY <2>3 DEF Store, Begin, StartThrows, Hand, Starting, IInv, StartInv
    <3>2. ~Waits
      BY <3>1 DEF WaitInv
    <3>3. held' = held /\ \E p \in Position : at' = [at EXCEPT ![t] = p]
      BY <2>3 DEF Store, Begin, StartThrows, Hand, Moved, Position
    <3> QED
      BY <1>a, <2>1, <3>2, <3>3
  <2> QED
    BY <1>1, <2>2, <2>3
<1>2. ASSUME NEW t \in Turn, Park(t) PROVE StopHolds' /\ WaitInv'
  <2> DEFINE f == [at EXCEPT ![t] = "queued"]
             q == Append(queue, t)
  <2>1. at[t] = "parking" /\ UNCHANGED <<active, paused, nextUp, held>> /\ Drain(f, q, paused) /\ MayGoOn
    BY <1>2 DEF Park, Moved
  <2>2. Fits(f, q) /\ f \in [Turn -> Position] /\ \A u \in Turn : f[u] = "queued" <=> u \in Range(q)
    BY <1>0, <2>1, AppendFits DEF Position, Fits
  <2>3. t \notin held /\ nextUp # t
    BY <1>w, <2>1 DEF NextInv
  <2>4. \A u \in held : f[u] = at[u]
    BY <1>0, <2>3
  <2>5. Waits => paused /\ active = None /\ nextUp \notin Range(queue)
    BY <2>1, WaitsQueue DEF WaitInv, MayGoOn
  <2>6. nextUp \in Range(q) => nextUp \in Range(queue)
    <3>1. Range(q) \subseteq Turn
      BY <2>2 DEF Fits, Range
    <3> QED
      BY <1>0, <2>2, <2>3, <3>1 DEF Fits
  <2>7. \A u \in Turn : f[u] \in {"storing", "promoting"} => at[u] \in {"storing", "promoting"}
    BY <1>0
  <2> HIDE DEF f, q
  <2> QED
    BY <1>0, <2>1, <2>2, <2>4, <2>5, <2>6, <2>7, DrainHeld
<1>3. ASSUME NEW t \in Turn, StartFails(t) PROVE StopHolds' /\ WaitInv'
  <2>1. /\ at[t] \in {"promoting", "launching"} /\ at' = [at EXCEPT ![t] = "failing"]
        /\ active' = None /\ held' = HeldBack /\ UNCHANGED <<queue, nextUp, end>>
    BY <1>3 DEF StartFails, Moved, waiting
  <2>2. at'[t] = "failing" /\ \A u \in Turn \ {t} : at'[u] = at[u]
    BY <1>0, <2>1
  <2>3. \A u \in Starting : u = t
    <3>1. CASE at[t] = "promoting"
      BY <3>1 DEF Starting, IInv, StartInv
    <3>2. CASE at[t] = "launching"
      BY <3>2 DEF Starting, IInv, StartInv
    <3> QED
      BY <2>1, <3>1, <3>2
  <2>4. Starting' = {}
    BY <2>2, <2>3 DEF Starting
  <2>5. Stopping'
    BY <2>2 DEF Stopping
  <2>6. \A u \in Turn : at[u] = "queued" => at'[u] = "queued"
    BY <2>1, <2>2
  <2> QED
    BY <2>1, <2>4, <2>5, <2>6, StopHoldsBack
<1>4. ASSUME NEW t \in Turn, StartFailed(t) PROVE StopHolds' /\ WaitInv'
  <2>1. /\ at[t] = "failing" /\ at' = [at EXCEPT ![t] = "ended"] /\ paused' = (paused \/ queue # <<>>)
        /\ UNCHANGED <<active, queue, nextUp, held>>
    BY <1>4 DEF StartFailed, Moved, Pause
  <2>2. Waits => paused'
    BY <2>1, WaitsQueue
  <2>3. t \notin held
    BY <1>w, <2>1
  <2> QED
    BY <1>a, <2>1, <2>2, <2>3 DEF WaitInv, Position
<1>5. ASSUME NEW t \in Turn, Cancelled(t) \/ CancelQueued(t) PROVE StopHolds' /\ WaitInv'
  <2>1. /\ UNCHANGED <<active, nextUp, end, held>> /\ Range(queue') \subseteq Range(queue)
        /\ at[t] \in {"queued", "cancelling"}
        /\ \E p \in {"cancelling", "cancelled"} : at' = [at EXCEPT ![t] = p]
    BY <1>0, <1>5, WithoutIs DEF Cancelled, CancelQueued, Moved, Fits
  <2>2. Waits => paused' = paused
    BY <1>5, <1>0, WaitsQueue DEF Cancelled, CancelQueued
  <2>3. \A u \in Turn : at'[u] = at[u] \/ at'[u] \in {"cancelling", "cancelled"}
    BY <1>0, <2>1
  <2>4. \A u \in held : at'[u] \in HeldAt /\ (at'[u] = "queued" => at[u] = "queued")
    BY <1>0, <1>w, <2>3
  <2>5. Starting' \subseteq Starting
    BY <2>3 DEF Starting
  <2>6. \A u \in Turn : at[u] = "failing" => at'[u] = "failing"
    BY <1>0, <2>1
  <2>7. Waits => paused' \/ Stopping'
    BY <2>1, <2>2, <2>6, StoppingStays DEF WaitInv
  <2> QED
    BY <1>0, <2>1, <2>4, <2>5, <2>7, HeldStays DEF WaitInv
<1>6. ASSUME held' = {} PROVE StopHolds' /\ WaitInv'
  BY <1>6 DEF StopHolds, WaitInv, Waits
<1>7. ASSUME NEW t \in Turn, SendNow(t) PROVE StopHolds' /\ WaitInv'
  BY <1>6, <1>7 DEF SendNow
<1>8. CASE Resume \/ Clear
  BY <1>6, <1>8 DEF Resume, Clear
\* The end of run r goes on to what e says, and the thread stays idle.
<1>c. ASSUME NEW r \in Turn, NEW e, end' = [end EXCEPT ![r] = e], UNCHANGED <<at, queue, nextUp, paused, held>>,
             Stops(end[r]) => Stops(e), active' \in {active, None}
      PROVE  StopHolds' /\ WaitInv'
  <2>1. \A s \in Turn : Stops(end[s]) => Stops(end'[s])
    BY <1>0, <1>c
  <2>2. Waits => paused' \/ Stopping'
    BY <1>c, <2>1, StoppingStays DEF WaitInv
  <2> QED
    BY <1>b, <1>c, <2>2 DEF WaitInv
<1>9. ASSUME NEW r \in Turn, EndTaken(r) PROVE StopHolds' /\ WaitInv'
  <2>0. end[r].stage = "woken" /\ UNCHANGED <<at, queue, nextUp, paused>>
    BY <1>9 DEF EndTaken, waiting
  <2>1. CASE end[r].kind = "completed"
    <3>1. /\ end' = [end EXCEPT ![r].stage = "checking", ![r].turn = TurnOf(r)]
          /\ UNCHANGED <<active, held>>
      BY <1>9, <2>1 DEF EndTaken
    <3>2. end' = [end EXCEPT ![r] = [[end[r] EXCEPT !.stage = "checking"] EXCEPT !.turn = TurnOf(r)]]
      BY <1>0, <3>1
    <3> QED
      BY <1>c, <2>0, <2>1, <3>1, <3>2 DEF Stops
  <2>2. CASE end[r].kind = "broken"
    <3>1. /\ end' = [end EXCEPT ![r].stage = "booking", ![r].turn = TurnOf(r)]
          /\ active' = None /\ held' = HeldBack
      BY <1>9, <2>2 DEF EndTaken
    <3>2. shows[r] # None /\ active = shows[r]
      BY <2>0, <2>2 DEF IInv, EndInv, EndFits, ShowInv
    <3>3. Starting' = {}
      BY <2>0, <3>2 DEF Starting, IInv, StartInv
    <3>4. end'[r].stage = "booking" /\ end'[r].kind = "broken"
      BY <1>0, <2>2, <3>1
    <3>5. Stopping'
      BY <3>4 DEF Stopping
    <3> QED
      BY <2>0, <3>1, <3>3, <3>5, StopHoldsBack
  <2> QED
    BY <1>0, <2>1, <2>2
<1>10. ASSUME NEW r \in Turn, EndChecked(r) PROVE StopHolds' /\ WaitInv'
  <2>1. /\ end[r].stage = "checking" /\ UNCHANGED <<at, queue, nextUp, paused, held>> /\ active' \in {active, None}
        /\ \E e : end' = [end EXCEPT ![r] = e]
    <3>1. CASE at[end[r].turn] \in {"ended", "cancelled"}
      BY <1>10, <3>1 DEF EndChecked, waiting
    <3>2. CASE at[end[r].turn] \notin {"ended", "cancelled"}
      BY <1>0, <1>10, <3>2 DEF EndChecked, waiting
    <3> QED
      BY <3>1, <3>2
  <2> QED
    BY <1>c, <2>1 DEF Stops
<1>11. ASSUME NEW r \in Turn, Booked(r) PROVE StopHolds' /\ WaitInv'
  <2>1. end[r].turn \in Turn /\ at[end[r].turn] = "running"
    BY <1>11 DEF Booked, IInv, EndInv, EndFits, ShowInv
  <2>2. /\ end[r].stage = "booking" /\ at' = [at EXCEPT ![end[r].turn] = "ended"]
        /\ end' = [end EXCEPT ![r].stage = "settling"]
        /\ UNCHANGED <<active, queue, nextUp, paused, held>>
    BY <1>11 DEF Booked, Moved, waiting
  <2>3. \A s \in Turn : Stops(end[s]) => Stops(end'[s])
    BY <1>0, <2>2 DEF Stops
  <2>4. \A u \in Turn : at[u] = "failing" => at'[u] = "failing"
    BY <1>0, <2>1, <2>2
  <2>5. Waits => paused' \/ Stopping'
    BY <2>2, <2>3, <2>4, StoppingStays DEF WaitInv
  <2>6. end[r].turn \notin held
    BY <1>w, <2>1
  <2> QED
    BY <1>a, <2>1, <2>2, <2>5, <2>6 DEF WaitInv, Position
<1>12. ASSUME NEW r \in Turn, BookFails(r) PROVE StopHolds' /\ WaitInv'
  <2>1. /\ end[r].stage = "booking" /\ active = None /\ active' = None
        /\ end' = [end EXCEPT ![r].stage = "failing"]
        /\ UNCHANGED <<at, queue, nextUp, paused>>
    BY <1>12 DEF BookFails, waiting, SafeSchedules
  <2>2. Stopping'
    <3>1. end'[r].stage = "failing"
      BY <1>0, <2>1
    <3> QED
      BY <3>1 DEF Stopping
  <2>3. CASE held' = held
    BY <1>b, <2>1, <2>2, <2>3
  <2>4. CASE held' = HeldBack /\ Starting = {}
    <3>1. Starting' = {}
      BY <2>1, <2>4 DEF Starting
    <3> QED
      BY <2>1, <2>2, <2>4, <3>1, StopHoldsBack
  <2> QED
    BY <1>12, <2>3, <2>4 DEF BookFails
<1>13. ASSUME NEW r \in Turn, BookFailed(r) PROVE StopHolds' /\ WaitInv'
  <2>1. /\ at' = [at EXCEPT ![end[r].turn] = "ended"] /\ paused' = (paused \/ queue # <<>>)
        /\ UNCHANGED <<active, queue, nextUp, held>>
    BY <1>13 DEF BookFailed, Moved, Pause
  <2>2. end[r].turn \in Turn /\ at[end[r].turn] \in {"running", "ended"}
    BY <1>13 DEF BookFailed, IInv, EndInv, EndFits
  <2>3. Waits => paused'
    BY <2>1, WaitsQueue
  <2>4. end[r].turn \notin held
    BY <1>w, <2>2
  <2> QED
    BY <1>a, <2>1, <2>2, <2>3, <2>4 DEF WaitInv, Position
\* The queue moves on, or waits with its pause.
<1>d. ASSUME NEW p \in BOOLEAN, Drain(at, queue, p), UNCHANGED <<active, held>>, nextUp' \in {nextUp, None},
             Waits => p /\ paused'
      PROVE  StopHolds' /\ WaitInv'
  <2>1. None \notin Range(queue)
    BY <1>0 DEF Fits, Range
  <2>2. Waits => active' = None /\ nextUp' \notin Range(queue)
    BY <1>d, <2>1 DEF WaitInv
  <2> QED
    BY <1>0, <1>d, <2>2, DrainHeld
<1>14. ASSUME NEW r \in Turn, Continue(r) PROVE StopHolds' /\ WaitInv'
  <2>1. MayGoOn /\ Drain(at, queue, paused) /\ UNCHANGED <<active, paused, held>> /\ nextUp' = None
    BY <1>14 DEF Continue
  <2>2. Waits => paused
    BY <2>1, WaitsQueue DEF WaitInv, MayGoOn
  <2> QED
    BY <1>0, <1>d, <2>1, <2>2
<1>15. ASSUME NEW r \in Turn, HoldOrSendNext(r) PROVE StopHolds' /\ WaitInv'
  <2>0. UNCHANGED <<active, held>> /\ nextUp' = None
    BY <1>15 DEF HoldOrSendNext
  <2>1. CASE queue # <<>> /\ Head(queue) = nextUp
    <3>1. ~Waits
      BY <1>0, <2>1, HeadIs DEF WaitInv, Fits
    <3>2. Drain(at, queue, FALSE)
      BY <1>15, <2>1 DEF HoldOrSendNext
    <3> QED
      BY <1>d, <2>0, <3>1, <3>2
  <2>2. CASE ~(queue # <<>> /\ Head(queue) = nextUp)
    <3>1. paused' = (paused \/ queue # <<>>) /\ UNCHANGED <<at, queue>>
      BY <1>15, <2>2 DEF HoldOrSendNext, Pause
    <3>2. Waits => paused'
      BY <3>1, WaitsQueue
    <3>3. None \notin Range(queue)
      BY <1>0 DEF Fits, Range
    <3>4. Waits => Starting' = {}
      BY <3>1 DEF WaitInv, Starting
    <3> QED
      BY <1>0, <1>w, <2>0, <3>1, <3>2, <3>3, <3>4, HeldStays DEF WaitInv
  <2> QED
    BY <2>1, <2>2
<1>16. ASSUME NEW r \in Turn, NEW kind \in {"completed", "broken"}, AgentEnds(r, kind) PROVE StopHolds' /\ WaitInv'
  <2>1. end[r].stage = "none"
    BY <1>16 DEF AgentEnds, IInv, ShowInv
  <2>2. UNCHANGED <<at, active, queue, nextUp, paused, held>> /\ \E e : end' = [end EXCEPT ![r] = e]
    BY <1>16 DEF AgentEnds, waiting
  <2> QED
    BY <1>c, <2>1, <2>2 DEF Stops
<1>17. ASSUME NEW r \in Turn, AgentEndsAgain(r) PROVE StopHolds' /\ WaitInv'
  <2>1. end[r].stage = "none"
    BY <1>17 DEF AgentEndsAgain
  <2>2. UNCHANGED <<at, active, queue, nextUp, paused, held>> /\ \E e : end' = [end EXCEPT ![r] = e]
    BY <1>17 DEF AgentEndsAgain, waiting
  <2> QED
    BY <1>c, <2>1, <2>2 DEF Stops
<1>18. CASE OfferRefused \/ HandedOff
  <2>1. UNCHANGED <<at, active, queue, nextUp, paused, held>>
    BY <1>18 DEF OfferRefused, HandedOff, waiting
  <2>2. \A s \in Turn : Stops(end[s]) => Stops(end'[s])
    BY <1>18 DEF OfferRefused, HandedOff, Release, Stops
  <2>3. Waits => paused' \/ Stopping'
    BY <2>1, <2>2, StoppingStays DEF WaitInv
  <2> QED
    BY <1>b, <2>1, <2>3 DEF WaitInv
<1>19. CASE HandOff
  <2>1. /\ offer.stage = "placing" /\ active = offer.of /\ held' = held
        /\ at' = [at EXCEPT ![TurnOf(offer.run)] = "ended", ![offer.turn] = "running"]
    BY <1>19 DEF HandOff
  <2>2. /\ active # None /\ offer.turn \in Turn /\ at[offer.turn] = "queued"
        /\ offer.run \in Turn /\ TurnOf(offer.run) = shows[offer.run]
        /\ shows[offer.run] \in Turn /\ at[shows[offer.run]] = "running"
    BY <2>1 DEF IInv, OfferInv, Read, ShowInv, TurnOf, TypeOK
  <2>3. ~Waits
    BY <2>2 DEF WaitInv
  <2>4. \A u \in held : at[u] # "queued" /\ at'[u] = at[u]
    BY <1>0, <1>w, <2>1, <2>2, <2>3 DEF Waits
  <2> QED
    BY <1>0, <1>w, <2>1, <2>3, <2>4, HeldStays
<1>20. CASE AgentReads \/ OfferTaken \/ UNCHANGED vars \/ \E r \in Turn : StepStarts(r) \/ StepEnds(r)
  <2>1. UNCHANGED <<at, active, queue, nextUp, paused, end, held>>
    BY <1>20 DEF AgentReads, OfferTaken, StepStarts, StepEnds, vars, waiting
  <2>2. Waits => paused' \/ Stopping'
    BY <2>1, StoppingStays DEF WaitInv
  <2> QED
    BY <1>b, <2>1, <2>2 DEF WaitInv
<1> QED
  BY <1>1, <1>2, <1>3, <1>4, <1>5, <1>7, <1>8, <1>9, <1>10, <1>11, <1>12, <1>13, <1>14, <1>15,
     <1>16, <1>17, <1>18, <1>19, <1>20 DEF Next, TurnStep, EndStep, OfferStep

\* What waited when the agent was stopped or broke goes on waiting until the
\* person says otherwise, if nothing moves the queue on between the stop and its
\* pause. (#queuePausedByThread)
THEOREM StopsHold ==
  SafeSchedules /\ "stop_race" \notin Windows /\ Spec => []StopHolds
<1> SUFFICES ASSUME SafeSchedules, "stop_race" \notin Windows PROVE Spec => []StopHolds
  OBVIOUS
<1> DEFINE HeldInv == NextInv /\ StopHolds /\ WaitInv
<1>1. Init => HeldInv
  BY DEF Init, waiting, StopHolds, NextInv, WaitInv, Waits
<1>2. IInv /\ HeldInv /\ [Next]_vars => HeldInv'
  BY NextKept, HeldKept
<1>3. HeldInv => StopHolds
  OBVIOUS
<1>4. Spec => []IInv
  BY Invariance
<1> QED
  BY <1>1, <1>2, <1>3, <1>4, PTL DEF Spec
--------------------------------------------------------------------------------
(* That TurnQueue, for any number of messages and on the safe schedules, keeps *)
(* the promise of Conversation: each of its steps is one of Conversation's, or *)
(* changes nothing there.                                                      *)

\* What a step of TurnQueue has to be.
Phases == [t \in Turn |-> Phase(t)]
Stays == Phases' = Phases
Keeps == Stays \/ Promise!Next

\* Turn t is what a working run answers.
Answered(t) == \E r \in live : shows[r] = t

\* The phase of a turn, as its position and the runs tell it.
LEMMA PhaseIs ==
  ASSUME NEW t \in Turn
  PROVE  /\ at[t] \in {"unsent", "storing", "parking"} => Phase(t) = "unsent"
         /\ at[t] \in {"queued", "promoting"} => Phase(t) = "waiting"
         /\ at[t] \in {"cancelling", "cancelled"} => Phase(t) = "dropped"
         /\ at[t] \in {"preparing", "launching", "stuck"} => Phase(t) = "answering"
         /\ at[t] \in {"running", "failing", "ended"} =>
              Phase(t) = IF Answered(t) THEN "answering" ELSE "over"
BY DEF Phase, Answering, Answered

\* The same after a step.
LEMMA PhaseBecomes ==
  ASSUME NEW t \in Turn
  PROVE  /\ at'[t] \in {"unsent", "storing", "parking"} => Phase(t)' = "unsent"
         /\ at'[t] \in {"queued", "promoting"} => Phase(t)' = "waiting"
         /\ at'[t] \in {"cancelling", "cancelled"} => Phase(t)' = "dropped"
         /\ at'[t] \in {"preparing", "launching", "stuck"} => Phase(t)' = "answering"
         /\ at'[t] \in {"running", "failing", "ended"} =>
              Phase(t)' = IF Answered(t)' THEN "answering" ELSE "over"
BY DEF Phase, Answering, Answered

\* A turn that did not move, answered as before, keeps its phase.
LEMMA PhaseKept ==
  ASSUME NEW t \in Turn, at'[t] = at[t], Answered(t)' <=> Answered(t)
  PROVE  Phase(t)' = Phase(t)
BY DEF Phase, Answering, Answered

\* A step that changes no phase, and one that changes one turn's.
LEMMA StaysIs ==
  ASSUME \A t \in Turn : Phase(t)' = Phase(t)
  PROVE  Keeps
BY DEF Keeps, Stays, Phases

LEMMA MoveIs ==
  ASSUME NEW t \in Turn, \A u \in Turn : u # t => Phase(u)' = Phase(u)
  PROVE  /\ Phase(t) = "unsent" /\ Phase(t)' = "waiting" => Keeps
         /\ Phase(t) \in {"waiting", "answering"} /\ Phase(t)' = "over" => Keeps
         /\ Phase(t) = "waiting" /\ Phase(t)' = "dropped" => Keeps
         /\ (\A u \in Turn : Phase(u) # "answering") /\ Phase(t) \in {"unsent", "waiting"}
              /\ Phase(t)' = "answering" => Keeps
<1>1. ASSUME NEW p, Phase(t)' = p PROVE Phases' = [Phases EXCEPT ![t] = p]
  BY <1>1 DEF Phases
<1>2. Phases[t] = Phase(t) /\ \A u \in Turn : Phases[u] = Phase(u)
  BY DEF Phases
<1>3. ASSUME Phase(t) = "unsent", Phase(t)' = "waiting" PROVE Keeps
  <2>1. Promise!Wait(t)
    BY <1>1, <1>2, <1>3 DEF Promise!Wait, Promise!Move, Phases
  <2> QED
    BY <2>1 DEF Keeps, Promise!Next
<1>4. ASSUME Phase(t) \in {"waiting", "answering"}, Phase(t)' = "over" PROVE Keeps
  <2>1. Promise!Finish(t)
    BY <1>1, <1>2, <1>4 DEF Promise!Finish, Promise!Move, Phases
  <2> QED
    BY <2>1 DEF Keeps, Promise!Next
<1>5. ASSUME Phase(t) = "waiting", Phase(t)' = "dropped" PROVE Keeps
  <2>1. Promise!Withdraw({t})
    BY <1>2, <1>5 DEF Promise!Withdraw, Phases
  <2> QED
    BY <2>1 DEF Keeps, Promise!Next
<1>6. ASSUME \A u \in Turn : Phase(u) # "answering", Phase(t) \in {"unsent", "waiting"},
             Phase(t)' = "answering"
      PROVE  Keeps
  <2>1. Promise!Answer(t)
    BY <1>1, <1>2, <1>6 DEF Promise!Answer, Promise!Idle, Promise!Move, Phases
  <2> QED
    BY <2>1 DEF Keeps, Promise!Next
<1> QED
  BY <1>3, <1>4, <1>5, <1>6
--------------------------------------------------------------------------------
\* A working run answers a turn that shows as running, and each its own.
LEMMA AnsweredIs ==
  ASSUME IInv
  PROVE  /\ \A t \in Turn : Answered(t) => at[t] = "running" /\ active = t
         /\ \A r \in Turn : shows[r] # None => shows[r] \in Turn
         /\ \A r, s \in Turn : shows[r] = shows[s] /\ shows[r] # None => r = s
         /\ \A r \in live : r \in Turn /\ shows[r] # None /\ shows[r] \in Turn
         /\ at \in [Turn -> Position]
BY DEF IInv, TypeOK, ShowInv, Answered

\* While a turn is on its way, and nothing is active, the agent answers none.
LEMMA IdleWhileStarting ==
  ASSUME IInv, NEW t \in Turn, at[t] \in {"storing", "promoting"}
  PROVE  \A u \in Turn : Phase(u) # "answering"
<1> USE NoneIsNoTurn
<1>1. active = None
  BY DEF IInv, StartInv, Starting
<1>2. \A u \in Turn : ~Answered(u) /\ at[u] \notin {"preparing", "launching", "stuck"}
  BY <1>1, AnsweredIs DEF IInv, StartInv
<1> QED
  BY <1>2, AnsweredIs, PhaseIs DEF Position

\* Steps of the queue and of the offer, and those of an end that write nothing.
LEMMA QuietStep ==
  ASSUME IInv, UNCHANGED <<live, shows>>,
         \A t \in Turn : at'[t] = at[t] \/ (at[t] = "queued" /\ at'[t] = "promoting")
  PROVE  Keeps
<1>1. ASSUME NEW t \in Turn PROVE Phase(t)' = Phase(t)
  <2>1. CASE at'[t] = at[t]
    BY <2>1, PhaseKept DEF Answered
  <2>2. CASE at[t] = "queued" /\ at'[t] = "promoting"
    BY <2>2, PhaseIs, PhaseBecomes
  <2> QED
    BY <2>1, <2>2
<1> QED
  BY <1>1, StaysIs

\* A step of one turn, to position p, that touches no run.
LEMMA OneMoves ==
  ASSUME IInv, UNCHANGED <<live, shows>>, NEW t \in Turn, NEW p, at' = [at EXCEPT ![t] = p]
  PROVE  /\ at'[t] = p /\ Answered(t)' <=> Answered(t)
         /\ \A u \in Turn : u # t => Phase(u)' = Phase(u)
<1>1. at'[t] = p /\ \A u \in Turn : u # t => at'[u] = at[u]
  BY AnsweredIs
<1>2. \A u \in Turn : Answered(u)' <=> Answered(u)
  BY DEF Answered
<1> QED
  BY <1>1, <1>2, PhaseKept
--------------------------------------------------------------------------------
(* One lemma for each kind of step *)

\* A message is sent, starts, waits, fails to start. (sendTurn, #drainQueue)
LEMMA TurnKeeps ==
  ASSUME IInv, SafeSchedules, NEW t \in Turn,
         TurnStep(t) \/ Send(t) \/ StartThrows(t) \/ CancelQueued(t) \/ SendNow(t)
  PROVE  Keeps
<1> USE NoneIsNoTurn, QueueFits
<1>1. CASE Send(t)
  <2>1. PICK p \in {"parking", "storing"} : at[t] = "unsent" /\ at' = [at EXCEPT ![t] = p]
    BY <1>1 DEF Send, Moved
  <2>2. UNCHANGED <<live, shows>>
    BY <1>1 DEF Send, agent
  <2>3. Phase(t)' = Phase(t)
    BY <2>1, <2>2, OneMoves, PhaseIs, PhaseBecomes
  <2> QED
    BY <2>1, <2>2, <2>3, OneMoves, StaysIs
<1>2. CASE Store(t) \/ Begin(t)
  <2>1. PICK p \in {"preparing", "launching"} :
          at[t] \in {"storing", "promoting"} /\ at' = [at EXCEPT ![t] = p]
    BY <1>2 DEF Store, Begin, Moved
  <2>2. UNCHANGED <<live, shows>>
    BY <1>2 DEF Store, Begin, agent
  <2>3. Phase(t) \in {"unsent", "waiting"} /\ Phase(t)' = "answering"
    BY <2>1, <2>2, OneMoves, PhaseIs, PhaseBecomes
  <2>4. \A u \in Turn : Phase(u) # "answering"
    BY <2>1, IdleWhileStarting
  <2> QED
    BY <2>1, <2>2, <2>3, <2>4, OneMoves, MoveIs
<1>3. CASE Park(t)
  <2>1. PICK f, q : /\ at[t] = "parking" /\ UNCHANGED <<live, shows>>
                    /\ f = [at EXCEPT ![t] = "queued"] /\ q = Append(queue, t) /\ Drain(f, q, paused)
    BY <1>3 DEF Park, Moved, agent
  <2>2. /\ Fits(f, q) /\ f \in [Turn -> Position]
        /\ f[t] = "queued" /\ \A u \in Turn : u # t => f[u] = at[u]
    BY <2>1, AppendFits DEF Position
  <2>3. at' = f \/ \E u \in Turn : f[u] = "queued" /\ at' = [f EXCEPT ![u] = "promoting"]
    <3>1. paused \in BOOLEAN /\ "overlap" \notin Windows
      BY DEF SafeSchedules, IInv, TypeOK
    <3> QED
      BY <2>1, <2>2, <3>1, DrainFits
  <2>4. /\ at'[t] \in {"queued", "promoting"}
        /\ \A u \in Turn : u # t => at'[u] = at[u] \/ (at[u] = "queued" /\ at'[u] = "promoting")
    BY <2>2, <2>3
  <2>5. ASSUME NEW u \in Turn, u # t PROVE Phase(u)' = Phase(u)
    <3>1. CASE at'[u] = at[u]
      BY <2>1, <3>1, PhaseKept DEF Answered
    <3>2. CASE at[u] = "queued" /\ at'[u] = "promoting"
      BY <3>2, PhaseIs, PhaseBecomes
    <3> QED
      BY <2>4, <2>5, <3>1, <3>2
  <2>6. Phase(t) = "unsent" /\ Phase(t)' = "waiting"
    BY <2>1, <2>4, PhaseIs, PhaseBecomes
  <2> QED
    BY <2>5, <2>6, MoveIs
<1>4. CASE StartFails(t)
  <2>1. /\ at[t] \in {"promoting", "launching"} /\ at' = [at EXCEPT ![t] = "failing"]
        /\ UNCHANGED <<live, shows>>
    BY <1>4 DEF StartFails, Moved, agent
  <2>2. ~Answered(t)
    BY <2>1, AnsweredIs
  <2>3. Phase(t) \in {"waiting", "answering"} /\ Phase(t)' = "over"
    BY <2>1, <2>2, OneMoves, PhaseIs, PhaseBecomes
  <2> QED
    BY <2>1, <2>3, OneMoves, MoveIs
<1>5. CASE StartFailed(t) \/ StartThrows(t) \/ Cancelled(t)
  <2>1. PICK p \in {"ended", "stuck", "cancelled"} :
          /\ at' = [at EXCEPT ![t] = p]
          /\ <<at[t], p>> \in {<<"failing", "ended">>, <<"preparing", "stuck">>, <<"cancelling", "cancelled">>}
    BY <1>5 DEF StartFailed, StartThrows, Cancelled, Moved
  <2>2. UNCHANGED <<live, shows>>
    BY <1>5 DEF StartFailed, StartThrows, Cancelled, agent
  <2>3. Phase(t)' = Phase(t)
    BY <2>1, <2>2, OneMoves, PhaseIs, PhaseBecomes
  <2> QED
    BY <2>1, <2>2, <2>3, OneMoves, StaysIs
<1>6. CASE Hand(t)
  <2>1. /\ at[t] \in {"preparing", "launching"} /\ at' = [at EXCEPT ![t] = "running"]
        /\ live' = live \cup {t} /\ shows' = [shows EXCEPT ![t] = t]
    BY <1>6 DEF Hand, Moved
  <2>2. shows \in [Turn -> Turn \cup {None}] /\ t \notin live
    BY <2>1 DEF IInv, TypeOK, ShowInv
  <2>3. /\ Answered(t)' /\ at'[t] = "running"
        /\ \A u \in Turn : u # t => at'[u] = at[u] /\ (Answered(u)' <=> Answered(u))
    BY <2>1, <2>2, AnsweredIs DEF Answered
  <2>4. Phase(t)' = Phase(t)
    BY <2>1, <2>3, PhaseIs, PhaseBecomes
  <2> QED
    BY <2>3, <2>4, PhaseKept, StaysIs
<1>7. CASE CancelQueued(t)
  <2>1. /\ at[t] = "queued" /\ at' = [at EXCEPT ![t] = "cancelling"] /\ UNCHANGED <<live, shows>>
    BY <1>7 DEF CancelQueued, Moved, agent
  <2>2. Phase(t) = "waiting" /\ Phase(t)' = "dropped"
    BY <2>1, OneMoves, PhaseIs, PhaseBecomes
  <2> QED
    BY <2>1, <2>2, OneMoves, MoveIs
<1>8. CASE SendNow(t)
  <2>1. /\ t \in Range(queue) /\ UNCHANGED <<live, shows>>
        /\ at' = at \/ Drain(at, Foremost(t), FALSE)
    BY <1>8 DEF SendNow, agent
  <2>2. at' = at \/ \E u \in Turn : at[u] = "queued" /\ at' = [at EXCEPT ![u] = "promoting"]
    BY <2>1, ForemostFits, DrainFits DEF SafeSchedules
  <2> QED
    BY <2>1, <2>2, AnsweredIs, QuietStep
<1> QED
  BY <1>1, <1>2, <1>3, <1>4, <1>5, <1>6, <1>7, <1>8 DEF TurnStep

\* The agent takes a message that waited: into the answer it is giving, or when
\* it is done already. (#handOff)
LEMMA HandOffKeeps ==
  ASSUME IInv, HandOff
  PROVE  Keeps
<1> USE NoneIsNoTurn
<1>0. PICK r, old, new : r = offer.run /\ old = shows[r] /\ new = offer.turn
  OBVIOUS
<1>1. /\ r \in Turn /\ new \in Turn /\ old \in Turn /\ at[new] = "queued" /\ at[old] = "running"
      /\ \A s \in Turn : shows[s] # new /\ (s # r => shows[s] # old)
  BY <1>0, AnsweredIs DEF HandOff, IInv, OfferInv, ShowInv, Read
<1>2. /\ at' = [at EXCEPT ![old] = "ended", ![new] = "running"]
      /\ shows' = [shows EXCEPT ![r] = new] /\ live' = live
  BY <1>0, <1>1 DEF HandOff, TurnOf
<1>3. /\ shows'[r] = new /\ \A s \in Turn : s # r => shows'[s] = shows[s]
      /\ at'[new] = "running" /\ at'[old] = "ended" /\ new # old
      /\ \A u \in Turn : u # new /\ u # old => at'[u] = at[u]
  BY <1>1, <1>2, AnsweredIs DEF IInv, TypeOK
<1>4. live \subseteq Turn
  BY DEF IInv, TypeOK
<1>5. /\ ~Answered(old)' /\ (Answered(old) <=> r \in live)
      /\ ~Answered(new) /\ (Answered(new)' <=> r \in live)
      /\ \A u \in Turn : u # new /\ u # old => (Answered(u)' <=> Answered(u))
  <2>1. live' = live /\ \A q \in live : q \in Turn
    BY <1>2, <1>4
  <2>2. \A q \in live : /\ shows[q] # new /\ (shows[q] = old <=> q = r)
                        /\ shows'[q] # old /\ (shows'[q] = new <=> q = r)
    <3> TAKE q \in live
    <3>1. q \in Turn /\ shows[q] # new
      BY <1>1, <2>1
    <3>2. CASE q = r
      BY <1>0, <1>3, <3>1, <3>2
    <3>3. CASE q # r
      BY <1>1, <1>3, <3>1, <3>3
    <3> QED
      BY <3>2, <3>3
  <2>3. \A q \in live : q # r => shows'[q] = shows[q]
    BY <1>3, <2>1
  <2> QED
    BY <2>1, <2>2, <2>3 DEF Answered
<1>6. /\ Phase(new) = "waiting" /\ Phase(old)' = "over"
      /\ Phase(old) = (IF r \in live THEN "answering" ELSE "over")
      /\ Phase(new)' = (IF r \in live THEN "answering" ELSE "over")
  BY <1>1, <1>3, <1>5, PhaseIs, PhaseBecomes
<1>7. \A u \in Turn : u # new /\ u # old => Phase(u)' = Phase(u)
  BY <1>3, <1>5, PhaseKept
<1>8. CASE r \in live
  <2>1. /\ Phases[old] = "answering" /\ Phases[new] = "waiting"
        /\ Phases' = [Phases EXCEPT ![old] = "over", ![new] = "answering"]
    BY <1>1, <1>3, <1>6, <1>7, <1>8 DEF Phases
  <2>2. Promise!Join(old, new)
    BY <2>1 DEF Promise!Join, Phases
  <2> QED
    BY <1>1, <2>2 DEF Keeps, Promise!Next
<1>9. CASE r \notin live
  <2>1. \A u \in Turn : u # new => Phase(u)' = Phase(u)
    BY <1>6, <1>7, <1>9
  <2> QED
    BY <1>1, <1>6, <1>9, <2>1, MoveIs
<1> QED
  BY <1>8, <1>9

\* The agent has finished with the turn its run answers. (#onEvent)
LEMMA AgentEndsKeeps ==
  ASSUME IInv, NEW r \in Turn, NEW kind \in {"completed", "broken"}, AgentEnds(r, kind)
  PROVE  Keeps
<1>0. PICK t : t = shows[r]
  OBVIOUS
<1>1. r \in live /\ live' = live \ {r} /\ UNCHANGED <<at, shows>>
  BY DEF AgentEnds
<1>2. t \in Turn /\ at[t] = "running" /\ \A s \in live : shows[s] = t => s = r
  BY <1>0, <1>1, AnsweredIs DEF Answered
<1>3. /\ Answered(t) /\ ~Answered(t)'
      /\ \A u \in Turn : u # t => (Answered(u)' <=> Answered(u))
  BY <1>0, <1>1, <1>2 DEF Answered
<1>4. Phase(t) = "answering" /\ Phase(t)' = "over"
  BY <1>1, <1>2, <1>3, PhaseIs, PhaseBecomes
<1> QED
  BY <1>1, <1>2, <1>3, <1>4, PhaseKept, MoveIs

\* An end that is written was over before. (#onEvent, #forgetRun)
LEMMA EndKeeps ==
  ASSUME IInv, SafeSchedules, NEW r \in Turn, EndStep(r)
  PROVE  Keeps
<1> USE NoneIsNoTurn, QueueFits
<1>1. CASE EndTaken(r) \/ EndChecked(r)
  BY <1>1, QuietStep DEF EndTaken, EndChecked, agent
<1>2. CASE Booked(r)
  <2>0. PICK t : t = end[r].turn
    OBVIOUS
  <2>1. /\ t \in Turn /\ shows[r] = t /\ at[t] = "running" /\ r \notin live /\ end[r].stage = "booking"
    BY <1>2, <2>0 DEF Booked, IInv, EndInv, EndFits, ShowInv
  <2>2. at' = [at EXCEPT ![t] = "ended"] /\ shows' = [shows EXCEPT ![r] = None] /\ live' = live
    BY <1>2, <2>0 DEF Booked, Moved
  <2>3. live \subseteq Turn /\ \A s \in live : shows'[s] = shows[s] /\ shows[s] # t
    BY <2>1, <2>2, AnsweredIs DEF IInv, TypeOK
  <2>4. ~Answered(t) /\ \A u \in Turn : Answered(u)' <=> Answered(u)
    BY <2>2, <2>3 DEF Answered
  <2>5. at'[t] = "ended" /\ \A u \in Turn : u # t => at'[u] = at[u]
    BY <2>1, <2>2, AnsweredIs
  <2>6. Phase(t)' = Phase(t)
    BY <2>1, <2>4, <2>5, PhaseIs, PhaseBecomes
  <2> QED
    BY <2>4, <2>5, <2>6, PhaseKept, StaysIs
<1>3. CASE BookFails(r)
  <2>1. r \notin live /\ at' = at /\ live' = live /\ shows' = [shows EXCEPT ![r] = None]
    BY <1>3 DEF BookFails, IInv, ShowInv
  <2>2. \A s \in live : shows'[s] = shows[s]
    BY <2>1 DEF IInv, TypeOK
  <2>3. \A u \in Turn : Answered(u)' <=> Answered(u)
    BY <2>1, <2>2 DEF Answered
  <2> QED
    BY <2>1, <2>3, PhaseKept, StaysIs
<1>4. CASE BookFailed(r)
  <2>0. PICK t : t = end[r].turn
    OBVIOUS
  <2>1. /\ t \in Turn /\ at[t] \in {"running", "ended"} /\ \A s \in Turn : shows[s] # t
    BY <1>4, <2>0 DEF BookFailed, IInv, EndInv, EndFits
  <2>2. at' = [at EXCEPT ![t] = "ended"] /\ UNCHANGED <<live, shows>>
    BY <1>4, <2>0 DEF BookFailed, Moved, agent
  <2>3. ~Answered(t)
    BY <2>1 DEF Answered, IInv, TypeOK
  <2>4. Phase(t)' = Phase(t)
    BY <2>1, <2>2, <2>3, OneMoves, PhaseIs, PhaseBecomes
  <2> QED
    BY <2>1, <2>2, <2>4, OneMoves, StaysIs
<1>5. CASE Continue(r) \/ HoldOrSendNext(r)
  <2>1. UNCHANGED <<live, shows>> /\ \/ at' = at
                                     \/ \E p \in BOOLEAN : Drain(at, queue, p)
    BY <1>5 DEF Continue, HoldOrSendNext, agent, IInv, TypeOK
  <2>2. at' = at \/ \E u \in Turn : at[u] = "queued" /\ at' = [at EXCEPT ![u] = "promoting"]
    BY <2>1, DrainFits DEF SafeSchedules
  <2> QED
    BY <2>1, <2>2, AnsweredIs, QuietStep
<1> QED
  BY <1>1, <1>2, <1>3, <1>4, <1>5 DEF EndStep

\* Everything that waits is withdrawn. (clearQueue)
LEMMA ClearKeeps ==
  ASSUME IInv, Clear
  PROVE  Keeps
<1> DEFINE T == Range(queue)
<1>1. /\ at' = [t \in Turn |-> IF t \in T THEN "cancelled" ELSE at[t]]
      /\ UNCHANGED <<live, shows>> /\ \A t \in Turn : at[t] = "queued" <=> t \in T
  BY DEF Clear, agent, IInv, NobodyStranded
<1>2. T \in SUBSET Turn
  BY DEF IInv, TypeOK, Range
<1> HIDE DEF T
<1>3. \A t \in T : Phase(t) = "waiting" /\ Phase(t)' = "dropped"
  BY <1>1, <1>2, PhaseIs, PhaseBecomes
<1>4. \A t \in Turn \ T : Phase(t)' = Phase(t)
  BY <1>1, PhaseKept DEF Answered
<1>5. Promise!Withdraw(T)
  BY <1>2, <1>3, <1>4 DEF Promise!Withdraw, Phases
<1> QED
  BY <1>2, <1>5 DEF Keeps, Promise!Next
--------------------------------------------------------------------------------
\* Every step of the manager is one the conversation allows.
LEMMA StepsImplement ==
  ASSUME IInv, SafeSchedules, [Next]_vars
  PROVE  Keeps
<1>1. ASSUME NEW t \in Turn, TurnStep(t) \/ Send(t) \/ StartThrows(t) \/ CancelQueued(t) \/ SendNow(t)
      PROVE  Keeps
  BY <1>1, TurnKeeps
<1>2. ASSUME NEW r \in Turn, EndStep(r) PROVE Keeps
  BY <1>2, EndKeeps
<1>3. ASSUME NEW r \in Turn, StepStarts(r) \/ StepEnds(r) \/ AgentEndsAgain(r) PROVE Keeps
  BY <1>3, QuietStep DEF StepStarts, StepEnds, AgentEndsAgain, agent
<1>4. ASSUME NEW r \in Turn, NEW kind \in {"completed", "broken"}, AgentEnds(r, kind) PROVE Keeps
  BY <1>4, AgentEndsKeeps
<1>5. CASE AgentReads \/ OfferTaken \/ OfferRefused \/ HandedOff
  BY <1>5, QuietStep DEF AgentReads, OfferTaken, OfferRefused, HandedOff, agent
<1>6. CASE HandOff
  BY <1>6, HandOffKeeps
<1>7. CASE Resume
  <2>1. UNCHANGED <<live, shows>> /\ Drain(at, queue, FALSE)
    BY <1>7 DEF Resume, agent
  <2>2. at' = at \/ \E u \in Turn : at[u] = "queued" /\ at' = [at EXCEPT ![u] = "promoting"]
    BY <2>1, QueueFits, DrainFits DEF SafeSchedules
  <2> QED
    BY <2>1, <2>2, AnsweredIs, QuietStep
<1>8. CASE Clear
  BY <1>8, ClearKeeps
<1>9. CASE UNCHANGED vars
  BY <1>9, QuietStep DEF vars, agent
<1> QED
  BY <1>1, <1>2, <1>3, <1>4, <1>5, <1>6, <1>7, <1>8, <1>9 DEF Next, OfferStep

\* However its turns are sent, queued, handed over, stopped and withdrawn, the
\* manager keeps the promise of one conversation: one message is answered at a
\* time, and none comes back. (sendTurn, #handOff, #onEvent, clearQueue)
THEOREM KeepsThePromise == SafeSchedules /\ Spec => ImplementsConversation
<1> SUFFICES ASSUME SafeSchedules PROVE Spec => Promise!Spec
  BY DEF ImplementsConversation
<1>1. Init => Promise!Init
  <2> SUFFICES ASSUME Init PROVE Promise!Init
    OBVIOUS
  <2>1. \A t \in Turn : at[t] = "unsent"
    BY DEF Init
  <2> QED
    BY <2>1, PhaseIs DEF Promise!Init
<1>2. IInv /\ [Next]_vars => [Promise!Next]_Phases
  BY StepsImplement DEF Keeps, Stays
<1>3. Spec => []IInv
  BY Invariance
<1> QED
  BY <1>1, <1>2, <1>3, PTL DEF Spec, Promise!Spec, Phases
================================================================================
