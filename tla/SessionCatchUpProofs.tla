-------------------------- MODULE SessionCatchUpProofs -------------------------
(* Three inductive invariants about the session, for any number of            *)
(* connections, messages and kept messages.  TInv, types and roles, holds on  *)
(* every schedule and carries the registry's promise that a working           *)
(* connection gets its notifications.  SkipInv says that what the phone was   *)
(* not handed and the bridge keeps comes without a gap on the connections, so *)
(* nothing is passed over and the session implements Delivery; it needs       *)
(* late_response and behind_ready closed.  OrderInv says that whatever passes *)
(* a channel is beyond all that was handed over; it needs queued_frame and    *)
(* switched_pc closed.                                                        *)
EXTENDS SessionCatchUp, SequenceTheorems, TLAPS

\* What the registration touches has its type.
RegistryType ==
  /\ sink \in Conn \cup {None}
  /\ side \in [Conn -> {"none", "hello", "serving", "over"}]
  /\ up \in [Conn -> BOOLEAN]

\* SinkServes with the types its steps need.
RegistryInv == RegistryType /\ SinkServes

\* None is no connection.
LEMMA NoneIsNoConn == None \notin Conn
BY CatchUpAssumption DEF None, Conn

\* Nothing is registered and nothing served at the start. (SessionRegistry)
LEMMA RegistryInit == Init => RegistryInv
BY NoneIsNoConn DEF Init, RegistryInv, RegistryType, SinkServes

\* A connection that stops working, or that was never served, asks nothing of
\* the registry. (Break, and the phone's disconnect)
LEMMA FewerUp ==
  ASSUME RegistryInv, UNCHANGED <<sink, side>>,
         up' \in [Conn -> BOOLEAN], \A c \in Conn : up'[c] => up[c]
  PROVE  RegistryInv'
BY DEF RegistryInv, RegistryType, SinkServes

\* Every step keeps it, a step of the registry or of anything else.
\* (register closes the connection it replaces; unregister asks whose the sink is)
LEMMA RegistryStep == RegistryInv /\ [Next]_vars => RegistryInv'
<1> SUFFICES ASSUME RegistryInv, [Next]_vars PROVE RegistryInv'
  OBVIOUS
<1> USE NoneIsNoConn
<1>1. ASSUME UNCHANGED <<sink, side, up>> PROVE RegistryInv'
  BY <1>1 DEF RegistryInv, RegistryType, SinkServes
<1>2. ASSUME NEW c \in Conn, Accept(c) PROVE RegistryInv'
  <2>1. /\ side' = [side EXCEPT ![c] = "serving"] /\ sink' = c
        /\ up' = [d \in Conn |-> up[d] /\ d # sink]
    BY <1>2 DEF Accept, Closing
  <2>2. RegistryType'
    BY <2>1 DEF RegistryInv, RegistryType
  <2>3. \A d \in Conn : side'[d] = "serving" /\ up'[d] => d = c
    BY <2>1 DEF RegistryInv, RegistryType, SinkServes
  <2> QED
    BY <2>1, <2>2, <2>3 DEF RegistryInv, RegistryType, SinkServes
<1>3. ASSUME NEW c \in Conn, Teardown(c) PROVE RegistryInv'
  <2>1. /\ side' = [side EXCEPT ![c] = "over"]
        /\ sink' = IF sink = c THEN None ELSE sink
        /\ up' = up /\ ~up[c]
    BY <1>3 DEF Teardown
  <2>2. RegistryType'
    BY <2>1 DEF RegistryInv, RegistryType
  <2>3. \A d \in Conn : side'[d] = "serving" /\ up'[d] => sink' = d
    BY <2>1 DEF RegistryInv, RegistryType, SinkServes
  <2>4. sink' # None => side'[sink'] = "serving"
    BY <2>1 DEF RegistryInv, RegistryType, SinkServes
  <2> QED
    BY <2>2, <2>3, <2>4 DEF RegistryInv, SinkServes
<1>4. ASSUME NEW c \in Conn, Break(c) PROVE RegistryInv'
  <2>1. /\ UNCHANGED <<sink, side>>
        /\ up' = [d \in Conn |-> up[d] /\ d # c]
    BY <1>4 DEF Break, Closing, bridge
  <2> QED
    BY <2>1, FewerUp DEF RegistryInv, RegistryType
<1>5. ASSUME NEW c \in Conn, Dial(c) PROVE RegistryInv'
  <2>1. /\ side[c] = "none" /\ side' = [side EXCEPT ![c] = "hello"]
        /\ up' = [up EXCEPT ![c] = TRUE] /\ sink' = sink
    BY <1>5 DEF Dial
  <2>2. RegistryType'
    BY <2>1 DEF RegistryInv, RegistryType
  <2>3. sink # c
    BY <2>1 DEF RegistryInv, RegistryType, SinkServes
  <2> QED
    BY <2>1, <2>2, <2>3 DEF RegistryInv, RegistryType, SinkServes
<1>6. ASSUME Commit PROVE RegistryInv'
  <2>1. /\ UNCHANGED <<sink, side>>
        /\ up' = [d \in Conn |-> up[d] /\ d # live]
    BY <1>6 DEF Commit, Closing, bridge
  <2> QED
    BY <2>1, FewerUp DEF RegistryInv, RegistryType
<1>7. ASSUME NEW D, LetGo(D), UNCHANGED <<sink, side>> PROVE RegistryInv'
  <2>1. up' = [d \in Conn |-> up[d] /\ d \notin D]
    BY <1>7 DEF LetGo
  <2> QED
    BY <1>7, <2>1, FewerUp DEF RegistryInv, RegistryType
<1>8. CASE GiveUp
  BY <1>7, <1>8 DEF GiveUp, bridge
<1>9. CASE Drop
  BY <1>7, <1>9 DEF Drop, bridge
<1>10. CASE SwitchAway
  BY <1>7, <1>10 DEF SwitchAway, bridge
<1>11. CASE Kill
  BY <1>7, <1>11 DEF Kill, bridge
<1>12. CASE Notify
  BY <1>1, <1>12 DEF Notify
<1>13. ASSUME NEW c \in Conn, Request(c) \/ Respond(c) PROVE RegistryInv'
  BY <1>1, <1>13 DEF Request, Respond
<1>14. CASE Receive \/ Decrypt \/ Checkpoint \/ Save
  BY <1>1, <1>14 DEF Receive, Decrypt, Checkpoint, Save, bridge
<1>15. CASE UNCHANGED vars
  BY <1>1, <1>15 DEF vars, bridge
<1> QED
  BY <1>2, <1>3, <1>4, <1>5, <1>6, <1>8, <1>9, <1>10, <1>11, <1>12, <1>13,
     <1>14, <1>15 DEF Next, BridgeNext, PhoneNext

\* A connection the bridge serves and that works is the one notifications go
\* to, always: the end of a stale connection never takes the sink of its
\* successor. (SessionRegistry.register and unregister, session-handler's
\* finally block)
THEOREM SinkAlwaysServes == Spec => []SinkServes
<1>1. RegistryInv => SinkServes
  BY DEF RegistryInv
<1> QED
  BY <1>1, RegistryInit, RegistryStep, PTL DEF Spec
--------------------------------------------------------------------------------
(* Types *)

\* Frames only travel on the connections the phone has; the first one on the
\* connection being opened is the end of its handshake.
Roles ==
  /\ \A c \in Conn : up[c] \/ wire[c] # <<>> => c \in {live, dial}
  /\ \A c \in Conn : busy[c] => side[c] = "serving"
  /\ live # None => side[live] \in {"serving", "over"} /\ live # dial /\ wire[live] \in Seq(Seq1)
  /\ dial # None =>
       /\ side[dial] # "none"
       /\ side[dial] = "hello" => wire[dial] = <<>>
       /\ side[dial] # "hello" /\ up[dial] => wire[dial] # <<>>
       /\ wire[dial] # <<>> => Head(wire[dial]) = Ready /\ Tail(wire[dial]) \in Seq(Seq1)

\* Nobody knows of a number the bridge has not given out.
Numbered ==
  /\ resume < next
  /\ \A c \in Conn : hello[c] < next /\ last[c] < next
  /\ \A c \in Conn : \A i \in DOMAIN wire[c] : wire[c][i] < next
  /\ \A i \in DOMAIN inbound : inbound[i].seq < next

Typed == TypeOK /\ wire \in [Conn -> Seq(0 .. MaxSeq)]
TInv == Typed /\ Roles /\ Numbered /\ SinkServes

\* The larger of two.
LEMMA MaxOfTwo ==
  ASSUME NEW a \in Int, NEW b \in Int
  PROVE  Max({a, b}) = IF a >= b THEN a ELSE b
<1>1. PICK m \in {a, b} : m = IF a >= b THEN a ELSE b
  OBVIOUS
<1>2. \A x \in {a, b} : (\A y \in {a, b} : x >= y) <=> x = m
  BY <1>1
<1> QED
  BY <1>1, <1>2 DEF Max

\* What is a number, and bounds the steps need.
LEMMA NumbersAre ==
  ASSUME Typed
  PROVE  /\ MaxSeq \in Nat /\ MaxWindow \in Nat \ {0}
         /\ next \in Nat /\ oldest \in Nat /\ 1 <= oldest /\ oldest <= next /\ next <= MaxSeq + 1
         /\ resume \in Nat /\ saved \in Nat
         /\ \A c \in Conn : hello[c] \in Nat /\ last[c] \in Nat
         /\ \A c \in Conn : \A i \in DOMAIN wire[c] : wire[c][i] \in Nat
         /\ \A i \in DOMAIN inbound : inbound[i].seq \in Nat /\ inbound[i].conn \in Conn
<1>1. MaxSeq \in Nat /\ MaxWindow \in Nat \ {0}
  BY CatchUpAssumption
<1>2. /\ next \in 1 .. MaxSeq + 1 /\ oldest \in 1 .. next
      /\ resume \in 0 .. MaxSeq /\ saved \in 0 .. resume
      /\ \A c \in Conn : hello[c] \in 0 .. MaxSeq /\ last[c] \in 0 .. MaxSeq
  BY DEF Typed, TypeOK
<1>3. \A c \in Conn : wire[c] \in Seq(0 .. MaxSeq)
  BY DEF Typed
<1>4. ASSUME NEW c \in Conn, NEW i \in DOMAIN wire[c] PROVE wire[c][i] \in 0 .. MaxSeq
  <2>1. PICK w : w = wire[c] /\ w \in Seq(0 .. MaxSeq)
    BY <1>3
  <2> QED
    BY <1>4, <2>1, ElementOfSeq, LenProperties
<1>5. inbound \in Seq([conn : Conn, seq : Seq1])
  BY DEF Typed, TypeOK
<1>6. \A i \in DOMAIN inbound : inbound[i] \in [conn : Conn, seq : Seq1]
  BY <1>5, ElementOfSeq, LenProperties
<1> QED
  BY <1>1, <1>2, <1>4, <1>6 DEF Seq1, None

\* The next number is given out. (OutboundLog.record)
LEMMA RecordStep ==
  ASSUME Typed, Record
  PROVE  /\ next \in Seq1 /\ next' = next + 1
         /\ oldest' \in oldest .. next /\ next' - oldest' <= MaxWindow
<1>1. /\ next \in Nat /\ oldest \in Nat /\ oldest <= next /\ next <= MaxSeq /\ next >= 1
      /\ next - oldest <= MaxWindow /\ MaxWindow \in Nat \ {0} /\ MaxSeq \in Nat
  BY CatchUpAssumption DEF Typed, TypeOK, Record
<1>2. PICK n \in Int : n = next + 1
  BY <1>1
<1>2a. next' = n /\ oldest' \in Max({oldest, n - MaxWindow}) .. next
  <2>1. next' = n /\ oldest' \in Max({oldest, next' - MaxWindow}) .. next
    BY <1>2 DEF Record
  <2> QED
    BY <2>1
<1>2b. PICK o : oldest' = o
  OBVIOUS
<1>3. Max({oldest, n - MaxWindow}) = IF oldest >= n - MaxWindow THEN oldest ELSE n - MaxWindow
  BY <1>1, MaxOfTwo
<1>4. o \in oldest .. next /\ n - o <= MaxWindow
  BY <1>1, <1>2, <1>2a, <1>2b, <1>3
<1> QED
  BY <1>1, <1>2, <1>2a, <1>2b, <1>4 DEF Seq1

\* What is put on a connection that works.
LEMMA Carried ==
  ASSUME wire \in [Conn -> Seq(0 .. MaxSeq)], NEW c \in Conn \cup {None},
         NEW f \in Seq(0 .. MaxSeq), Carry(c, f)
  PROVE  /\ wire' \in [Conn -> Seq(0 .. MaxSeq)]
         /\ \A d \in Conn : wire'[d] = IF d = c /\ up[d] THEN wire[d] \o f ELSE wire[d]
BY NoneIsNoConn DEF Carry

\* What is replayed. (OutboundLog.entriesAfter)
LEMMA Replayed ==
  ASSUME Typed, NEW n \in Nat, n < next
  PROVE  \E from \in Nat :
           /\ from >= oldest /\ from > n /\ from <= next /\ (from = oldest \/ from = n + 1)
           /\ EntriesAfter(n) = [i \in 1 .. next - from |-> from + i - 1]
           /\ EntriesAfter(n) \in Seq(Seq1)
<1> DEFINE from == Max({oldest, n + 1})
<1>1. /\ from \in Nat /\ from >= oldest /\ from > n /\ from <= next
      /\ from = oldest \/ from = n + 1
  <2>1. oldest \in Nat /\ next \in Nat /\ oldest <= next /\ n + 1 \in Int
    BY CatchUpAssumption DEF Typed, TypeOK
  <2>2. from = IF oldest >= n + 1 THEN oldest ELSE n + 1
    BY <2>1, MaxOfTwo
  <2> QED
    BY <2>1, <2>2
<1>2. EntriesAfter(n) = [i \in 1 .. next - from |-> from + i - 1]
  BY DEF EntriesAfter
<1> HIDE DEF from
<1>3. \A i \in 1 .. next - from : from + i - 1 \in Seq1
  BY <1>1, CatchUpAssumption DEF Typed, TypeOK, Seq1
<1>4. next - from \in Nat
  BY <1>1 DEF Typed, TypeOK
<1>5. EntriesAfter(n) \in Seq(Seq1)
  BY <1>2, <1>3, <1>4
<1> QED
  BY <1>1, <1>2, <1>5

\* What the phone counts as applied was given out.
LEMMA CountedIs ==
  ASSUME Typed, Numbered
  PROVE  /\ Counted \in 0 .. MaxSeq /\ Counted < next /\ resume <= Counted
         /\ Counted = resume \/ (live # None /\ Counted = last[live])
         /\ live # None => last[live] <= Counted
<1>1. /\ resume \in 0 .. MaxSeq /\ resume < next /\ next \in Nat
      /\ live # None => last[live] \in 0 .. MaxSeq /\ last[live] < next
  BY CatchUpAssumption DEF Typed, TypeOK, Numbered
<1>2. CASE live = None
  BY <1>1, <1>2 DEF Counted
<1>3. CASE live # None
  <2>1. Counted = Max({resume, last[live]})
    BY <1>3 DEF Counted
  <2>2. resume \in Int /\ last[live] \in Int
    BY <1>1, <1>3
  <2>3. Counted = IF resume >= last[live] THEN resume ELSE last[live]
    BY <2>1, <2>2, MaxOfTwo
  <2> QED
    BY <1>1, <1>3, <2>3
<1> QED
  BY <1>2, <1>3

\* At the start nothing was sent and nothing heard.
LEMMA TypesInit == Init => TInv
<1> SUFFICES ASSUME Init PROVE TInv
  OBVIOUS
<1>1. Typed
  BY CatchUpAssumption, NoneIsNoConn DEF Init, Typed, TypeOK
<1>2. Roles /\ Numbered
  BY NoneIsNoConn DEF Init, Roles, Numbered, Conn
<1>3. SinkServes
  BY RegistryInit DEF RegistryInv
<1> QED
  BY <1>1, <1>2, <1>3 DEF TInv

\* The bridge gives out a number, and sends it on c or, c being gone, nowhere.
LEMMA TypesSent ==
  ASSUME TInv, NEW c \in Conn \cup {None}, Record, Carry(c, <<next>>),
         c # None => side[c] = "serving",
         UNCHANGED <<sink, side, hello, up, phone, history>>,
         busy' \in [Conn -> BOOLEAN], \A d \in Conn : busy'[d] => busy[d]
  PROVE  Typed' /\ Roles' /\ Numbered'
<1>1. /\ next \in Seq1 /\ next' = next + 1
      /\ oldest' \in oldest .. next /\ next' - oldest' <= MaxWindow
  BY RecordStep DEF TInv
<1>2. <<next>> \in Seq(0 .. MaxSeq) /\ <<next>> \in Seq(Seq1)
  BY <1>1 DEF Seq1
<1>3. /\ wire' \in [Conn -> Seq(0 .. MaxSeq)]
      /\ \A d \in Conn : wire'[d] = IF d = c /\ up[d] THEN wire[d] \o <<next>> ELSE wire[d]
  BY <1>2, Carried DEF TInv, Typed
<1>4. /\ UNCHANGED <<sink, side, hello, up, live, dial, last, inbound, resume, saved, applied, got>>
      /\ TypeOK /\ Roles /\ Numbered
  BY DEF phone, history, TInv, Typed
<1>5. next \in 1 .. MaxSeq /\ next' \in 1 .. MaxSeq + 1 /\ oldest' \in 1 .. next'
  BY <1>1, <1>4, CatchUpAssumption DEF TypeOK, Seq1
<1>6. MaxSeq \in Nat
  BY CatchUpAssumption
<1>7. Typed'
  <2>1. \A d \in Conn : wire'[d] \in Seq(0 .. MaxSeq)
    BY <1>3
  <2>2. next' > 1 => oldest' < next'
    BY <1>1, <1>5
  <2> QED
    BY <1>1, <1>3, <1>4, <1>5, <1>6, <2>1, <2>2 DEF Typed, TypeOK
<1>8. Roles'
  <2>1. \A d \in Conn : wire'[d] # <<>> => up[d] \/ wire[d] # <<>>
    BY <1>3
  <2>2. live # None => wire'[live] \in Seq(Seq1)
    <3>1. live # None => live \in Conn /\ wire[live] \in Seq(Seq1)
      BY <1>4 DEF Roles, TypeOK
    <3>2. live # None /\ wire'[live] # wire[live] => wire'[live] = wire[live] \o <<next>>
      BY <1>3, <3>1
    <3>3. ASSUME live # None PROVE wire'[live] \in Seq(Seq1)
      <4>1. PICK w \in Seq(Seq1) : w = wire[live]
        BY <3>1, <3>3
      <4>2. PICK n \in Seq1 : n = next
        BY <1>2
      <4>3. w \o <<n>> \in Seq(Seq1)
        OBVIOUS
      <4>4. wire'[live] = w \/ wire'[live] = w \o <<n>>
        BY <3>2, <3>3, <4>1, <4>2
      <4> QED
        BY <4>3, <4>4
    <3> QED
      BY <3>3
  <2>3. ASSUME dial # None, wire'[dial] # <<>>
        PROVE  Head(wire'[dial]) = Ready /\ Tail(wire'[dial]) \in Seq(Seq1)
    <3>1. dial \in Conn /\ side[dial] # "none"
      BY <1>4, <2>3 DEF Roles, TypeOK
    <3>2. CASE wire'[dial] = wire[dial]
      BY <1>4, <2>3, <3>2 DEF Roles
    <3>3. CASE wire'[dial] = wire[dial] \o <<next>>
      <4>1. PICK w : w = wire[dial]
        OBVIOUS
      <4>2. w \in Seq(0 .. MaxSeq)
        BY <3>1, <4>1 DEF TInv, Typed
      <4>3. CASE w = <<>>
        <5>1. wire'[dial] = <<next>> /\ wire'[dial] # wire[dial]
          BY <1>2, <3>3, <4>1, <4>3
        <5>2. dial = c /\ up[dial]
          BY <1>3, <3>1, <5>1
        <5> QED
          BY <1>4, <2>3, <3>1, <4>1, <4>3, <5>2, NoneIsNoConn DEF Roles
      <4>4. CASE w # <<>>
        <5>1. Head(w) = Ready /\ Tail(w) \in Seq(Seq1)
          BY <1>4, <2>3, <4>1, <4>4 DEF Roles
        <5> QED
          BY <1>2, <3>3, <4>1, <4>2, <4>4, <5>1
      <4> QED
        BY <4>3, <4>4
    <3> QED
      BY <1>3, <3>1, <3>2, <3>3
  <2>4. dial # None => dial \in Conn
    BY <1>4 DEF TypeOK
  <2>5. dial # None /\ side[dial] = "hello" => wire'[dial] = <<>>
    BY <1>3, <1>4, <2>4 DEF Roles
  <2>6. dial # None /\ wire[dial] # <<>> => wire'[dial] # <<>>
    BY <1>2, <1>3, <2>4
  <2>7. \A d \in Conn : up'[d] \/ wire'[d] # <<>> => d \in {live', dial'}
    BY <1>4, <2>1 DEF Roles
  <2>8. \A d \in Conn : busy'[d] => side'[d] = "serving"
    BY <1>4 DEF Roles
  <2> QED
    BY <1>4, <2>2, <2>3, <2>4, <2>5, <2>6, <2>7, <2>8 DEF Roles
<1>9. Numbered'
  <2>1. /\ \A d \in Conn : hello[d] \in Nat /\ last[d] \in Nat
        /\ \A d \in Conn : \A i \in DOMAIN wire[d] : wire[d][i] \in Nat
        /\ \A i \in DOMAIN inbound : inbound[i].seq \in Nat
        /\ resume \in Nat /\ next \in Nat
    BY NumbersAre DEF TInv
  <2>2. ASSUME NEW d \in Conn, NEW i \in DOMAIN wire'[d] PROVE wire'[d][i] < next'
    <3>1. \A j \in DOMAIN wire[d] : wire[d][j] < next
      BY <1>4 DEF Numbered
    <3>2. CASE wire'[d] = wire[d]
      BY <1>1, <2>1, <2>2, <3>1, <3>2
    <3>3. CASE wire'[d] = wire[d] \o <<next>>
      <4>1. PICK w \in Seq(0 .. MaxSeq) : w = wire[d]
        BY DEF TInv, Typed
      <4>2. i \in DOMAIN w \/ wire'[d][i] = next
        BY <2>2, <3>3, <4>1, <1>2
      <4>3. i \in DOMAIN w => wire'[d][i] = wire[d][i]
        BY <2>2, <3>3, <4>1, <1>2
      <4> QED
        BY <1>1, <2>1, <3>1, <4>1, <4>2, <4>3
    <3> QED
      BY <1>3, <3>2, <3>3
  <2>3. resume < next /\ (\A d \in Conn : hello[d] < next /\ last[d] < next)
        /\ \A i \in DOMAIN inbound : inbound[i].seq < next
    BY <1>4 DEF Numbered
  <2> QED
    BY <1>1, <1>4, <2>1, <2>2, <2>3 DEF Numbered
<1> QED
  BY <1>7, <1>8, <1>9

\* What a connection carries at first: ready, then the replay. (session-handler)
LEMMA Opening ==
  ASSUME Typed, NEW n \in Nat, n < next
  PROVE  \E from \in Nat : \E f \in Seq(0 .. MaxSeq) :
           /\ from >= oldest /\ from > n /\ from <= next /\ (from = oldest \/ from = n + 1)
           /\ f = <<Ready>> \o EntriesAfter(n) /\ Len(f) = next - from + 1
           /\ f # <<>> /\ f[1] = Ready /\ \A i \in 2 .. Len(f) : f[i] = from + i - 2
           /\ Head(f) = Ready /\ Tail(f) \in Seq(Seq1)
<1>1. PICK from \in Nat :
        /\ from >= oldest /\ from > n /\ from <= next /\ (from = oldest \/ from = n + 1)
        /\ EntriesAfter(n) = [i \in 1 .. next - from |-> from + i - 1]
        /\ EntriesAfter(n) \in Seq(Seq1)
  BY Replayed
<1>2. next \in Nat /\ MaxSeq \in Nat
  BY NumbersAre
<1>3. PICK e \in Seq(Seq1) : e = EntriesAfter(n)
  BY <1>1
<1>4. Len(e) = next - from /\ \A i \in 1 .. next - from : e[i] = from + i - 1
  <2>1. next - from \in Nat
    BY <1>1, <1>2
  <2>2. e = [i \in 1 .. next - from |-> from + i - 1]
    BY <1>1, <1>3
  <2> QED
    BY <2>1, <2>2
<1>5. Seq1 \subseteq 0 .. MaxSeq /\ Ready \in 0 .. MaxSeq
  BY <1>2 DEF Seq1, Ready
<1>6. e \in Seq(0 .. MaxSeq) /\ <<Ready>> \in Seq(0 .. MaxSeq)
  <2>1. e \in Seq(0 .. MaxSeq)
    BY <1>3, <1>5, SeqMonotonic
  <2> QED
    BY <1>5, <2>1
<1>7. PICK f \in Seq(0 .. MaxSeq) : f = <<Ready>> \o e
  BY <1>6, ConcatProperties
<1>8. Len(f) = next - from + 1 /\ f[1] = Ready /\ \A i \in 2 .. Len(f) : f[i] = e[i - 1]
  <2>1. Len(<<Ready>>) = 1 /\ <<Ready>>[1] = Ready
    OBVIOUS
  <2>2. Len(f) = 1 + Len(e) /\ \A i \in 1 .. Len(f) : f[i] = IF i <= 1 THEN <<Ready>>[i] ELSE e[i - 1]
    BY <1>6, <1>7, <2>1, ConcatProperties
  <2>3. Len(f) = next - from + 1 /\ next - from \in Nat
    BY <1>1, <1>2, <1>4, <2>2
  <2> QED
    BY <2>1, <2>2, <2>3
<1>9. \A i \in 2 .. Len(f) : f[i] = from + i - 2
  BY <1>1, <1>2, <1>4, <1>8
<1>10. f # <<>> /\ Head(f) = Ready /\ Tail(f) = e
  BY <1>6, <1>7, HeadTailProperties, ConcatProperties
<1> QED
  BY <1>1, <1>3, <1>7, <1>8, <1>9, <1>10

\* A bridge that has the phone's word opens the connection. (handshake done)
LEMMA TypesAccept ==
  ASSUME TInv, NEW c \in Conn, Accept(c)
  PROVE  Typed' /\ Roles' /\ Numbered'
<1>1. /\ side[c] = "hello" /\ side' = [side EXCEPT ![c] = "serving"] /\ sink' = c
      /\ up' = [d \in Conn |-> up[d] /\ d # sink] /\ hello' = [hello EXCEPT ![c] = 0]
      /\ Carry(c, <<Ready>> \o EntriesAfter(hello[c]))
      /\ UNCHANGED <<next, oldest, busy, live, dial, last, inbound, resume, saved, applied, got>>
  BY DEF Accept, Closing, phone, history
<1>2. TypeOK /\ Typed /\ Roles /\ Numbered /\ hello[c] \in Nat /\ hello[c] < next
  BY NumbersAre DEF TInv, Typed, Numbered
<1>3. PICK from \in Nat, f \in Seq(0 .. MaxSeq) :
           /\ from >= oldest /\ from > hello[c] /\ from <= next
           /\ f = <<Ready>> \o EntriesAfter(hello[c]) /\ Len(f) = next - from + 1
           /\ f # <<>> /\ f[1] = Ready /\ \A i \in 2 .. Len(f) : f[i] = from + i - 2
           /\ Head(f) = Ready /\ Tail(f) \in Seq(Seq1)
  BY <1>2, Opening
<1>4. /\ wire' \in [Conn -> Seq(0 .. MaxSeq)]
      /\ \A d \in Conn : wire'[d] = IF d = c /\ up[d] THEN wire[d] \o f ELSE wire[d]
  BY <1>1, <1>2, <1>3, Carried DEF Typed
<1>5. c # live /\ (up[c] => c = dial /\ wire[c] = <<>>)
  <2>1. c # None
    BY NoneIsNoConn
  <2>2. c # live
    BY <1>1, <1>2, <2>1 DEF Roles
  <2> QED
    BY <1>1, <1>2, <2>1, <2>2 DEF Roles
<1>6. \A d \in Conn : wire'[d] = IF d = c /\ up[d] THEN f ELSE wire[d]
  BY <1>4, <1>5, ConcatEmptySeq
<1>7. Typed'
  <2>1. /\ side \in [Conn -> {"none", "hello", "serving", "over"}]
        /\ up \in [Conn -> BOOLEAN] /\ hello \in [Conn -> 0 .. MaxSeq] /\ 0 \in 0 .. MaxSeq
    BY <1>2, CatchUpAssumption DEF TypeOK
  <2>2. /\ side' \in [Conn -> {"none", "hello", "serving", "over"}] /\ sink' \in Conn
        /\ up' \in [Conn -> BOOLEAN] /\ hello' \in [Conn -> 0 .. MaxSeq]
    BY <1>1, <2>1
  <2> QED
    BY <1>1, <1>2, <1>4, <2>2 DEF Typed, TypeOK
<1>8. Roles'
  <2>1. \A d \in Conn : up'[d] \/ wire'[d] # <<>> => d \in {live', dial'}
    BY <1>1, <1>2, <1>5, <1>6 DEF Roles
  <2>2. \A d \in Conn : busy'[d] => side'[d] = "serving"
    BY <1>1, <1>2 DEF Roles, TypeOK
  <2>3. live # None => side'[live] \in {"serving", "over"} /\ wire'[live] = wire[live] /\ live # dial
    BY <1>1, <1>2, <1>5, <1>6 DEF Roles, TypeOK
  <2>4. CASE dial = None
    BY <1>1, <1>2, <2>1, <2>2, <2>3, <2>4 DEF Roles
  <2>5. CASE dial # None
    <3>1. dial \in Conn
      BY <1>2, <2>5 DEF TypeOK
    <3>2. CASE dial = c /\ up[c]
      BY <1>1, <1>2, <1>3, <1>6, <2>1, <2>2, <2>3, <3>1, <3>2 DEF Roles, TypeOK
    <3>3. CASE ~(dial = c /\ up[c])
      <4>1. wire'[dial] = wire[dial] /\ (up'[dial] => up[dial])
        BY <1>1, <1>6, <3>1, <3>3
      <4>2. side'[dial] # "none" /\ (side'[dial] = side[dial] \/ (side'[dial] = "serving" /\ ~up'[dial]))
        <5>1. CASE dial = c
          BY <1>1, <1>2, <3>1, <3>3, <5>1 DEF TypeOK
        <5>2. CASE dial # c
          BY <1>1, <1>2, <2>5, <3>1, <5>2 DEF TypeOK, Roles
        <5> QED
          BY <5>1, <5>2
      <4> QED
        BY <1>1, <1>2, <2>1, <2>2, <2>3, <3>1, <4>1, <4>2 DEF Roles
    <3> QED
      BY <3>2, <3>3
  <2> QED
    BY <2>4, <2>5
<1>9. Numbered'
  <2>1. next \in Nat /\ oldest \in Nat /\ 1 <= oldest
    BY <1>2, NumbersAre
  <2>2. \A i \in 1 .. Len(f) : f[i] < next
    <3>1. ASSUME NEW i \in 1 .. Len(f) PROVE f[i] < next
      <4>1. CASE i = 1
        BY <1>2, <1>3, <4>1, <2>1 DEF Ready
      <4>2. CASE i # 1
        <5>1. i \in 2 .. Len(f) /\ Len(f) = next - from + 1
          BY <1>3, <4>2, <2>1
        <5>2. f[i] = from + i - 2
          BY <1>3, <5>1
        <5> QED
          BY <1>3, <2>1, <5>1, <5>2
      <4> QED
        BY <4>1, <4>2
    <3> QED
      BY <3>1
  <2>3. \A d \in Conn : \A i \in DOMAIN wire'[d] : wire'[d][i] < next
    BY <1>2, <1>6, <2>2 DEF Numbered
  <2>4. \A d \in Conn : hello'[d] < next
    <3>1. \A d \in Conn : hello'[d] = hello[d] \/ hello'[d] = 0
      BY <1>1, <1>2 DEF TypeOK
    <3>2. 0 < next
      BY <1>2, <2>1
    <3> QED
      BY <1>2, <3>1, <3>2 DEF Numbered
  <2> QED
    BY <1>1, <1>2, <2>3, <2>4 DEF Numbered
<1> QED
  BY <1>7, <1>8, <1>9

\* The bridge at work on a request, or done with a connection that is gone.
LEMMA TypesServe ==
  ASSUME TInv, NEW c \in Conn, Request(c) \/ Teardown(c)
  PROVE  Typed' /\ Roles' /\ Numbered'
<1>1. TypeOK /\ Typed /\ Roles /\ Numbered /\ next \in Nat /\ 0 < next /\ MaxSeq \in Nat
  BY NumbersAre DEF TInv, Typed
<1>2. CASE Request(c)
  <2>1. /\ side[c] = "serving" /\ busy' = [busy EXCEPT ![c] = TRUE]
        /\ UNCHANGED <<next, oldest, sink, side, hello, up, wire, live, dial, last, inbound, resume,
                       saved, applied, got>>
    BY <1>2 DEF Request, phone, history
  <2>2. busy' \in [Conn -> BOOLEAN] /\ \A d \in Conn : busy'[d] => side[d] = "serving"
    BY <1>1, <2>1 DEF Roles, TypeOK
  <2>3. Typed'
    BY <1>1, <2>1, <2>2 DEF Typed, TypeOK
  <2>4. Roles'
    BY <1>1, <2>1, <2>2 DEF Roles
  <2> QED
    BY <1>1, <2>1, <2>3, <2>4 DEF Numbered
<1>3. CASE Teardown(c)
  <2>1. /\ ~up[c] /\ ~busy[c] /\ side[c] \in {"hello", "serving"}
        /\ side' = [side EXCEPT ![c] = "over"] /\ hello' = [hello EXCEPT ![c] = 0]
        /\ sink' = IF sink = c THEN None ELSE sink
        /\ UNCHANGED <<next, oldest, busy, up, wire, live, dial, last, inbound, resume, saved,
                       applied, got>>
    BY <1>3 DEF Teardown, phone, history
  <2>2. /\ side' \in [Conn -> {"none", "hello", "serving", "over"}]
        /\ hello' \in [Conn -> 0 .. MaxSeq] /\ sink' \in Conn \cup {None}
    BY <1>1, <2>1 DEF TypeOK
  <2>3. \A d \in Conn : /\ side'[d] = IF d = c THEN "over" ELSE side[d]
                        /\ hello'[d] = IF d = c THEN 0 ELSE hello[d]
    BY <1>1, <2>1 DEF TypeOK
  <2>4. Typed'
    BY <1>1, <2>1, <2>2 DEF Typed, TypeOK
  <2>5. live # None => live \in Conn
    BY <1>1 DEF TypeOK
  <2>6. dial # None => dial \in Conn
    BY <1>1 DEF TypeOK
  <2>7. Roles'
    BY <1>1, <2>1, <2>3, <2>5, <2>6 DEF Roles
  <2> QED
    BY <1>1, <2>1, <2>3, <2>4, <2>7 DEF Numbered
<1> QED
  BY <1>2, <1>3

\* A function on 1 .. k is a sequence.
LEMMA SeqIs ==
  ASSUME NEW S, NEW k \in Nat, NEW q \in [1 .. k -> S]
  PROVE  q \in Seq(S)
BY SeqDef

\* Its domain tells a sequence's length.
LEMMA LenIs ==
  ASSUME NEW S, NEW q \in Seq(S), NEW k \in Nat, DOMAIN q = 1 .. k
  PROVE  Len(q) = k
<1>1. PICK l \in Nat : l = Len(q) /\ 1 .. l = 1 .. k
  BY LenProperties
<1>2. l \in 1 .. l \/ l = 0
  OBVIOUS
<1>3. k \in 1 .. k \/ k = 0
  OBVIOUS
<1> QED
  BY <1>1, <1>2, <1>3

\* The first n of a sequence.
LEMMA Prefix ==
  ASSUME NEW S, NEW w \in Seq(S), NEW n \in 0 .. Len(w)
  PROVE  SubSeq(w, 1, n) \in Seq(S) /\ Len(SubSeq(w, 1, n)) = n
         /\ \A i \in 1 .. n : SubSeq(w, 1, n)[i] = w[i]
<1>1. Len(w) \in Nat /\ \A i \in 1 .. n : w[i] \in S
  BY LenProperties, ElementOfSeq
<1>2. 1 \in Int /\ n \in Int
  BY <1>1
<1>3. /\ SubSeq(w, 1, n) \in Seq(S) /\ Len(SubSeq(w, 1, n)) = IF 1 <= n THEN n - 1 + 1 ELSE 0
      /\ \A i \in 1 .. n - 1 + 1 : SubSeq(w, 1, n)[i] = w[1 + i - 1]
  BY <1>1, <1>2, SubSeqProperties
<1> QED
  BY <1>1, <1>2, <1>3

\* A prefix arrives of what a connection carries.
LEMMA TypesBreak ==
  ASSUME TInv, NEW c \in Conn, Break(c)
  PROVE  Typed' /\ Roles' /\ Numbered'
<1>1. /\ up' = [d \in Conn |-> up[d] /\ d # c]
      /\ UNCHANGED <<next, oldest, sink, side, busy, hello, live, dial, last, inbound, resume, saved,
                     applied, got>>
  BY DEF Break, Closing, bridge, phone, history
<1>2. TypeOK /\ Typed /\ Roles /\ Numbered
  BY DEF TInv, Typed
<1>3. PICK n \in 0 .. Len(wire[c]) : wire' = [wire EXCEPT ![c] = SubSeq(wire[c], 1, n)]
  BY DEF Break
<1>4. PICK w \in Seq(0 .. MaxSeq) : w = wire[c]
  BY <1>2 DEF Typed
<1>5. PICK v \in Seq(0 .. MaxSeq) : v = SubSeq(w, 1, n)
  BY <1>3, <1>4, Prefix
<1>6. Len(v) = n /\ n \in 0 .. Len(w) /\ \A i \in 1 .. n : v[i] = w[i]
  BY <1>3, <1>4, <1>5, Prefix
<1>7. /\ wire' \in [Conn -> Seq(0 .. MaxSeq)]
      /\ \A d \in Conn : wire'[d] = IF d = c THEN v ELSE wire[d]
  BY <1>2, <1>3, <1>4, <1>5 DEF Typed
<1>8. Typed'
  BY <1>1, <1>2, <1>7 DEF Typed, TypeOK
<1>9. v # <<>> => w # <<>> /\ Head(v) = Head(w)
  BY <1>4, <1>5, <1>6
<1>10. ASSUME w \in Seq(Seq1) PROVE v \in Seq(Seq1)
  BY <1>5, <1>6, <1>10, Prefix
<1>11. ASSUME v # <<>>, Tail(w) \in Seq(Seq1) PROVE Tail(v) \in Seq(Seq1)
  <2>1. n >= 1 /\ Len(w) \in Nat /\ w # <<>>
    BY <1>5, <1>6, <1>11
  <2>2. Tail(w) = SubSeq(w, 2, Len(w)) /\ Len(Tail(w)) = Len(w) - 1
        /\ \A i \in 1 .. Len(w) - 1 : Tail(w)[i] = w[i + 1]
    BY <1>4, <2>1, HeadTailProperties
  <2>3. Tail(v) \in Seq(0 .. MaxSeq) /\ Len(Tail(v)) = n - 1 /\ \A i \in 1 .. n - 1 : Tail(v)[i] = v[i + 1]
    BY <1>5, <1>6, <1>11, <2>1, HeadTailProperties
  <2>4. \A i \in 1 .. Len(Tail(w)) : Tail(w)[i] \in Seq1
    BY <1>11, ElementOfSeq
  <2>5. \A i \in 1 .. n - 1 : Tail(v)[i] \in Seq1
    BY <1>6, <2>1, <2>2, <2>3, <2>4
  <2>6. PICK k \in Nat : k = n - 1
    BY <2>1, <1>6
  <2>7. Tail(v) \in [1 .. k -> Seq1]
    BY <2>3, <2>5, <2>6, LenProperties
  <2> QED
    BY <2>7, SeqIs
<1>12. Roles'
  <2>1. \A d \in Conn : up'[d] \/ wire'[d] # <<>> => d \in {live', dial'}
    BY <1>1, <1>2, <1>4, <1>7, <1>9 DEF Roles
  <2>2. live # None => live \in Conn
    BY <1>2 DEF TypeOK
  <2>3. dial # None => dial \in Conn
    BY <1>2 DEF TypeOK
  <2>4. live # None => wire'[live] \in Seq(Seq1)
    BY <1>2, <1>4, <1>7, <1>10, <2>2 DEF Roles
  <2>5. dial # None =>
          /\ side[dial] = "hello" => wire'[dial] = <<>>
          /\ side[dial] # "hello" /\ up'[dial] => wire'[dial] # <<>>
          /\ wire'[dial] # <<>> => Head(wire'[dial]) = Ready /\ Tail(wire'[dial]) \in Seq(Seq1)
    BY <1>1, <1>2, <1>4, <1>7, <1>9, <1>11, <2>3 DEF Roles
  <2> QED
    BY <1>1, <1>2, <2>1, <2>4, <2>5 DEF Roles
<1>13. Numbered'
  <2>1. \A i \in DOMAIN v : i \in DOMAIN w /\ v[i] = w[i]
    BY <1>6, <1>4, <1>5
  <2>2. \A d \in Conn : \A i \in DOMAIN wire'[d] : wire'[d][i] < next
    BY <1>2, <1>4, <1>7, <2>1 DEF Numbered
  <2> QED
    BY <1>1, <1>2, <2>2 DEF Numbered
<1> QED
  BY <1>8, <1>12, <1>13

\* The phone says a number the bridge gave out. (clientHello's resumeState)
LEMMA TypesDial ==
  ASSUME TInv, NEW c \in Conn, Dial(c)
  PROVE  Typed' /\ Roles' /\ Numbered'
<1>1. /\ dial = None /\ side[c] = "none" /\ side' = [side EXCEPT ![c] = "hello"]
      /\ resume' = Counted /\ hello' = [hello EXCEPT ![c] = resume']
      /\ up' = [up EXCEPT ![c] = TRUE] /\ dial' = c
      /\ UNCHANGED <<next, oldest, sink, busy, wire, live, last, inbound, saved, applied, got>>
  BY DEF Dial, history
<1>2. TypeOK /\ Typed /\ Roles /\ Numbered
  BY DEF TInv, Typed
<1>3. PICK r \in 0 .. MaxSeq : r = Counted /\ r < next /\ resume <= r
  BY <1>2, CountedIs
<1>4. saved \in 0 .. r
  BY <1>2, <1>3, CatchUpAssumption DEF TypeOK
<1>5. \A d \in Conn : /\ side'[d] = IF d = c THEN "hello" ELSE side[d]
                      /\ hello'[d] = IF d = c THEN r ELSE hello[d]
                      /\ up'[d] = IF d = c THEN TRUE ELSE up[d]
  BY <1>1, <1>2, <1>3 DEF TypeOK
<1>6. Typed'
  <2>1. /\ side' \in [Conn -> {"none", "hello", "serving", "over"}]
        /\ hello' \in [Conn -> 0 .. MaxSeq] /\ up' \in [Conn -> BOOLEAN]
    BY <1>1, <1>2, <1>3 DEF TypeOK
  <2> QED
    BY <1>1, <1>2, <1>3, <1>4, <2>1 DEF Typed, TypeOK
<1>7. c # None /\ c # live /\ wire[c] = <<>>
  BY <1>1, <1>2, NoneIsNoConn DEF Roles
<1>8. live # None => live \in Conn
  BY <1>2 DEF TypeOK
<1>9. Roles'
  <2>1. \A d \in Conn : up'[d] \/ wire'[d] # <<>> => d \in {live', dial'}
    BY <1>1, <1>2, <1>5, NoneIsNoConn DEF Roles
  <2>2. \A d \in Conn : busy'[d] => side'[d] = "serving"
    BY <1>1, <1>2, <1>5 DEF Roles
  <2> QED
    <3>1. live' # None => side'[live'] \in {"serving", "over"} /\ live' # dial' /\ wire'[live'] \in Seq(Seq1)
      BY <1>1, <1>2, <1>5, <1>7, <1>8 DEF Roles
    <3>2. side'[c] = "hello" /\ wire'[c] = <<>>
      BY <1>1, <1>5, <1>7
    <3> QED
      BY <1>1, <2>1, <2>2, <3>1, <3>2 DEF Roles
<1>10. Numbered'
  BY <1>1, <1>2, <1>3, <1>5 DEF Numbered
<1> QED
  BY <1>6, <1>9, <1>10

\* disconnect() lets go of connections: they carry nothing any more.
LEMMA TypesLetGo ==
  ASSUME TInv, NEW D, LetGo(D), UNCHANGED <<bridge, hello, last, saved>>,
         live' \in {live, None}, dial' = None, {live, dial} \subseteq D \cup {live'},
         live' # None => live' \notin D,
         inbound' \in {inbound, <<>>}, applied' = applied, got' \in {got, <<>>},
         NEW r \in 0 .. MaxSeq, resume' = r, r < next, saved <= r
  PROVE  Typed' /\ Roles' /\ Numbered'
<1>1. /\ up' = [c \in Conn |-> up[c] /\ c \notin D]
      /\ wire' = [c \in Conn |-> IF c \in D THEN <<>> ELSE wire[c]]
      /\ UNCHANGED <<next, oldest, sink, side, busy, hello, last, saved>>
  BY DEF LetGo, bridge
<1>2. TypeOK /\ Typed /\ Roles /\ Numbered
  BY DEF TInv, Typed
<1>3. /\ wire' \in [Conn -> Seq(0 .. MaxSeq)] /\ up' \in [Conn -> BOOLEAN]
      /\ \A c \in Conn : wire'[c] = IF c \in D THEN <<>> ELSE wire[c]
      /\ \A c \in Conn : up'[c] <=> up[c] /\ c \notin D
  <2>1. \A c \in Conn : wire[c] \in Seq(0 .. MaxSeq) /\ <<>> \in Seq(0 .. MaxSeq)
    BY <1>2, EmptySeq DEF Typed
  <2>2. /\ \A c \in Conn : wire'[c] = IF c \in D THEN <<>> ELSE wire[c]
        /\ \A c \in Conn : up'[c] <=> up[c] /\ c \notin D
    BY <1>1
  <2>3. wire' \in [Conn -> Seq(0 .. MaxSeq)]
    BY <1>1, <2>1, Zenon
  <2>4. up' \in [Conn -> BOOLEAN]
    BY <1>1
  <2> QED
    BY <2>2, <2>3, <2>4
<1>4. inbound' \in Seq([conn : Conn, seq : Seq1])
  <2>1. inbound \in Seq([conn : Conn, seq : Seq1])
    BY <1>2 DEF TypeOK
  <2> QED
    BY <2>1, EmptySeq
<1>5. saved \in 0 .. r
  BY <1>2, CatchUpAssumption DEF TypeOK
<1>6. Typed'
  <2>1. got' \in Seq(Seq1)
    BY <1>2, EmptySeq DEF TypeOK
  <2> QED
    BY <1>1, <1>2, <1>3, <1>4, <1>5, <2>1 DEF Typed, TypeOK
<1>7. Roles'
  <2>1. \A c \in Conn : up'[c] \/ wire'[c] # <<>> => c \in {live', dial'}
    BY <1>2, <1>3 DEF Roles
  <2>2. live' # None => live' = live /\ live \in Conn /\ wire'[live'] = wire[live']
    BY <1>2, <1>3 DEF TypeOK
  <2>3. live' # None => side'[live'] \in {"serving", "over"} /\ wire'[live'] \in Seq(Seq1)
    BY <1>1, <1>2, <2>2 DEF Roles
  <2>4. \A c \in Conn : busy'[c] => side'[c] = "serving"
    BY <1>1, <1>2 DEF Roles
  <2> QED
    BY <2>1, <2>3, <2>4 DEF Roles
<1>8. Numbered'
  <2>1. \A i \in DOMAIN inbound' : inbound'[i].seq < next
    BY <1>2 DEF Numbered
  <2>2. \A c \in Conn : \A i \in DOMAIN wire'[c] : wire'[c][i] < next
    BY <1>2, <1>3 DEF Numbered
  <2> QED
    BY <1>1, <1>2, <2>1, <2>2 DEF Numbered
<1> QED
  BY <1>6, <1>7, <1>8

\* The ways to let a connection go leave everything typed. (disconnect)
LEMMA TypesHangUp ==
  ASSUME TInv, GiveUp \/ Drop \/ SwitchAway \/ Kill
  PROVE  Typed' /\ Roles' /\ Numbered'
<1>1. /\ Counted \in 0 .. MaxSeq /\ Counted < next /\ resume <= Counted
      /\ resume \in 0 .. MaxSeq /\ resume < next
      /\ saved \in 0 .. MaxSeq /\ saved <= resume /\ saved < next /\ saved <= Counted
      /\ live # dial \/ (live = None /\ dial = None)
  <2>1. /\ Counted \in 0 .. MaxSeq /\ Counted < next /\ resume <= Counted
        /\ resume \in 0 .. MaxSeq /\ resume < next /\ saved \in 0 .. resume
        /\ MaxSeq \in Nat /\ next \in Nat
    BY CountedIs, NumbersAre DEF TInv, Typed, TypeOK, Numbered
  <2>2. live # dial \/ (live = None /\ dial = None)
    BY DEF TInv, Roles
  <2> QED
    BY <2>1, <2>2
<1>2. CASE GiveUp
  <2>1. /\ dial # None /\ LetGo({dial}) /\ dial' = None
        /\ UNCHANGED <<bridge, hello, live, last, inbound, resume, saved, applied, got>>
    BY <1>2 DEF GiveUp, history
  <2> QED
    BY <1>1, <2>1, TypesLetGo
<1>3. CASE Drop
  <2>1. /\ LetGo({live, dial}) /\ dial' = None /\ live' = None /\ resume' = Counted
        /\ UNCHANGED <<bridge, hello, last, inbound, saved, applied, got>>
    BY <1>3 DEF Drop, history
  <2> QED
    BY <1>1, <2>1, TypesLetGo
<1>4. CASE SwitchAway
  <2>1. /\ dial = None /\ LetGo({live}) /\ dial' = dial /\ live' = None
        /\ UNCHANGED <<bridge, hello, last, inbound, resume, saved, applied, got>>
    BY <1>4 DEF SwitchAway, history
  <2> QED
    BY <1>1, <2>1, TypesLetGo
<1>5. CASE Kill
  <2>1. /\ LetGo({live, dial}) /\ dial' = None /\ live' = None /\ inbound' = <<>> /\ resume' = saved
        /\ got' = <<>> /\ UNCHANGED <<bridge, hello, last, saved, applied>>
    BY <1>5 DEF Kill
  <2> QED
    BY <1>1, <2>1, TypesLetGo
<1> QED
  BY <1>2, <1>3, <1>4, <1>5

\* The rest of a wire once its first n + 1 frames are taken off.
LEMMA Rest ==
  ASSUME NEW w \in Seq(0 .. MaxSeq), w # <<>>, Tail(w) \in Seq(Seq1), NEW n \in 0 .. Len(w) - 1
  PROVE  /\ SubSeq(w, n + 2, Len(w)) \in Seq(Seq1) /\ SubSeq(w, n + 2, Len(w)) \in Seq(0 .. MaxSeq)
         /\ Len(SubSeq(w, n + 2, Len(w))) = Len(w) - n - 1
         /\ \A i \in 1 .. Len(w) - n - 1 : SubSeq(w, n + 2, Len(w))[i] = w[n + 1 + i]
<1>1. Len(w) \in Nat /\ Len(w) >= 1
  BY EmptySeq, LenProperties
<1>2. PICK m \in Int, l \in Int : m = n + 2 /\ l = Len(w)
  BY <1>1
<1>3. \A i \in 2 .. l : w[i] \in Seq1 /\ w[i] \in 0 .. MaxSeq
  <2>1. Len(Tail(w)) = l - 1 /\ \A j \in 1 .. l - 1 : Tail(w)[j] = w[j + 1]
    BY <1>2, HeadTailProperties
  <2>2. \A j \in 1 .. l - 1 : Tail(w)[j] \in Seq1
    BY <2>1, ElementOfSeq
  <2>3. ASSUME NEW i \in 2 .. l PROVE w[i] \in Seq1 /\ w[i] \in 0 .. MaxSeq
    <3>1. i - 1 \in 1 .. l - 1 /\ i \in 1 .. Len(w) /\ i - 1 + 1 = i
      BY <1>2
    <3> QED
      BY <2>1, <2>2, <3>1, ElementOfSeq
  <2> QED
    BY <2>3
<1>4. \A i \in m .. l : w[i] \in Seq1 /\ w[i] \in 0 .. MaxSeq
  BY <1>1, <1>2, <1>3
<1>5. PICK v : v = SubSeq(w, m, l)
  OBVIOUS
<1>6. /\ v \in Seq(Seq1) /\ v \in Seq(0 .. MaxSeq) /\ Len(v) = IF m <= l THEN l - m + 1 ELSE 0
      /\ \A i \in 1 .. l - m + 1 : v[i] = w[m + i - 1]
  BY <1>4, <1>5, SubSeqProperties
<1> QED
  BY <1>1, <1>2, <1>5, <1>6

\* What Commit leaves of each connection.
LEMMA Committed ==
  ASSUME Typed, Roles, Commit
  PROVE  \E n \in 0 .. Len(wire[dial]) - 1 :
           /\ dial \in Conn /\ wire[dial] # <<>> /\ side[dial] \in {"serving", "over"}
           /\ "behind_ready" \in Windows \/ n = 0
           /\ wire' \in [Conn -> Seq(0 .. MaxSeq)]
           /\ wire'[dial] = SubSeq(wire[dial], n + 2, Len(wire[dial]))
           /\ wire'[dial] \in Seq(Seq1) /\ Len(wire'[dial]) = Len(wire[dial]) - n - 1
           /\ \A i \in 1 .. Len(wire'[dial]) : wire'[dial][i] = wire[dial][n + 1 + i]
           /\ \A c \in Conn \ {dial} : wire'[c] = IF c = live THEN <<>> ELSE wire[c]
<1>1. /\ dial # None /\ wire[dial] # <<>>
      /\ \E n \in IF "behind_ready" \in Windows THEN 0 .. Len(wire[dial]) - 1 ELSE {0} :
           wire' = [c \in Conn |-> CASE c = dial -> SubSeq(wire[c], n + 2, Len(wire[c]))
                                     [] c = live -> <<>>
                                     [] OTHER    -> wire[c]]
  BY DEF Commit
<1>2. dial \in Conn /\ live # dial
  BY <1>1 DEF Typed, TypeOK, Roles
<1>3. PICK w \in Seq(0 .. MaxSeq) : w = wire[dial]
  BY <1>2 DEF Typed
<1>4. Tail(w) \in Seq(Seq1) /\ side[dial] \in {"serving", "over"}
  BY <1>1, <1>2, <1>3 DEF Roles, Typed, TypeOK
<1>5. Len(w) >= 1 /\ Len(w) \in Nat
  BY <1>1, <1>3, EmptySeq
<1>6. PICK n \in 0 .. Len(w) - 1 :
        /\ "behind_ready" \in Windows \/ n = 0
        /\ wire' = [c \in Conn |-> CASE c = dial -> SubSeq(wire[c], n + 2, Len(wire[c]))
                                     [] c = live -> <<>>
                                     [] OTHER    -> wire[c]]
  BY <1>1, <1>3, <1>5
<1>7. PICK v \in Seq(0 .. MaxSeq) :
        /\ v = SubSeq(w, n + 2, Len(w)) /\ v \in Seq(Seq1) /\ Len(v) = Len(w) - n - 1
        /\ \A i \in 1 .. Len(w) - n - 1 : v[i] = w[n + 1 + i]
  BY <1>1, <1>3, <1>4, Rest
<1>8. \A c \in Conn : wire'[c] = IF c = dial THEN v ELSE IF c = live THEN <<>> ELSE wire[c]
  <2>1. wire'[dial] = v
    BY <1>2, <1>3, <1>6, <1>7
  <2>2. ASSUME NEW c \in Conn, c # dial PROVE wire'[c] = IF c = live THEN <<>> ELSE wire[c]
    BY <1>6, <2>2
  <2> QED
    BY <2>1, <2>2
<1>9. wire' \in [Conn -> Seq(0 .. MaxSeq)]
  <2>1. wire' = [c \in Conn |-> wire'[c]]
    BY <1>6
  <2>2. \A c \in Conn : wire'[c] \in Seq(0 .. MaxSeq)
    BY <1>7, <1>8, EmptySeq DEF Typed
  <2> QED
    BY <2>1, <2>2
<1> QED
  BY <1>1, <1>2, <1>3, <1>4, <1>6, <1>7, <1>8, <1>9

\* The connection being opened becomes the live one. (connect's commit)
LEMMA TypesCommit ==
  ASSUME TInv, Commit
  PROVE  Typed' /\ Roles' /\ Numbered'
<1>1. /\ dial # None /\ live' = dial /\ dial' = None
      /\ up' = [d \in Conn |-> up[d] /\ d # live]
      /\ last' = [last EXCEPT ![dial] = SkipThrough]
      /\ UNCHANGED <<next, oldest, sink, side, busy, hello, inbound, resume, saved, applied, got>>
  BY DEF Commit, Closing, bridge, history
<1>2. TypeOK /\ Typed /\ Roles /\ Numbered /\ MaxSeq \in Nat /\ next \in Nat /\ 0 < next
  BY NumbersAre DEF TInv, Typed
<1>3. PICK n \in 0 .. Len(wire[dial]) - 1 :
           /\ dial \in Conn /\ side[dial] \in {"serving", "over"}
           /\ wire' \in [Conn -> Seq(0 .. MaxSeq)]
           /\ wire'[dial] \in Seq(Seq1) /\ Len(wire'[dial]) = Len(wire[dial]) - n - 1
           /\ \A i \in 1 .. Len(wire'[dial]) : wire'[dial][i] = wire[dial][n + 1 + i]
           /\ \A c \in Conn \ {dial} : wire'[c] = IF c = live THEN <<>> ELSE wire[c]
  BY <1>2, Committed
<1>4. SkipThrough \in 0 .. MaxSeq /\ SkipThrough < next
  BY <1>2 DEF SkipThrough, TypeOK, Numbered
<1>5. Typed'
  <2>1. last' \in [Conn -> 0 .. MaxSeq] /\ up' \in [Conn -> BOOLEAN]
    BY <1>1, <1>2, <1>4 DEF TypeOK
  <2> QED
    BY <1>1, <1>2, <1>3, <2>1 DEF Typed, TypeOK
<1>6. Roles'
  <2>1. \A c \in Conn : up'[c] \/ wire'[c] # <<>> => c \in {live', dial'}
    BY <1>1, <1>2, <1>3 DEF Roles
  <2>2. \A c \in Conn : busy'[c] => side'[c] = "serving"
    BY <1>1, <1>2 DEF Roles
  <2> QED
    BY <1>1, <1>3, <2>1, <2>2 DEF Roles
<1>7. Numbered'
  <2>1. PICK w \in Seq(0 .. MaxSeq), v \in Seq(Seq1) : w = wire[dial] /\ v = wire'[dial]
    BY <1>2, <1>3 DEF Typed
  <2>2. \A i \in 1 .. Len(v) : n + 1 + i \in 1 .. Len(w)
    BY <1>3, <2>1, LenProperties
  <2>3. \A i \in DOMAIN w : w[i] < next
    BY <1>2, <1>3, <2>1 DEF Numbered
  <2>4. \A i \in DOMAIN v : v[i] < next
    BY <1>3, <2>1, <2>2, <2>3, LenProperties
  <2>5. ASSUME NEW c \in Conn PROVE \A i \in DOMAIN wire'[c] : wire'[c][i] < next
    <3>1. CASE c = dial
      BY <2>1, <2>4, <3>1
    <3>2. CASE c # dial /\ c = live
      BY <1>3, <3>2
    <3>3. CASE c # dial /\ c # live
      BY <1>2, <1>3, <3>3 DEF Numbered
    <3> QED
      BY <3>1, <3>2, <3>3
  <2>6. \A c \in Conn : last'[c] < next
    BY <1>1, <1>2, <1>4 DEF Numbered, TypeOK
  <2> QED
    BY <1>1, <1>2, <2>5, <2>6 DEF Numbered
<1> QED
  BY <1>5, <1>6, <1>7

\* A frame is read off the live connection. (_handleRaw)
LEMMA Received ==
  ASSUME Typed, Roles, Receive
  PROVE  \E w \in Seq(Seq1) :
           /\ live \in Conn /\ w = wire[live] /\ w # <<>>
           /\ wire' = [wire EXCEPT ![live] = Tail(w)]
           /\ inbound' = Append(inbound, [conn |-> live, seq |-> w[1]])
           /\ w[1] \in Seq1 /\ Tail(w) \in Seq(Seq1) /\ Tail(w) \in Seq(0 .. MaxSeq)
           /\ Len(w) >= 1 /\ Len(Tail(w)) = Len(w) - 1 /\ \A i \in 1 .. Len(Tail(w)) : Tail(w)[i] = w[i + 1]
           /\ UNCHANGED <<next, oldest, sink, side, busy, hello, up, live, dial, last, resume, saved,
                          applied, got>>
<1>1. /\ live # None /\ wire[live] # <<>>
      /\ inbound' = Append(inbound, [conn |-> live, seq |-> Head(wire[live])])
      /\ wire' = [wire EXCEPT ![live] = Tail(wire[live])]
      /\ UNCHANGED <<next, oldest, sink, side, busy, hello, up, live, dial, last, resume, saved,
                     applied, got>>
  BY DEF Receive, bridge, history
<1>2. PICK w \in Seq(Seq1) : w = wire[live]
  BY <1>1 DEF Roles
<1>3. live \in Conn
  BY <1>1 DEF Typed, TypeOK
<1>4. Len(w) \in Nat /\ Len(w) >= 1 /\ Head(w) = w[1]
  BY <1>1, <1>2, EmptySeq
<1>5. w[1] \in Seq1 /\ Tail(w) \in Seq(Seq1) /\ Len(Tail(w)) = Len(w) - 1
      /\ \A i \in 1 .. Len(Tail(w)) : Tail(w)[i] = w[i + 1]
  BY <1>1, <1>2, <1>4, HeadTailProperties
<1>6. Tail(w) \in Seq(0 .. MaxSeq)
  <2>1. Seq1 \subseteq 0 .. MaxSeq
    BY CatchUpAssumption DEF Seq1
  <2> QED
    BY <1>5, <2>1, SeqMonotonic
<1> QED
  BY <1>1, <1>2, <1>3, <1>4, <1>5, <1>6

\* A frame read is one of the bridge's numbers. (_handleRaw)
LEMMA TypesReceive ==
  ASSUME TInv, Receive
  PROVE  Typed' /\ Roles' /\ Numbered'
<1>1. TypeOK /\ Typed /\ Roles /\ Numbered
  BY DEF TInv, Typed
<1>2. PICK w \in Seq(Seq1) :
           /\ live \in Conn /\ w = wire[live] /\ w # <<>>
           /\ wire' = [wire EXCEPT ![live] = Tail(w)]
           /\ inbound' = Append(inbound, [conn |-> live, seq |-> w[1]])
           /\ w[1] \in Seq1 /\ Tail(w) \in Seq(Seq1) /\ Tail(w) \in Seq(0 .. MaxSeq)
           /\ Len(w) >= 1 /\ Len(Tail(w)) = Len(w) - 1 /\ \A i \in 1 .. Len(Tail(w)) : Tail(w)[i] = w[i + 1]
           /\ UNCHANGED <<next, oldest, sink, side, busy, hello, up, live, dial, last, resume, saved,
                          applied, got>>
  BY <1>1, Received
<1>3. PICK f \in [conn : Conn, seq : Seq1] : f = [conn |-> live, seq |-> w[1]]
  BY <1>2
<1>4. /\ wire' \in [Conn -> Seq(0 .. MaxSeq)]
      /\ \A c \in Conn : wire'[c] = IF c = live THEN Tail(w) ELSE wire[c]
  BY <1>1, <1>2 DEF Typed
<1>5. inbound' \in Seq([conn : Conn, seq : Seq1])
  <2>1. inbound \in Seq([conn : Conn, seq : Seq1])
    BY <1>1 DEF TypeOK
  <2> QED
    BY <1>2, <1>3, <2>1, AppendProperties
<1>6. Typed'
  BY <1>1, <1>2, <1>4, <1>5 DEF Typed, TypeOK
<1>7. live # None /\ live # dial
  BY <1>1, <1>2, NoneIsNoConn DEF Roles
<1>8. Roles'
  <2>1. dial # None => dial \in Conn /\ wire'[dial] = wire[dial]
    BY <1>1, <1>4, <1>7 DEF TypeOK
  <2>2. \A c \in Conn : up'[c] \/ wire'[c] # <<>> => c \in {live', dial'}
    BY <1>1, <1>2, <1>4 DEF Roles
  <2> QED
    BY <1>1, <1>2, <1>4, <1>7, <2>1, <2>2 DEF Roles
<1>9. Numbered'
  <2>1. \A i \in DOMAIN w : w[i] < next
    BY <1>1, <1>2 DEF Numbered
  <2>2. \A i \in DOMAIN Tail(w) : Tail(w)[i] < next
    <3>1. ASSUME NEW i \in DOMAIN Tail(w) PROVE Tail(w)[i] < next
      <4>1. i \in 1 .. Len(w) - 1 /\ i + 1 \in DOMAIN w /\ Tail(w)[i] = w[i + 1]
        BY <1>2, <3>1, LenProperties
      <4> QED
        BY <2>1, <4>1
    <3> QED
      BY <3>1
  <2>3. \A c \in Conn : \A i \in DOMAIN wire'[c] : wire'[c][i] < next
    BY <1>1, <1>4, <2>2 DEF Numbered
  <2>4. \A i \in DOMAIN inbound' : inbound'[i].seq < next
    <3>1. inbound \in Seq([conn : Conn, seq : Seq1])
      BY <1>1 DEF TypeOK
    <3>2. f.seq < next
      BY <1>2, <1>3, <2>1, LenProperties
    <3>3. \A i \in DOMAIN inbound' : inbound'[i] = f \/ (i \in DOMAIN inbound /\ inbound'[i] = inbound[i])
      BY <1>2, <1>3, <3>1, AppendProperties, LenProperties
    <3> QED
      BY <1>1, <3>2, <3>3 DEF Numbered
  <2> QED
    BY <1>1, <1>2, <2>3, <2>4 DEF Numbered
<1> QED
  BY <1>6, <1>8, <1>9

\* A frame is counted and handed on, or dropped as a replay. (_receive)
LEMMA Decrypted ==
  ASSUME Typed, Decrypt
  PROVE  \E f \in [conn : Conn, seq : Seq1], rest \in Seq([conn : Conn, seq : Seq1]) :
           /\ inbound # <<>> /\ f = inbound[1] /\ inbound' = rest
           /\ Len(inbound) >= 1 /\ DOMAIN rest = 1 .. Len(inbound) - 1
           /\ \A i \in DOMAIN rest : i + 1 \in DOMAIN inbound /\ rest[i] = inbound[i + 1]
           /\ IF f.seq > last[f.conn]
                THEN /\ last' = [last EXCEPT ![f.conn] = f.seq]
                     /\ applied' = applied \cup {f.seq} /\ got' = Append(got, f.seq)
                ELSE UNCHANGED <<last, applied, got>>
           /\ UNCHANGED <<next, oldest, sink, side, busy, hello, up, wire, live, dial, resume, saved>>
<1>1. inbound \in Seq([conn : Conn, seq : Seq1])
  BY DEF Typed, TypeOK
<1>2. /\ inbound # <<>> /\ inbound' = Tail(inbound)
      /\ IF Head(inbound).seq > last[Head(inbound).conn]
           THEN /\ last' = [last EXCEPT ![Head(inbound).conn] = Head(inbound).seq]
                /\ applied' = applied \cup {Head(inbound).seq} /\ got' = Append(got, Head(inbound).seq)
           ELSE UNCHANGED <<last, applied, got>>
      /\ UNCHANGED <<next, oldest, sink, side, busy, hello, up, wire, live, dial, resume, saved>>
  BY DEF Decrypt, history, bridge
<1>3. PICK f \in [conn : Conn, seq : Seq1], rest \in Seq([conn : Conn, seq : Seq1]) :
        f = Head(inbound) /\ rest = Tail(inbound) /\ f = inbound[1]
  <2>1. Head(inbound) \in [conn : Conn, seq : Seq1] /\ Tail(inbound) \in Seq([conn : Conn, seq : Seq1])
    BY <1>1, <1>2, HeadTailProperties
  <2>2. Head(inbound) = inbound[1]
    BY <1>1, <1>2
  <2> QED
    BY <2>1, <2>2
<1>4. Len(inbound) \in Nat /\ Len(inbound) >= 1 /\ DOMAIN inbound = 1 .. Len(inbound)
  BY <1>1, <1>2, EmptySeq, LenProperties
<1>5. /\ DOMAIN rest = 1 .. Len(inbound) - 1 /\ Len(rest) = Len(inbound) - 1
      /\ \A i \in 1 .. Len(rest) : rest[i] = inbound[i + 1]
  BY <1>1, <1>2, <1>3, HeadTailProperties, LenProperties
<1>6. \A i \in DOMAIN rest : i + 1 \in DOMAIN inbound /\ rest[i] = inbound[i + 1]
  BY <1>4, <1>5
<1> QED
  BY <1>2, <1>3, <1>4, <1>5, <1>6

\* What is handed over is one of the bridge's numbers. (_receive)
LEMMA TypesDecrypt ==
  ASSUME TInv, Decrypt
  PROVE  Typed' /\ Roles' /\ Numbered'
<1>1. TypeOK /\ Typed /\ Roles /\ Numbered
  BY DEF TInv, Typed
<1>2. PICK f \in [conn : Conn, seq : Seq1], rest \in Seq([conn : Conn, seq : Seq1]) :
           /\ inbound # <<>> /\ f = inbound[1] /\ inbound' = rest
           /\ Len(inbound) >= 1
           /\ \A i \in DOMAIN rest : i + 1 \in DOMAIN inbound /\ rest[i] = inbound[i + 1]
           /\ IF f.seq > last[f.conn]
                THEN /\ last' = [last EXCEPT ![f.conn] = f.seq]
                     /\ applied' = applied \cup {f.seq} /\ got' = Append(got, f.seq)
                ELSE UNCHANGED <<last, applied, got>>
           /\ UNCHANGED <<next, oldest, sink, side, busy, hello, up, wire, live, dial, resume, saved>>
  BY <1>1, Decrypted
<1>3. Seq1 \subseteq 0 .. MaxSeq
  BY CatchUpAssumption DEF Seq1
<1>4. /\ last' \in [Conn -> 0 .. MaxSeq] /\ applied' \subseteq Seq1 /\ got' \in Seq(Seq1)
      /\ \A c \in Conn : last'[c] = last[c] \/ last'[c] = f.seq
  <2>1. /\ last \in [Conn -> 0 .. MaxSeq] /\ applied \subseteq Seq1 /\ got \in Seq(Seq1)
        /\ f.seq \in 0 .. MaxSeq /\ f.seq \in Seq1
    BY <1>1, <1>2, <1>3 DEF TypeOK
  <2>2. CASE f.seq > last[f.conn]
    <3>1. Append(got, f.seq) \in Seq(Seq1)
      BY <2>1, AppendProperties
    <3> QED
      BY <1>2, <2>1, <2>2, <3>1
  <2>3. CASE ~(f.seq > last[f.conn])
    BY <1>2, <2>1, <2>3
  <2> QED
    BY <2>2, <2>3
<1>5. Typed'
  BY <1>1, <1>2, <1>4 DEF Typed, TypeOK
<1>6. Roles'
  BY <1>1, <1>2 DEF Roles
<1>7. Numbered'
  <2>1. f.seq < next
    <3>1. inbound \in Seq([conn : Conn, seq : Seq1])
      BY <1>1 DEF TypeOK
    <3>2. 1 \in DOMAIN inbound
      BY <1>2, <3>1, LenProperties
    <3> QED
      BY <1>1, <1>2, <3>2 DEF Numbered
  <2>2. \A i \in DOMAIN rest : rest[i].seq < next
    BY <1>1, <1>2 DEF Numbered
  <2>3. \A c \in Conn : last'[c] < next
    BY <1>1, <1>4, <2>1 DEF Numbered
  <2> QED
    BY <1>1, <1>2, <2>2, <2>3 DEF Numbered
<1> QED
  BY <1>5, <1>6, <1>7

\* What was counted is noted, in memory or in the database.
LEMMA TypesNote ==
  ASSUME TInv, Checkpoint \/ Save
  PROVE  Typed' /\ Roles' /\ Numbered'
<1>1. TypeOK /\ Typed /\ Roles /\ Numbered /\ MaxSeq \in Nat
  BY NumbersAre DEF TInv, Typed
<1>2. Counted \in 0 .. MaxSeq /\ Counted < next /\ resume <= Counted
  BY <1>1, CountedIs
<1>3. /\ UNCHANGED <<next, oldest, sink, side, busy, hello, up, wire, live, dial, last, inbound, applied, got>>
      /\ (resume' = Counted /\ saved' = saved) \/ (saved' = resume /\ resume' = resume)
  BY DEF Checkpoint, Save, bridge, history
<1>4. resume' \in 0 .. MaxSeq /\ saved' \in 0 .. resume' /\ resume' < next
  <2>1. PICK r \in 0 .. MaxSeq, s \in 0 .. MaxSeq : resume' = r /\ saved' = s /\ s <= r /\ r < next
    <3>1. resume \in 0 .. MaxSeq /\ saved \in 0 .. MaxSeq /\ saved <= resume /\ resume < next
          /\ saved <= Counted
      BY <1>1, <1>2 DEF TypeOK, Numbered
    <3> QED
      BY <1>1, <1>2, <1>3, <3>1
  <2> QED
    BY <1>1, <2>1
<1>5. Typed'
  BY <1>1, <1>3, <1>4 DEF Typed, TypeOK
<1>6. Roles'
  BY <1>1, <1>3 DEF Roles
<1>7. Numbered'
  BY <1>1, <1>3, <1>4 DEF Numbered
<1> QED
  BY <1>5, <1>6, <1>7

\* Every step keeps the types and roles.
LEMMA TypesStep == TInv /\ [Next]_vars => TInv'
<1> SUFFICES ASSUME TInv, [Next]_vars PROVE TInv'
  OBVIOUS
<1>1. SinkServes'
  BY RegistryStep DEF TInv, Typed, TypeOK, RegistryInv, RegistryType
<1>2. Typed' /\ Roles' /\ Numbered'
  <2>1. CASE Notify
    <3>1. /\ Record /\ Carry(sink, <<next>>)
          /\ UNCHANGED <<sink, side, busy, hello, up, phone, history>>
      BY <2>1 DEF Notify
    <3>2. /\ sink \in Conn \cup {None} /\ (sink # None => side[sink] = "serving")
          /\ busy' \in [Conn -> BOOLEAN]
      BY <3>1 DEF TInv, Typed, TypeOK, SinkServes
    <3> QED
      BY <3>1, <3>2, TypesSent
  <2>2. ASSUME NEW c \in Conn, Respond(c) PROVE Typed' /\ Roles' /\ Numbered'
    <3>1. /\ busy[c] /\ Record /\ Carry(c, <<next>>) /\ busy' = [busy EXCEPT ![c] = FALSE]
          /\ UNCHANGED <<sink, side, hello, up, phone, history>>
      BY <2>2 DEF Respond
    <3>2. /\ side[c] = "serving" /\ busy' \in [Conn -> BOOLEAN]
          /\ \A d \in Conn : busy'[d] => busy[d]
      BY <3>1 DEF TInv, Typed, TypeOK, Roles
    <3> QED
      BY <3>1, <3>2, TypesSent
  <2>3. CASE UNCHANGED vars
    BY <2>3 DEF vars, bridge, phone, history, TInv, Typed, TypeOK, Roles, Numbered
  <2> QED
    BY <2>1, <2>2, <2>3, TypesAccept, TypesServe, TypesBreak, TypesDial, TypesHangUp, TypesCommit,
       TypesReceive, TypesDecrypt, TypesNote DEF Next, BridgeNext, PhoneNext
<1> QED
  BY <1>1, <1>2 DEF TInv

\* The types and roles, always.
LEMMA Types == Spec => []TInv
BY TypesInit, TypesStep, PTL DEF Spec

\* Every variable has its type, and the log keeps at most its window and at least
\* the latest message, on every schedule. (OutboundLog.record, SessionCoordinator)
THEOREM TypeCorrect == Spec => []TypeOK
<1>1. TInv => TypeOK
  BY DEF TInv, Typed
<1> QED
  BY <1>1, Types, PTL
--------------------------------------------------------------------------------
(* Nothing is passed over *)

\* Every number from o up to one of w is in S or comes earlier in w.
NoGap(w, S, o) ==
  \A i \in DOMAIN w : \A k \in o .. w[i] - 1 : k \in S \/ \E j \in 1 .. i - 1 : w[j] = k

\* What w carries continues S, and, when nothing of it was lost, up to n.
Bridges(w, S, o, n, whole) ==
  /\ NoGap(w, S, o)
  /\ whole => \A k \in o .. n - 1 : k \in S \/ \E j \in 1 .. Len(w) : w[j] = k

\* The numbers that wait to be decrypted.
Numbers(q) == [i \in DOMAIN q |-> q[i].seq]
Queued == {inbound[i].seq : i \in DOMAIN inbound}

\* The bridge serves connection c, and c works.
Works(c) == side[c] = "serving" /\ up[c]

\* What the phone counts was handed over, or is not kept any more; what it was
\* not handed and the bridge keeps comes without a gap on the connections.
SkipInv ==
  /\ \A k \in Retained : k <= resume => k \in applied
  /\ \A c \in Conn : \A k \in Retained : k <= last[c] => k \in applied
  /\ Bridges(Numbers(inbound), applied, oldest, next, FALSE)
  /\ live # None => Bridges(wire[live], applied \cup Queued, oldest, next, Works(live))
  /\ dial # None =>
       /\ side[dial] = "hello" => \A k \in Retained : k <= hello[dial] => k \in applied
       /\ Bridges(wire[dial], applied, oldest, next, Works(dial))

\* The schedules on which nothing is passed over.
KeptSchedules == "late_response" \notin Windows /\ "behind_ready" \notin Windows

\* Having more makes no gap.
LEMMA BridgesMore ==
  ASSUME NEW o \in Nat, NEW n \in Nat, NEW w \in Seq(Nat), NEW S, NEW T, NEW whole, NEW more,
         Bridges(w, S, o, n, whole), more => whole,
         \A k \in o .. n - 1 : k \in S => k \in T,
         \A i \in DOMAIN w : w[i] < n
  PROVE  Bridges(w, T, o, n, more)
<1>1. NoGap(w, T, o)
  <2> SUFFICES ASSUME NEW i \in DOMAIN w, NEW k \in o .. w[i] - 1, ~\E j \in 1 .. i - 1 : w[j] = k
               PROVE  k \in T
    BY DEF NoGap
  <2>1. k \in S
    BY DEF Bridges, NoGap
  <2>2. w[i] \in Nat /\ w[i] < n
    BY LenProperties, ElementOfSeq
  <2> QED
    BY <2>1, <2>2
<1> QED
  BY <1>1 DEF Bridges

\* The next message continues what works, and is no gap to come.
LEMMA BridgesSent ==
  ASSUME NEW o \in Nat, NEW o2 \in Nat, o <= o2, NEW n \in Nat, NEW w \in Seq(Nat), NEW S, NEW whole,
         Bridges(w, S, o, n, whole), NEW v \in Seq(Nat), v = IF whole THEN w \o <<n>> ELSE w
  PROVE  Bridges(v, S, o2, n + 1, whole)
<1>1. NoGap(w, S, o2)
  <2> SUFFICES ASSUME NEW i \in DOMAIN w, NEW k \in o2 .. w[i] - 1
               PROVE  k \in S \/ \E j \in 1 .. i - 1 : w[j] = k
    BY DEF NoGap
  <2>1. w[i] \in Nat
    BY LenProperties, ElementOfSeq
  <2>2. k \in o .. w[i] - 1
    BY <2>1
  <2> QED
    BY <2>2 DEF Bridges, NoGap
<1>2. CASE ~whole
  BY <1>1, <1>2 DEF Bridges
<1>3. CASE whole
  <2>1. <<n>> \in Seq(Nat) /\ Len(<<n>>) = 1 /\ <<n>>[1] = n
    OBVIOUS
  <2>2. v = w \o <<n>>
    BY <1>3
  <2>3. /\ Len(v) = Len(w) + 1 /\ Len(w) \in Nat
        /\ \A i \in 1 .. Len(w) + 1 : v[i] = IF i <= Len(w) THEN w[i] ELSE <<n>>[i - Len(w)]
    BY <2>1, <2>2, ConcatProperties, LenProperties
  <2>4. DOMAIN v = 1 .. Len(w) + 1 /\ DOMAIN w = 1 .. Len(w)
    BY <2>3, LenProperties
  <2>5. /\ \A i \in 1 .. Len(w) : v[i] = w[i]
        /\ v[Len(w) + 1] = n
    BY <2>1, <2>3
  <2>6. NoGap(v, S, o2)
    <3> SUFFICES ASSUME NEW i \in DOMAIN v, NEW k \in o2 .. v[i] - 1
                 PROVE  k \in S \/ \E j \in 1 .. i - 1 : v[j] = k
      BY DEF NoGap
    <3>1. CASE i \in 1 .. Len(w)
      <4>1. k \in o2 .. w[i] - 1
        BY <2>5, <3>1
      <4>2. k \in S \/ \E j \in 1 .. i - 1 : w[j] = k
        BY <1>1, <2>4, <3>1, <4>1 DEF NoGap
      <4>3. \A j \in 1 .. i - 1 : v[j] = w[j]
        BY <2>3, <2>5, <3>1
      <4> QED
        BY <4>2, <4>3
    <3>2. CASE i = Len(w) + 1
      <4>1. k \in o .. n - 1 /\ i - 1 = Len(w)
        BY <2>3, <2>5, <3>2
      <4>2. k \in S \/ \E j \in 1 .. Len(w) : w[j] = k
        BY <1>3, <4>1 DEF Bridges
      <4> QED
        BY <2>5, <4>1, <4>2
    <3> QED
      BY <2>3, <2>4, <3>1, <3>2
  <2>7. ASSUME NEW k \in o2 .. n + 1 - 1 PROVE k \in S \/ \E j \in 1 .. Len(v) : v[j] = k
    <3>1. CASE k = n
      BY <2>3, <2>5, <3>1
    <3>2. CASE k \in o .. n - 1
      <4>1. k \in S \/ \E j \in 1 .. Len(w) : w[j] = k
        BY <1>3, <3>2 DEF Bridges
      <4> QED
        BY <2>3, <2>5, <4>1
    <3>3. k = n \/ k \in o .. n - 1
      BY <2>7
    <3> QED
      BY <3>1, <3>2, <3>3
  <2> QED
    BY <2>6, <2>7 DEF Bridges
<1> QED
  BY <1>2, <1>3

\* What arrives of a connection that breaks has no gap either.
LEMMA BridgesPrefix ==
  ASSUME NEW o \in Nat, NEW n \in Nat, NEW w \in Seq(Nat), NEW v \in Seq(Nat), NEW S, NEW whole,
         Bridges(w, S, o, n, whole), Len(v) <= Len(w), \A i \in 1 .. Len(v) : v[i] = w[i]
  PROVE  Bridges(v, S, o, n, FALSE)
<1>1. DOMAIN v = 1 .. Len(v) /\ DOMAIN w = 1 .. Len(w) /\ Len(v) \in Nat /\ Len(w) \in Nat
  BY LenProperties
<1>2. NoGap(v, S, o)
  <2> SUFFICES ASSUME NEW i \in DOMAIN v, NEW k \in o .. v[i] - 1
               PROVE  k \in S \/ \E j \in 1 .. i - 1 : v[j] = k
    BY DEF NoGap
  <2>1. i \in DOMAIN w /\ v[i] = w[i] /\ \A j \in 1 .. i - 1 : v[j] = w[j]
    BY <1>1
  <2>2. k \in S \/ \E j \in 1 .. i - 1 : w[j] = k
    BY <2>1 DEF Bridges, NoGap
  <2> QED
    BY <2>1, <2>2
<1> QED
  BY <1>2 DEF Bridges

\* An index moved up by one.
LEMMA Shifted ==
  ASSUME NEW l \in Nat, NEW i \in 1 .. l
  PROVE  i + 1 \in 1 .. l + 1 /\ i + 1 - 1 = i /\ i <= l + 1
OBVIOUS

\* Once its first frame is taken off, what is left continues that one too.
LEMMA BridgesRest ==
  ASSUME NEW o \in Nat, NEW n \in Nat, NEW w \in Seq(Nat), NEW v \in Seq(Nat), NEW S, NEW T, NEW whole,
         Bridges(w, S, o, n, whole), Len(w) >= 1, Len(v) = Len(w) - 1,
         \A i \in 1 .. Len(v) : v[i] = w[i + 1], \A i \in DOMAIN w : w[i] < n,
         \A k \in o .. n - 1 : k \in S \cup {w[1]} => k \in T
  PROVE  Bridges(v, T, o, n, whole)
<1>1. DOMAIN v = 1 .. Len(v) /\ DOMAIN w = 1 .. Len(w) /\ Len(v) \in Nat /\ Len(w) \in Nat
  BY LenProperties
<1>2. \A m \in Nat : \A j \in 1 .. m : m <= Len(w) => w[j] = w[1] \/ \E i \in 1 .. m - 1 : v[i] = w[j]
  <2> SUFFICES ASSUME NEW m \in Nat, NEW j \in 1 .. m, m <= Len(w), j # 1
               PROVE  \E i \in 1 .. m - 1 : v[i] = w[j]
    OBVIOUS
  <2>1. PICK i \in Nat : i = j - 1
    OBVIOUS
  <2>2. i \in 1 .. m - 1 /\ i \in 1 .. Len(v) /\ i + 1 = j
    BY <1>1, <2>1
  <2>3. v[i] = w[i + 1]
    BY <2>2
  <2> QED
    BY <2>2, <2>3
<1>3. NoGap(v, T, o)
  <2> SUFFICES ASSUME NEW i \in DOMAIN v, NEW k \in o .. v[i] - 1
               PROVE  k \in T \/ \E j \in 1 .. i - 1 : v[j] = k
    BY DEF NoGap
  <2>1. i + 1 \in DOMAIN w /\ v[i] = w[i + 1] /\ i + 1 - 1 = i /\ i \in Nat /\ i <= Len(w)
    <3>1. i \in 1 .. Len(v) /\ i \in Nat
      BY <1>1
    <3>2. PICK l \in Nat : l = Len(v) /\ Len(w) = l + 1
      BY <1>1
    <3>3. i + 1 \in 1 .. l + 1 /\ i + 1 - 1 = i /\ i <= l + 1
      <4>1. i \in 1 .. l
        BY <3>1, <3>2
      <4> QED
        BY <3>2, <4>1, Shifted, Zenon
    <3>4. i + 1 \in DOMAIN w
      BY <1>1, <3>2, <3>3
    <3>5. v[i] = w[i + 1]
      BY <3>1
    <3> QED
      BY <3>1, <3>2, <3>3, <3>4, <3>5
  <2>2. w[i + 1] \in Nat /\ w[i + 1] < n
    BY <2>1, <1>1, ElementOfSeq
  <2>3. k \in o .. w[i + 1] - 1 /\ k \in o .. n - 1
    BY <2>1, <2>2
  <2>4. k \in S \/ \E j \in 1 .. i : w[j] = k
    BY <2>1, <2>3 DEF Bridges, NoGap
  <2>5. ASSUME NEW j \in 1 .. i, w[j] = k PROVE k \in T \/ \E x \in 1 .. i - 1 : v[x] = k
    <3>1. i <= Len(w) /\ i \in Nat /\ j \in 1 .. i
      BY <2>1
    <3>2. w[j] = w[1] \/ \E x \in 1 .. i - 1 : v[x] = w[j]
      BY <1>2, <3>1
    <3> QED
      BY <2>3, <2>5, <3>2
  <2> QED
    BY <2>3, <2>4, <2>5
<1>4. ASSUME whole, NEW k \in o .. n - 1 PROVE k \in T \/ \E j \in 1 .. Len(v) : v[j] = k
  <2>1. k \in S \/ \E j \in 1 .. Len(w) : w[j] = k
    BY <1>4 DEF Bridges
  <2>2. ASSUME NEW j \in 1 .. Len(w), w[j] = k PROVE k \in T \/ \E i \in 1 .. Len(v) : v[i] = k
    <3>1. w[j] = w[1] \/ \E i \in 1 .. Len(w) - 1 : v[i] = w[j]
      <4>1. Len(w) \in Nat /\ j \in 1 .. Len(w) /\ Len(w) <= Len(w)
        BY <1>1, <2>2
      <4> QED
        BY <1>2, <4>1
    <3> QED
      BY <1>4, <2>2, <3>1
  <2> QED
    BY <1>4, <2>1, <2>2
<1> QED
  BY <1>3, <1>4 DEF Bridges

\* A replay continues what its phone said it has.
LEMMA BridgesReplay ==
  ASSUME NEW o \in Nat, NEW n \in Nat, NEW from \in Nat, from <= n, NEW f \in Seq(Nat), NEW S, 1 <= o,
         Len(f) = n - from + 1, f[1] = 0, \A i \in 2 .. Len(f) : f[i] = from + i - 2,
         \A k \in o .. from - 1 : k \in S, NEW whole
  PROVE  Bridges(f, S, o, n, whole)
<1>1. DOMAIN f = 1 .. Len(f) /\ Len(f) \in Nat
  BY LenProperties
<1>2. ASSUME NEW m \in Nat, m <= Len(f), NEW k \in from .. from + m - 2
      PROVE  \E j \in 1 .. m : f[j] = k
  <2>1. PICK j \in Int : j = k - from + 2
    BY <1>2
  <2>2. j \in 2 .. Len(f) /\ j \in 1 .. m /\ from + j - 2 = k
    BY <1>1, <1>2, <2>1
  <2>3. f[j] = from + j - 2
    BY <2>2
  <2> QED
    BY <2>2, <2>3
<1>3. NoGap(f, S, o)
  <2> SUFFICES ASSUME NEW i \in DOMAIN f, NEW k \in o .. f[i] - 1
               PROVE  k \in S \/ \E j \in 1 .. i - 1 : f[j] = k
    BY DEF NoGap
  <2>1. CASE i = 1
    BY <2>1
  <2>2. CASE i # 1
    <3>1. i \in 2 .. Len(f) /\ f[i] = from + i - 2 /\ i - 1 \in Nat /\ i - 1 <= Len(f)
      BY <1>1, <2>2
    <3>2. CASE k < from
      BY <3>2
    <3>3. CASE k >= from
      <4>1. k \in from .. from + (i - 1) - 2
        BY <3>1, <3>3
      <4> QED
        BY <1>2, <3>1, <4>1
    <3> QED
      BY <3>2, <3>3
  <2> QED
    BY <2>1, <2>2
<1>4. ASSUME NEW k \in o .. n - 1 PROVE k \in S \/ \E j \in 1 .. Len(f) : f[j] = k
  <2>1. k \in from .. from + Len(f) - 2 \/ k \in o .. from - 1
    OBVIOUS
  <2> QED
    BY <1>1, <1>2, <2>1
<1> QED
  BY <1>3, <1>4 DEF Bridges

\* What the steps below need of the types.
LEMMA SkipFacts ==
  ASSUME TInv
  PROVE  /\ next \in Nat /\ oldest \in Nat /\ 1 <= oldest /\ oldest <= next
         /\ resume \in Nat /\ resume < next /\ saved \in Nat /\ saved <= resume
         /\ \A c \in Conn : /\ wire[c] \in Seq(Nat) /\ \A i \in DOMAIN wire[c] : wire[c][i] < next
                            /\ hello[c] \in Nat /\ hello[c] < next
                            /\ last[c] \in Nat /\ last[c] < next
         /\ live # None => live \in Conn
         /\ dial # None => dial \in Conn
         /\ Numbers(inbound) \in Seq(Nat) /\ Len(Numbers(inbound)) = Len(inbound)
         /\ \A i \in DOMAIN Numbers(inbound) : Numbers(inbound)[i] < next
<1>1. Typed /\ TypeOK /\ Numbered
  BY DEF TInv, Typed
<1>2. /\ next \in Nat /\ oldest \in Nat /\ 1 <= oldest /\ oldest <= next /\ MaxSeq \in Nat
      /\ resume \in Nat /\ resume < next /\ saved \in Nat
      /\ \A c \in Conn : hello[c] \in Nat /\ hello[c] < next /\ last[c] \in Nat /\ last[c] < next
  BY <1>1, NumbersAre DEF Numbered
<1>3. ASSUME NEW c \in Conn PROVE wire[c] \in Seq(Nat) /\ \A i \in DOMAIN wire[c] : wire[c][i] < next
  <2>1. wire[c] \in Seq(0 .. MaxSeq) /\ 0 .. MaxSeq \subseteq Nat
    BY <1>1, <1>2 DEF Typed
  <2> QED
    BY <1>1, <2>1, SeqMonotonic DEF Numbered
<1>4. saved <= resume
  BY <1>1, <1>2 DEF TypeOK
<1>5. /\ Numbers(inbound) \in Seq(Nat) /\ Len(Numbers(inbound)) = Len(inbound)
      /\ \A i \in DOMAIN Numbers(inbound) : Numbers(inbound)[i] < next
  <2>1. inbound \in Seq([conn : Conn, seq : Seq1])
    BY <1>1 DEF TypeOK
  <2>2. PICK k \in Nat : k = Len(inbound) /\ DOMAIN inbound = 1 .. k
    BY <2>1, LenProperties
  <2>3. \A i \in 1 .. k : inbound[i].seq \in Nat
    BY <1>1, <2>2, NumbersAre
  <2>4. Numbers(inbound) = [i \in 1 .. k |-> inbound[i].seq]
    BY <2>2 DEF Numbers
  <2>5. Numbers(inbound) \in [1 .. k -> Nat]
    BY <2>3, <2>4
  <2>6. Numbers(inbound) \in Seq(Nat)
    BY <2>5, SeqIs
  <2>7. Len(Numbers(inbound)) = k
    BY <2>4, <2>6, LenProperties
  <2>8. \A i \in DOMAIN Numbers(inbound) : Numbers(inbound)[i] < next
    BY <1>1, <2>2, <2>4 DEF Numbered
  <2> QED
    BY <2>2, <2>6, <2>7, <2>8
<1> QED
  BY <1>1, <1>2, <1>3, <1>4, <1>5 DEF TypeOK

\* At the start there is nothing to pass over.
LEMMA SkipInit == Init => SkipInv
<1> SUFFICES ASSUME Init PROVE SkipInv
  OBVIOUS
<1>1. /\ Retained = {} /\ live = None /\ dial = None /\ inbound = <<>>
  BY DEF Init, Retained
<1>2. Bridges(Numbers(inbound), applied, oldest, next, FALSE)
  BY <1>1 DEF Bridges, NoGap, Numbers
<1> QED
  BY <1>1, <1>2 DEF SkipInv

\* A message goes to the connection that works, or to none.
LEMMA SkipSent ==
  ASSUME TInv, SkipInv, NEW c \in Conn \cup {None}, Record, Carry(c, <<next>>),
         c # None => side[c] = "serving", \A d \in Conn : Works(d) => d = c,
         UNCHANGED <<side, hello, up, phone, history>>
  PROVE  SkipInv'
<1>1. PICK o \in Nat, n \in Nat :
        o = oldest' /\ n = next + 1 /\ next' = n /\ o \in oldest .. next
  <2>1. /\ oldest \in Nat /\ next \in Nat /\ next' = next + 1 /\ oldest' \in oldest .. next
    BY RecordStep, SkipFacts DEF TInv
  <2> QED
    BY <2>1
<1>2. UNCHANGED <<side, hello, up, live, dial, last, inbound, resume, saved, applied, got>>
  BY DEF phone, history
<1>3. /\ next \in Nat /\ oldest \in Nat /\ 1 <= oldest /\ oldest <= next /\ oldest <= o
      /\ resume \in Nat /\ resume < next
      /\ \A d \in Conn : /\ wire[d] \in Seq(Nat)
                         /\ hello[d] \in Nat /\ hello[d] < next /\ last[d] \in Nat /\ last[d] < next
      /\ live # None => live \in Conn
      /\ dial # None => dial \in Conn
      /\ Numbers(inbound) \in Seq(Nat)
  BY <1>1, SkipFacts
<1>4. \A k \in Retained' : k \in Retained \/ k = next
  BY <1>1, <1>3 DEF Retained
<1>5. \A d \in Conn : Works(d)' <=> Works(d)
  BY <1>2 DEF Works
<1>6. ASSUME NEW d \in Conn
      PROVE  wire'[d] \in Seq(Nat) /\ wire'[d] = IF Works(d) THEN wire[d] \o <<next>> ELSE wire[d]
  <2>1. <<next>> \in Seq(0 .. MaxSeq) /\ <<next>> \in Seq(Nat)
    BY <1>3, RecordStep, CatchUpAssumption DEF TInv, Seq1
  <2>2. wire'[d] = IF d = c /\ up[d] THEN wire[d] \o <<next>> ELSE wire[d]
    BY <2>1, Carried DEF TInv, Typed
  <2>3. d = c /\ up[d] <=> Works(d)
    BY NoneIsNoConn DEF Works
  <2> QED
    BY <1>3, <2>1, <2>2, <2>3, ConcatProperties
<1>7. ASSUME NEW d \in Conn, NEW S, Bridges(wire[d], S, oldest, next, Works(d))
      PROVE  Bridges(wire'[d], S, o, n, Works(d))
  <2>1. Bridges(wire'[d], S, o, next + 1, Works(d))
    BY <1>1, <1>3, <1>6, <1>7, BridgesSent
  <2> QED
    BY <1>1, <2>1
<1>8. Bridges(Numbers(inbound), applied, o, n, FALSE)
  <2>1. Bridges(Numbers(inbound), applied, oldest, next, FALSE)
    BY DEF SkipInv
  <2>2. Bridges(Numbers(inbound), applied, o, next + 1, FALSE)
    BY <1>1, <1>3, <2>1, BridgesSent
  <2> QED
    BY <1>1, <2>2
<1>9. /\ \A k \in Retained' : k <= resume => k \in applied
      /\ \A d \in Conn : \A k \in Retained' : k <= last[d] => k \in applied
      /\ dial # None /\ side[dial] = "hello" => \A k \in Retained' : k <= hello[dial] => k \in applied
  BY <1>3, <1>4 DEF SkipInv
<1>10. /\ live # None => Bridges(wire'[live], applied \cup Queued, o, n, Works(live))
       /\ dial # None => Bridges(wire'[dial], applied, o, n, Works(dial))
  BY <1>3, <1>7 DEF SkipInv
<1>11. Queued' = Queued
  BY <1>2 DEF Queued
<1>12. oldest' = o /\ next' = n
  BY <1>1
<1>13. Bridges(Numbers(inbound'), applied', oldest', next', FALSE)
  BY <1>2, <1>8, <1>12
<1>14. live' # None => Bridges(wire'[live'], applied' \cup Queued', oldest', next', Works(live)')
  BY <1>2, <1>10, <1>11, <1>12 DEF Works
<1>15. dial' # None => Bridges(wire'[dial'], applied', oldest', next', Works(dial)')
  BY <1>2, <1>10, <1>12 DEF Works
<1>16. /\ \A k \in Retained' : k <= resume' => k \in applied'
       /\ \A d \in Conn : \A k \in Retained' : k <= last'[d] => k \in applied'
       /\ dial' # None /\ side'[dial'] = "hello" => \A k \in Retained' : k <= hello'[dial'] => k \in applied'
  BY <1>2, <1>9
<1> QED
  BY <1>13, <1>14, <1>15, <1>16, Zenon DEF SkipInv

\* What the phone counts, it was handed.
LEMMA CountedWas ==
  ASSUME TInv, SkipInv
  PROVE  NothingSkipped
<1>1. CASE Counted = resume
  BY <1>1 DEF NothingSkipped, SkipInv
<1>2. CASE live # None /\ Counted = last[live]
  BY <1>2, SkipFacts DEF NothingSkipped, SkipInv
<1> QED
  BY <1>1, <1>2, CountedIs DEF TInv

\* Whatever only ends connections, or notes what was counted, passes nothing over.
LEMMA SkipLess ==
  ASSUME TInv, SkipInv, UNCHANGED <<next, oldest, last, applied>>,
         \/ inbound' = inbound
         \/ inbound' = <<>> /\ live' = None,
         live' # None => live' = live /\ wire'[live] = wire[live] /\ (Works(live)' => Works(live)),
         dial' # None => /\ dial' = dial /\ wire'[dial] = wire[dial] /\ (Works(dial)' => Works(dial))
                         /\ side'[dial] = "hello" => side[dial] = "hello" /\ hello'[dial] = hello[dial],
         \A k \in Retained : k <= resume' => k \in applied
  PROVE  SkipInv'
<1>1. Retained' = Retained
  BY DEF Retained
<1>2. /\ next \in Nat /\ oldest \in Nat
      /\ \A d \in Conn : wire[d] \in Seq(Nat) /\ \A i \in DOMAIN wire[d] : wire[d][i] < next
      /\ live # None => live \in Conn
      /\ dial # None => dial \in Conn
  BY SkipFacts
<1>3. Bridges(Numbers(inbound'), applied', oldest', next', FALSE)
  <2>1. CASE inbound' = inbound
    BY <2>1 DEF SkipInv
  <2>2. CASE inbound' = <<>>
    BY <2>2 DEF Bridges, NoGap, Numbers
  <2> QED
    BY <2>1, <2>2
<1>4. ASSUME live' # None
      PROVE  Bridges(wire'[live'], applied' \cup Queued', oldest', next', Works(live)')
  <2>1. inbound' = inbound /\ live' = live /\ live # None
    BY <1>4
  <2>2. Bridges(wire[live], applied \cup Queued, oldest, next, Works(live))
    BY <2>1 DEF SkipInv
  <2>3. wire'[live'] = wire[live] /\ Queued' = Queued
    BY <1>4, <2>1 DEF Queued
  <2>4. NoGap(wire[live], applied \cup Queued, oldest)
    BY <2>2 DEF Bridges
  <2>5. CASE Works(live)
    BY <2>2, <2>3, <2>4, <2>5 DEF Bridges
  <2>6. CASE ~Works(live)
    BY <1>4, <2>3, <2>4, <2>6 DEF Bridges
  <2> QED
    BY <2>5, <2>6
<1>5. ASSUME dial' # None
      PROVE  Bridges(wire'[dial'], applied', oldest', next', Works(dial)')
  <2>1. dial' = dial /\ dial # None /\ wire'[dial'] = wire[dial]
    BY <1>5
  <2>2. Bridges(wire[dial], applied, oldest, next, Works(dial))
    BY <2>1 DEF SkipInv
  <2>3. NoGap(wire[dial], applied, oldest)
    BY <2>2 DEF Bridges
  <2>4. CASE Works(dial)
    BY <2>1, <2>2, <2>3, <2>4 DEF Bridges
  <2>5. CASE ~Works(dial)
    BY <1>5, <2>1, <2>3, <2>5 DEF Bridges
  <2> QED
    BY <2>4, <2>5
<1>6. /\ \A k \in Retained' : k <= resume' => k \in applied'
      /\ \A d \in Conn : \A k \in Retained' : k <= last'[d] => k \in applied'
      /\ dial' # None /\ side'[dial'] = "hello" => \A k \in Retained' : k <= hello'[dial'] => k \in applied'
  BY <1>1 DEF SkipInv
<1> QED
  BY <1>3, <1>4, <1>5, <1>6, Zenon DEF SkipInv

\* What the phone lets go of, or notes, passes nothing over. (disconnect, _persistBridgeSeq)
LEMMA SkipEnds ==
  ASSUME TInv, SkipInv, Checkpoint \/ Save \/ GiveUp \/ Drop \/ SwitchAway \/ Kill \/ UNCHANGED vars
  PROVE  SkipInv'
<1>1. /\ \A k \in Retained : k <= Counted => k \in applied
      /\ \A k \in Retained : k <= resume => k \in applied
      /\ \A k \in Retained : k <= saved => k \in applied
  <2>1. /\ \A k \in Retained : k <= resume => k \in applied
        /\ saved \in Nat /\ resume \in Nat /\ saved <= resume /\ Retained \subseteq Int
    BY SkipFacts DEF SkipInv, Retained
  <2> QED
    BY <2>1, CountedWas DEF NothingSkipped
<1>2. /\ live # None => live \in Conn
      /\ dial # None => dial \in Conn
      /\ live # None => live # dial
  BY SkipFacts DEF TInv, Roles
<1>3. CASE Checkpoint \/ Save \/ UNCHANGED vars
  <2>1. /\ UNCHANGED <<next, oldest, side, hello, up, wire, live, dial, last, inbound, applied>>
        /\ resume' \in {resume, Counted}
    BY <1>3 DEF Checkpoint, Save, vars, bridge, phone, history
  <2> QED
    BY <1>1, <2>1, SkipLess DEF Works
<1>4. CASE GiveUp
  <2>1. /\ UNCHANGED <<next, oldest, side, hello, live, last, inbound, applied, resume>>
        /\ dial' = None /\ LetGo({dial})
    BY <1>4 DEF GiveUp, bridge, history
  <2>2. live # None => wire'[live] = wire[live] /\ (Works(live)' => Works(live))
    BY <1>2, <2>1 DEF LetGo, Works
  <2> QED
    BY <1>1, <2>1, <2>2, SkipLess
<1>5. CASE Drop \/ SwitchAway \/ Kill
  <2>1. /\ UNCHANGED <<next, oldest, last, applied>>
        /\ dial' = None /\ live' = None /\ inbound' \in {inbound, <<>>}
        /\ resume' \in {Counted, resume, saved}
    BY <1>5 DEF Drop, SwitchAway, Kill, bridge, history
  <2> QED
    BY <1>1, <2>1, SkipLess
<1> QED
  BY <1>3, <1>4, <1>5

\* The handler at work, or at its end, passes nothing over. (session-handler)
LEMMA SkipServe ==
  ASSUME TInv, SkipInv, NEW c \in Conn, Request(c) \/ Teardown(c)
  PROVE  SkipInv'
<1>1. /\ live # None => live \in Conn
      /\ dial # None => dial \in Conn
  BY SkipFacts
<1>2. /\ UNCHANGED <<next, oldest, up, wire, live, dial, last, inbound, resume, applied>>
      /\ \A d \in Conn : /\ side'[d] = side[d] \/ (side'[d] = "over" /\ ~up[d])
                         /\ side'[d] # "over" => hello'[d] = hello[d]
  <2>1. CASE Request(c)
    BY <2>1 DEF Request, phone, history
  <2>2. CASE Teardown(c)
    BY <2>2 DEF Teardown, phone, history, TInv, Typed, TypeOK
  <2> QED
    BY <2>1, <2>2
<1>3. \A d \in Conn : Works(d)' => Works(d)
  BY <1>2 DEF Works
<1>4. \A k \in Retained : k <= resume' => k \in applied
  BY <1>2 DEF SkipInv
<1> QED
  BY <1>1, <1>2, <1>3, <1>4, SkipLess

\* The replay goes on where the phone said it was. (entriesAfter)
LEMMA SkipAccept ==
  ASSUME TInv, SkipInv, NEW c \in Conn, Accept(c)
  PROVE  SkipInv'
<1>1. /\ side[c] = "hello" /\ side' = [side EXCEPT ![c] = "serving"]
      /\ up' = [d \in Conn |-> up[d] /\ d # sink] /\ hello' = [hello EXCEPT ![c] = 0]
      /\ Carry(c, <<Ready>> \o EntriesAfter(hello[c]))
      /\ UNCHANGED <<next, oldest, live, dial, last, inbound, resume, applied>>
  BY DEF Accept, Closing, phone, history
<1>2. Typed /\ TypeOK /\ Roles
  BY DEF TInv, Typed
<1>3. /\ next \in Nat /\ oldest \in Nat /\ 1 <= oldest /\ hello[c] \in Nat /\ hello[c] < next
      /\ live # None => live \in Conn
      /\ dial # None => dial \in Conn
  BY SkipFacts
<1>4. PICK from \in Nat, f \in Seq(0 .. MaxSeq) :
           /\ from >= oldest /\ from > hello[c] /\ from <= next /\ (from = oldest \/ from = hello[c] + 1)
           /\ f = <<Ready>> \o EntriesAfter(hello[c]) /\ Len(f) = next - from + 1
           /\ f # <<>> /\ f[1] = Ready /\ \A i \in 2 .. Len(f) : f[i] = from + i - 2
  BY <1>2, <1>3, Opening
<1>5. \A d \in Conn : wire'[d] = IF d = c /\ up[d] THEN wire[d] \o f ELSE wire[d]
  BY <1>1, <1>2, <1>4, Carried DEF Typed
<1>6. c # live /\ (up[c] => c = dial /\ wire[c] = <<>>)
  <2>1. c # None
    BY NoneIsNoConn
  <2>2. c # live
    BY <1>1, <1>2, <2>1 DEF Roles
  <2> QED
    BY <1>1, <1>2, <2>1, <2>2 DEF Roles
<1>7. /\ \A d \in Conn \ {c} : wire'[d] = wire[d] /\ side'[d] = side[d] /\ hello'[d] = hello[d]
      /\ side'[c] = "serving" /\ (~up[c] => wire'[c] = wire[c])
      /\ \A d \in Conn : up'[d] => up[d]
  BY <1>1, <1>2, <1>5 DEF TypeOK
<1>8. \A k \in Retained : k <= resume' => k \in applied
  BY <1>1 DEF SkipInv
<1>9. CASE ~up[c] \/ dial = None
  <2>1. /\ live # None => wire'[live] = wire[live] /\ (Works(live)' => Works(live))
        /\ dial # None => /\ wire'[dial] = wire[dial] /\ (Works(dial)' => Works(dial))
                          /\ side'[dial] = "hello" => side[dial] = "hello" /\ hello'[dial] = hello[dial]
    <3>1. live # None => wire'[live] = wire[live] /\ (Works(live)' => Works(live))
      BY <1>1, <1>3, <1>6, <1>7 DEF Works
    <3>2. CASE dial = c
      BY <1>1, <1>7, <1>9, <3>1, <3>2, NoneIsNoConn DEF Works
    <3>3. CASE dial # c
      BY <1>1, <1>3, <1>7, <3>1, <3>3 DEF Works
    <3> QED
      BY <3>2, <3>3
  <2> QED
    BY <1>1, <1>8, <2>1, SkipLess
<1>10. CASE up[c] /\ dial # None
  <2>1. c = dial /\ wire'[c] = f
    BY <1>4, <1>5, <1>6, <1>10, ConcatEmptySeq
  <2>2. \A k \in oldest .. from - 1 : k \in applied
    <3> SUFFICES ASSUME NEW k \in oldest .. from - 1 PROVE k \in applied
      OBVIOUS
    <3>1. k <= hello[dial] /\ k \in Retained
      BY <1>3, <1>4, <2>1 DEF Retained
    <3> QED
      BY <1>1, <1>10, <2>1, <3>1 DEF SkipInv
  <2>3. f \in Seq(Nat) /\ f[1] = 0
    <3>1. 0 .. MaxSeq \subseteq Nat
      BY CatchUpAssumption
    <3> QED
      BY <1>4, <3>1, SeqMonotonic DEF Ready
  <2>4. \A whole \in {Works(dial)'} : Bridges(f, applied, oldest, next, whole)
    BY <1>3, <1>4, <2>2, <2>3, BridgesReplay
  <2>5. Bridges(wire'[dial'], applied', oldest', next', Works(dial)')
    BY <1>1, <2>1, <2>4
  <2>6. ASSUME live' # None
        PROVE  Bridges(wire'[live'], applied' \cup Queued', oldest', next', Works(live)')
    <3>1. live # None /\ Bridges(wire[live], applied \cup Queued, oldest, next, Works(live))
      BY <1>1, <2>6 DEF SkipInv
    <3>2. wire'[live] = wire[live] /\ (Works(live)' => Works(live)) /\ Queued' = Queued
      BY <1>1, <1>3, <1>6, <1>7, <3>1 DEF Works, Queued
    <3> QED
      BY <1>1, <3>1, <3>2 DEF Bridges
  <2>7. Retained' = Retained /\ side'[dial'] # "hello"
    BY <1>1, <1>7, <2>1 DEF Retained
  <2>8. /\ \A k \in Retained' : k <= resume' => k \in applied'
        /\ \A d \in Conn : \A k \in Retained' : k <= last'[d] => k \in applied'
        /\ Bridges(Numbers(inbound'), applied', oldest', next', FALSE)
    BY <1>1, <2>7 DEF SkipInv
  <2> QED
    BY <2>5, <2>6, <2>7, <2>8, Zenon DEF SkipInv
<1> QED
  BY <1>9, <1>10

\* What a broken connection still delivers has no gap. (close)
LEMMA SkipBreak ==
  ASSUME TInv, SkipInv, NEW c \in Conn, Break(c)
  PROVE  SkipInv'
<1>1. /\ up' = [d \in Conn |-> up[d] /\ d # c]
      /\ UNCHANGED <<next, oldest, side, hello, live, dial, last, inbound, resume, applied>>
  BY DEF Break, Closing, bridge, phone, history
<1>2. PICK n \in 0 .. Len(wire[c]) : wire' = [wire EXCEPT ![c] = SubSeq(wire[c], 1, n)]
  BY DEF Break
<1>3. /\ next \in Nat /\ oldest \in Nat
      /\ \A d \in Conn : wire[d] \in Seq(Nat)
      /\ live # None => live \in Conn
      /\ dial # None => dial \in Conn
  BY SkipFacts
<1>4. PICK v \in Seq(Nat) : v = SubSeq(wire[c], 1, n) /\ Len(v) = n /\ \A i \in 1 .. n : v[i] = wire[c][i]
  <2>1. PICK w \in Seq(Nat) : w = wire[c]
    BY <1>3
  <2>2. n \in 0 .. Len(w)
    BY <1>2, <2>1
  <2>3. SubSeq(w, 1, n) \in Seq(Nat) /\ Len(SubSeq(w, 1, n)) = n
        /\ \A i \in 1 .. n : SubSeq(w, 1, n)[i] = w[i]
    BY <2>2, Prefix
  <2> QED
    BY <2>1, <2>3
<1>5. Len(v) <= Len(wire[c])
  BY <1>2, <1>3, <1>4, LenProperties
<1>6. \A d \in Conn : wire'[d] = IF d = c THEN v ELSE wire[d]
  BY <1>2, <1>4 DEF TInv, Typed
<1>7. ~up'[c] /\ \A d \in Conn \ {c} : up'[d] <=> up[d]
  BY <1>1 DEF TInv, Typed, TypeOK
<1>8. ASSUME NEW d \in Conn, NEW S, Bridges(wire[d], S, oldest, next, Works(d))
      PROVE  \A whole \in {Works(d)'} : Bridges(wire'[d], S, oldest, next, whole)
  <2>1. CASE d = c
    <3>1. Bridges(v, S, oldest, next, FALSE)
      BY <1>3, <1>4, <1>5, <1>8, <2>1, BridgesPrefix
    <3>2. wire'[d] = v /\ ~Works(d)'
      BY <1>6, <1>7, <2>1 DEF Works
    <3> QED
      BY <3>1, <3>2 DEF Bridges
  <2>2. CASE d # c
    <3>1. wire'[d] = wire[d] /\ (Works(d)' <=> Works(d))
      BY <1>1, <1>6, <1>7, <2>2 DEF Works
    <3> QED
      BY <1>8, <3>1 DEF Bridges
  <2> QED
    BY <2>1, <2>2
<1>9. Retained' = Retained /\ Queued' = Queued
  BY <1>1 DEF Retained, Queued
<1>10. ASSUME live' # None
       PROVE  Bridges(wire'[live'], applied' \cup Queued', oldest', next', Works(live)')
  BY <1>1, <1>3, <1>8, <1>9, <1>10 DEF SkipInv
<1>11. ASSUME dial' # None
       PROVE  Bridges(wire'[dial'], applied', oldest', next', Works(dial)')
  BY <1>1, <1>3, <1>8, <1>11 DEF SkipInv
<1>12. /\ \A k \in Retained' : k <= resume' => k \in applied'
       /\ \A d \in Conn : \A k \in Retained' : k <= last'[d] => k \in applied'
       /\ Bridges(Numbers(inbound'), applied', oldest', next', FALSE)
       /\ dial' # None /\ side'[dial'] = "hello" => \A k \in Retained' : k <= hello'[dial'] => k \in applied'
  BY <1>1, <1>9 DEF SkipInv
<1> QED
  BY <1>10, <1>11, <1>12, Zenon DEF SkipInv

\* The phone says what it counted.
LEMMA SkipDial ==
  ASSUME TInv, SkipInv, NEW c \in Conn, Dial(c)
  PROVE  SkipInv'
<1>1. /\ dial = None /\ side[c] = "none" /\ side' = [side EXCEPT ![c] = "hello"]
      /\ resume' = Counted /\ hello' = [hello EXCEPT ![c] = resume']
      /\ up' = [up EXCEPT ![c] = TRUE] /\ dial' = c
      /\ UNCHANGED <<next, oldest, wire, live, last, inbound, applied>>
  BY DEF Dial, history
<1>2. Typed /\ TypeOK /\ Roles /\ (live # None => live \in Conn)
  BY SkipFacts DEF TInv, Typed
<1>3. c # None /\ c # live /\ wire[c] = <<>>
  BY <1>1, <1>2, NoneIsNoConn DEF Roles
<1>4. Retained' = Retained /\ Queued' = Queued
  BY <1>1 DEF Retained, Queued
<1>5. side'[c] = "hello" /\ hello'[c] = Counted
  BY <1>1, <1>2 DEF TypeOK
<1>6. \A k \in Retained : k <= Counted => k \in applied
  BY CountedWas DEF NothingSkipped
<1>7. ASSUME live' # None
      PROVE  Bridges(wire'[live'], applied' \cup Queued', oldest', next', Works(live)')
  <2>1. live' = live /\ live \in Conn /\ side'[live] = side[live] /\ up'[live] = up[live]
    BY <1>1, <1>2, <1>3, <1>7 DEF TypeOK
  <2> QED
    BY <1>1, <1>4, <1>7, <2>1 DEF SkipInv, Works
<1>8. Bridges(wire'[dial'], applied', oldest', next', Works(dial)')
  BY <1>1, <1>3, <1>5 DEF Works, Bridges, NoGap
<1>9. /\ \A k \in Retained' : k <= resume' => k \in applied'
      /\ \A d \in Conn : \A k \in Retained' : k <= last'[d] => k \in applied'
      /\ Bridges(Numbers(inbound'), applied', oldest', next', FALSE)
      /\ \A k \in Retained' : k <= hello'[dial'] => k \in applied'
  BY <1>1, <1>4, <1>5, <1>6 DEF SkipInv
<1> QED
  BY <1>7, <1>8, <1>9, Zenon DEF SkipInv

\* The new connection takes over where the old one is. (skipInboundThrough)
LEMMA SkipCommit ==
  ASSUME TInv, SkipInv, KeptSchedules, Commit
  PROVE  SkipInv'
<1>1. /\ live' = dial /\ dial' = None
      /\ up' = [d \in Conn |-> up[d] /\ d # live]
      /\ last' = [last EXCEPT ![dial] = SkipThrough]
      /\ UNCHANGED <<next, oldest, side, inbound, resume, applied>>
  BY DEF Commit, Closing, bridge, history
<1>2. Typed /\ TypeOK /\ Roles
  BY DEF TInv, Typed
<1>3. /\ next \in Nat /\ oldest \in Nat /\ 1 <= oldest
      /\ \A c \in Conn : wire[c] \in Seq(Nat) /\ \A i \in DOMAIN wire[c] : wire[c][i] < next
      /\ live # None => live \in Conn
  BY SkipFacts
<1>4. /\ dial \in Conn /\ wire[dial] # <<>>
      /\ wire'[dial] \in Seq(Seq1) /\ Len(wire'[dial]) = Len(wire[dial]) - 1
      /\ \A i \in 1 .. Len(wire'[dial]) : wire'[dial][i] = wire[dial][i + 1]
  <2>1. PICK n \in 0 .. Len(wire[dial]) - 1 :
           /\ dial \in Conn /\ wire[dial] # <<>>
           /\ "behind_ready" \in Windows \/ n = 0
           /\ wire'[dial] \in Seq(Seq1) /\ Len(wire'[dial]) = Len(wire[dial]) - n - 1
           /\ \A i \in 1 .. Len(wire'[dial]) : wire'[dial][i] = wire[dial][n + 1 + i]
    BY <1>2, Committed
  <2>2. n = 0 /\ Len(wire[dial]) \in Nat
    BY <1>3, <2>1, LenProperties DEF KeptSchedules
  <2>3. PICK v \in Seq(Seq1) : v = wire'[dial]
    BY <2>1
  <2>4. \A i \in 1 .. Len(v) : 0 + 1 + i = i + 1
    OBVIOUS
  <2> QED
    BY <2>1, <2>2, <2>3, <2>4
<1>5. PICK w \in Seq(Nat) : w = wire[dial]
  BY <1>3, <1>4
<1>6. PICK v \in Seq(Nat) : v = wire'[dial]
  <2>1. Seq1 \subseteq Nat
    BY CatchUpAssumption DEF Seq1
  <2> QED
    BY <1>4, <2>1, SeqMonotonic
<1>7. /\ Len(w) >= 1 /\ w[1] = 0 /\ Len(v) = Len(w) - 1
      /\ \A i \in 1 .. Len(v) : v[i] = w[i + 1]
      /\ \A i \in DOMAIN w : w[i] < next
  <2>1. w # <<>> /\ Head(w) = Ready
    BY <1>2, <1>4, <1>5, NoneIsNoConn DEF Roles
  <2>2. Len(w) >= 1 /\ w[1] = 0
    BY <2>1, EmptySeq, LenProperties DEF Ready
  <2> QED
    BY <1>3, <1>4, <1>5, <1>6, <2>2
<1>8. dial # None /\ live # dial
  BY <1>2, <1>4, NoneIsNoConn DEF Roles
<1>9. \A whole \in {Works(live)'} : Bridges(v, applied \cup Queued, oldest, next, whole)
  <2>1. Bridges(w, applied, oldest, next, Works(dial))
    BY <1>5, <1>8 DEF SkipInv
  <2>2. \A k \in oldest .. next - 1 : k \in applied \cup {w[1]} => k \in applied \cup Queued
    BY <1>3, <1>7
  <2>3. Bridges(v, applied \cup Queued, oldest, next, Works(dial))
    BY <1>3, <1>7, <2>1, <2>2, BridgesRest
  <2>4. Works(live)' <=> Works(dial)
    <3>1. up'[dial] <=> up[dial]
      BY <1>1, <1>2, <1>4, <1>8 DEF TypeOK
    <3> QED
      BY <1>1, <3>1 DEF Works
  <2> QED
    BY <2>3, <2>4 DEF Bridges
<1>10. Retained' = Retained /\ Queued' = Queued
  BY <1>1 DEF Retained, Queued
<1>11. Bridges(wire'[live'], applied' \cup Queued', oldest', next', Works(live)')
  BY <1>1, <1>6, <1>9, <1>10
<1>12. \A c \in Conn : \A k \in Retained' : k <= last'[c] => k \in applied'
  <2>1. \A k \in Retained : k <= SkipThrough => k \in applied
    BY <1>3 DEF SkipInv, SkipThrough, Retained
  <2>2. \A c \in Conn : last'[c] = IF c = dial THEN SkipThrough ELSE last[c]
    BY <1>1, <1>2 DEF TypeOK
  <2> QED
    BY <1>1, <1>10, <2>1, <2>2 DEF SkipInv
<1>13. /\ \A k \in Retained' : k <= resume' => k \in applied'
       /\ Bridges(Numbers(inbound'), applied', oldest', next', FALSE)
  BY <1>1, <1>10 DEF SkipInv
<1> QED
  BY <1>1, <1>11, <1>12, <1>13, Zenon DEF SkipInv

\* A frame read waits in the order it came in. (_handleRaw)
LEMMA SkipReceive ==
  ASSUME TInv, SkipInv, Receive
  PROVE  SkipInv'
<1>1. Typed /\ TypeOK /\ Roles
  BY DEF TInv, Typed
<1>2. PICK w \in Seq(Seq1) :
           /\ live \in Conn /\ w = wire[live] /\ w # <<>>
           /\ wire' = [wire EXCEPT ![live] = Tail(w)]
           /\ inbound' = Append(inbound, [conn |-> live, seq |-> w[1]])
           /\ w[1] \in Seq1 /\ Tail(w) \in Seq(Seq1)
           /\ Len(w) >= 1 /\ Len(Tail(w)) = Len(w) - 1 /\ \A i \in 1 .. Len(Tail(w)) : Tail(w)[i] = w[i + 1]
           /\ UNCHANGED <<next, oldest, sink, side, busy, hello, up, live, dial, last, resume, saved,
                          applied, got>>
  BY <1>1, Received
<1>3. /\ next \in Nat /\ oldest \in Nat /\ 1 <= oldest
      /\ \A c \in Conn : wire[c] \in Seq(Nat) /\ \A i \in DOMAIN wire[c] : wire[c][i] < next
      /\ dial # None => dial \in Conn
      /\ Numbers(inbound) \in Seq(Nat) /\ Len(Numbers(inbound)) = Len(inbound)
  BY SkipFacts
<1>4. live # None /\ live # dial
  BY <1>1, <1>2, NoneIsNoConn DEF Roles
<1>5. PICK x \in Nat : x = w[1]
  BY <1>2, CatchUpAssumption DEF Seq1
<1>6. Bridges(w, applied \cup Queued, oldest, next, Works(live))
  BY <1>2, <1>4 DEF SkipInv
<1>7. Numbers(inbound') = Numbers(inbound) \o <<x>> /\ Queued' = Queued \cup {x}
  <2>1. inbound \in Seq([conn : Conn, seq : Seq1])
    BY <1>1 DEF TypeOK
  <2>2. PICK f \in [conn : Conn, seq : Seq1] : f = [conn |-> live, seq |-> w[1]]
    BY <1>2
  <2>3. PICK k \in Nat : k = Len(inbound) /\ DOMAIN inbound = 1 .. k
    BY <2>1, LenProperties
  <2>4. /\ inbound' \in Seq([conn : Conn, seq : Seq1]) /\ Len(inbound') = k + 1
        /\ \A i \in 1 .. k : inbound'[i] = inbound[i]
        /\ inbound'[k + 1] = f
    BY <1>2, <2>1, <2>2, <2>3, AppendProperties
  <2>5. DOMAIN inbound' = 1 .. k + 1
    BY <2>4, LenProperties
  <2>6. f.seq = x
    BY <1>5, <2>2
  <2>7. Queued' = Queued \cup {x}
    <3>1. \A i \in 1 .. k + 1 : i \in 1 .. k \/ i = k + 1
      OBVIOUS
    <3>2. 1 .. k \subseteq 1 .. k + 1 /\ k + 1 \in 1 .. k + 1
      OBVIOUS
    <3>3. \A y : y \in Queued' <=> \E i \in 1 .. k + 1 : y = inbound'[i].seq
      BY <2>5 DEF Queued
    <3>4. \A y : y \in Queued <=> \E i \in 1 .. k : y = inbound[i].seq
      BY <2>3 DEF Queued
    <3>5. \A y : y \in Queued' <=> y \in Queued \cup {x}
      BY <2>4, <2>6, <3>1, <3>2, <3>3, <3>4
    <3> QED
      BY <3>5
  <2>8. PICK q \in Seq(Nat) : q = Numbers(inbound) /\ Len(q) = k
    BY <1>3, <2>3
  <2>9. \A i \in 1 .. k : q[i] = inbound[i].seq
    BY <2>3, <2>8 DEF Numbers
  <2>10. PICK r \in Seq(Nat) : r = q \o <<x>> /\ r = Append(q, x)
    <3>1. Append(q, x) \in Seq(Nat) /\ Append(q, x) = q \o <<x>>
      BY <1>5, AppendProperties, AppendIsConcat
    <3> QED
      BY <3>1
  <2>11. DOMAIN r = 1 .. k + 1 /\ r[k + 1] = x /\ \A i \in 1 .. k : r[i] = q[i]
    <3>1. /\ Len(r) = k + 1 /\ r[k + 1] = x
          /\ \A i \in 1 .. k : r[i] = q[i]
      <4>1. PICK u \in Seq(Nat) : u = q
        BY <2>8
      <4>2. r = Append(u, x)
        BY <2>10, <4>1
      <4>3. Len(r) = Len(u) + 1 /\ r[Len(u) + 1] = x /\ \A i \in 1 .. Len(u) : r[i] = u[i]
        BY <1>5, <4>2, AppendProperties
      <4> QED
        BY <2>8, <4>1, <4>3
    <3> QED
      BY <2>10, <3>1, LenProperties
  <2>12. \A i \in 1 .. k + 1 : r[i] = inbound'[i].seq
    <3>1. \A i \in 1 .. k + 1 : i \in 1 .. k \/ i = k + 1
      OBVIOUS
    <3> QED
      BY <2>4, <2>6, <2>9, <2>11, <3>1
  <2>13. r = [i \in 1 .. k + 1 |-> inbound'[i].seq]
    <3>1. r = [i \in 1 .. k + 1 |-> r[i]]
      BY <2>10, <2>11
    <3> QED
      BY <2>12, <3>1
  <2> QED
    BY <2>5, <2>7, <2>8, <2>10, <2>13 DEF Numbers
<1>8. \A k \in oldest .. x - 1 : k \in applied \/ k \in Queued
  <2>1. 1 \in DOMAIN w
    BY <1>2, LenProperties
  <2>2. \A k \in oldest .. w[1] - 1 : k \in applied \cup Queued \/ \E j \in 1 .. 1 - 1 : w[j] = k
    BY <1>6, <2>1 DEF Bridges, NoGap
  <2> QED
    BY <1>5, <2>2
<1>9. Bridges(Numbers(inbound'), applied, oldest, next, FALSE)
  <2>1. Bridges(Numbers(inbound), applied, oldest, x, TRUE)
    <3>1. NoGap(Numbers(inbound), applied, oldest)
      BY DEF SkipInv, Bridges
    <3>2. \A k \in Queued : \E j \in 1 .. Len(Numbers(inbound)) : Numbers(inbound)[j] = k
      <4>1. DOMAIN inbound = 1 .. Len(Numbers(inbound))
        BY <1>1, <1>3, LenProperties DEF TypeOK
      <4>2. \A j \in DOMAIN inbound : Numbers(inbound)[j] = inbound[j].seq
        BY DEF Numbers
      <4> QED
        BY <4>1, <4>2 DEF Queued
    <3> QED
      BY <1>8, <3>1, <3>2 DEF Bridges
  <2>2. PICK q \in Seq(Nat), r \in Seq(Nat) : q = Numbers(inbound) /\ r = q \o <<x>> /\ r = Numbers(inbound')
    <3>1. PICK q \in Seq(Nat) : q = Numbers(inbound)
      BY <1>3
    <3>2. q \o <<x>> \in Seq(Nat)
      BY <1>5, <3>1, AppendProperties, AppendIsConcat
    <3> QED
      BY <1>7, <3>1, <3>2
  <2>3. Bridges(r, applied, oldest, x + 1, TRUE)
    <3>1. Bridges(q, applied, oldest, x, TRUE)
      BY <2>1, <2>2
    <3>2. oldest <= oldest /\ r = IF TRUE THEN q \o <<x>> ELSE q
      BY <1>3, <2>2
    <3> QED
      BY <1>3, <1>5, <3>1, <3>2, BridgesSent
  <2> QED
    BY <2>2, <2>3 DEF Bridges
<1>10. Bridges(Tail(w), applied \cup Queued', oldest, next, Works(live))
  <2>1. PICK u \in Seq(Nat), v \in Seq(Nat) : u = w /\ v = Tail(w)
    <3>1. Seq1 \subseteq Nat
      BY CatchUpAssumption DEF Seq1
    <3> QED
      BY <1>2, <3>1, SeqMonotonic
  <2>2. /\ Len(u) >= 1 /\ Len(v) = Len(u) - 1 /\ \A i \in 1 .. Len(v) : v[i] = u[i + 1]
        /\ \A i \in DOMAIN u : u[i] < next
    BY <1>2, <1>3, <2>1
  <2>3. \A k \in oldest .. next - 1 : k \in (applied \cup Queued) \cup {u[1]} => k \in applied \cup Queued'
    BY <1>5, <1>7, <2>1
  <2>4. Bridges(u, applied \cup Queued, oldest, next, Works(live))
    BY <1>6, <2>1
  <2> QED
    BY <1>3, <2>1, <2>2, <2>3, <2>4, BridgesRest
<1>11. /\ wire'[live] = Tail(w) /\ \A c \in Conn \ {live} : wire'[c] = wire[c]
       /\ \A c \in Conn : Works(c)' <=> Works(c)
  BY <1>1, <1>2 DEF Typed, Works
<1>12. Bridges(wire'[live'], applied' \cup Queued', oldest', next', Works(live)')
  BY <1>2, <1>10, <1>11 DEF Works
<1>13. ASSUME dial' # None PROVE Bridges(wire'[dial'], applied', oldest', next', Works(dial)')
  BY <1>2, <1>3, <1>4, <1>11, <1>13 DEF SkipInv, Works
<1>14. /\ \A k \in Retained' : k <= resume' => k \in applied'
       /\ \A d \in Conn : \A k \in Retained' : k <= last'[d] => k \in applied'
       /\ dial' # None /\ side'[dial'] = "hello" => \A k \in Retained' : k <= hello'[dial'] => k \in applied'
       /\ Bridges(Numbers(inbound'), applied', oldest', next', FALSE)
  <2>1. Retained' = Retained
    BY <1>2 DEF Retained
  <2> QED
    BY <1>2, <1>9, <2>1 DEF SkipInv
<1> QED
  BY <1>12, <1>13, <1>14, Zenon DEF SkipInv

\* What is handed on, or dropped, was next. (_receive)
LEMMA SkipDecrypt ==
  ASSUME TInv, SkipInv, Decrypt
  PROVE  SkipInv'
<1>1. Typed /\ TypeOK
  BY DEF TInv, Typed
<1>2. PICK f \in [conn : Conn, seq : Seq1], rest \in Seq([conn : Conn, seq : Seq1]) :
           /\ inbound # <<>> /\ f = inbound[1] /\ inbound' = rest
           /\ Len(inbound) >= 1 /\ DOMAIN rest = 1 .. Len(inbound) - 1
           /\ \A i \in DOMAIN rest : i + 1 \in DOMAIN inbound /\ rest[i] = inbound[i + 1]
           /\ IF f.seq > last[f.conn]
                THEN /\ last' = [last EXCEPT ![f.conn] = f.seq]
                     /\ applied' = applied \cup {f.seq} /\ got' = Append(got, f.seq)
                ELSE UNCHANGED <<last, applied, got>>
           /\ UNCHANGED <<next, oldest, sink, side, busy, hello, up, wire, live, dial, resume, saved>>
  BY <1>1, Decrypted
<1>3. /\ next \in Nat /\ oldest \in Nat /\ 1 <= oldest
      /\ \A c \in Conn : /\ wire[c] \in Seq(Nat) /\ \A i \in DOMAIN wire[c] : wire[c][i] < next
                         /\ last[c] \in Nat
      /\ live # None => live \in Conn
      /\ dial # None => dial \in Conn
      /\ Numbers(inbound) \in Seq(Nat) /\ Len(Numbers(inbound)) = Len(inbound)
      /\ \A i \in DOMAIN Numbers(inbound) : Numbers(inbound)[i] < next
  BY SkipFacts
<1>4. PICK x \in Nat, e \in Conn : x = f.seq /\ e = f.conn
  BY CatchUpAssumption DEF Seq1
<1>5. PICK q \in Seq(Nat) : q = Numbers(inbound) /\ Len(q) = Len(inbound)
  BY <1>3
<1>6. DOMAIN q = DOMAIN inbound /\ 1 \in DOMAIN q /\ q[1] = x
  <2>1. DOMAIN q = DOMAIN inbound
    BY <1>5 DEF Numbers
  <2>2. 1 \in DOMAIN q
    BY <1>2, <1>5, LenProperties
  <2> QED
    BY <1>2, <1>4, <1>5, <2>1, <2>2 DEF Numbers
<1>7. Bridges(q, applied, oldest, next, FALSE)
  BY <1>5 DEF SkipInv
<1>8. \A k \in oldest .. x - 1 : k \in applied
  <2>1. \A k \in oldest .. q[1] - 1 : k \in applied \/ \E j \in 1 .. 1 - 1 : q[j] = k
    BY <1>6, <1>7 DEF Bridges, NoGap
  <2> QED
    BY <1>6, <2>1
<1>9. /\ applied \subseteq applied' /\ (x \in Retained => x \in applied')
      /\ \A c \in Conn : last'[c] = last[c] \/ (last'[c] = x /\ x \in applied')
  <2>1. CASE x > last[e]
    <3>1. last' = [last EXCEPT ![e] = x] /\ applied' = applied \cup {x}
      BY <1>2, <1>4, <2>1
    <3> QED
      BY <1>1, <3>1 DEF TypeOK
  <2>2. CASE ~(x > last[e])
    <3>1. x <= last[e]
      BY <1>3, <2>2
    <3>2. x \in Retained => x \in applied
      BY <3>1 DEF SkipInv
    <3> QED
      BY <1>2, <1>4, <2>2, <3>2
  <2> QED
    BY <2>1, <2>2
<1>10. Retained' = Retained /\ Retained = oldest .. next - 1
  BY <1>2 DEF Retained
<1>11. Queued \subseteq Queued' \cup {x}
  <2>1. \A i \in DOMAIN inbound : i = 1 \/ (i - 1 \in DOMAIN rest /\ rest[i - 1] = inbound[i])
    <3>1. Len(inbound) \in Nat /\ DOMAIN inbound = 1 .. Len(inbound)
      BY <1>1, LenProperties DEF TypeOK
    <3>2. ASSUME NEW i \in DOMAIN inbound, i # 1 PROVE i - 1 \in DOMAIN rest /\ rest[i - 1] = inbound[i]
      <4>1. i - 1 \in DOMAIN rest /\ i - 1 + 1 = i
        BY <1>2, <3>1, <3>2
      <4> QED
        BY <1>2, <4>1
    <3> QED
      BY <3>2
  <2> QED
    BY <1>2, <1>4, <2>1 DEF Queued
<1>12. Bridges(Numbers(inbound'), applied', oldest', next', FALSE)
  <2>1. PICK k \in Nat : k = Len(inbound) - 1 /\ Len(rest) = k
    <3>1. Len(inbound) \in Nat /\ Len(rest) \in Nat /\ DOMAIN rest = 1 .. Len(rest)
      BY <1>5, LenProperties
    <3>a. PICK l \in Nat : l = Len(inbound)
      BY <3>1
    <3>b. l >= 1 /\ DOMAIN rest = 1 .. l - 1
      BY <1>2, <3>a
    <3>2. PICK m \in Nat : m = l - 1
      BY <3>b
    <3>3. m = Len(inbound) - 1 /\ DOMAIN rest = 1 .. m
      BY <3>a, <3>b, <3>2
    <3>4. Len(rest) = m
      BY <3>3, LenIs
    <3> WITNESS m \in Nat
    <3> QED
      BY <3>3, <3>4
  <2>2. Numbers(rest) = [i \in 1 .. k |-> rest[i].seq]
    BY <1>2, <2>1 DEF Numbers
  <2>3. Numbers(rest) \in [1 .. k -> Nat]
    <3>1. \A i \in 1 .. k : rest[i] \in [conn : Conn, seq : Seq1]
      BY <2>1, ElementOfSeq
    <3>2. Seq1 \subseteq Nat
      BY CatchUpAssumption DEF Seq1
    <3> QED
      BY <2>2, <3>1, <3>2
  <2>4. PICK v \in Seq(Nat) : v = Numbers(rest) /\ Len(v) = k
    <3>1. Numbers(rest) \in Seq(Nat)
      BY <2>3, SeqIs
    <3> QED
      BY <2>2, <2>3, <3>1, LenIs
  <2>5. \A i \in 1 .. Len(v) : v[i] = q[i + 1]
    <3>1. \A i \in 1 .. k : i + 1 \in DOMAIN inbound /\ rest[i] = inbound[i + 1]
      BY <1>2, <2>1
    <3>2. \A i \in DOMAIN inbound : q[i] = inbound[i].seq
      BY <1>5 DEF Numbers
    <3> QED
      BY <2>2, <2>4, <3>1, <3>2
  <2>6. Len(q) >= 1 /\ Len(v) = Len(q) - 1 /\ \A i \in DOMAIN q : q[i] < next
    BY <1>2, <1>3, <1>5, <2>1, <2>4
  <2>7. \A k1 \in oldest .. next - 1 : k1 \in applied \cup {q[1]} => k1 \in applied'
    BY <1>6, <1>9, <1>10
  <2>8. ASSUME NEW T, T = applied' PROVE Bridges(v, T, oldest, next, FALSE)
    <3>1. \A k1 \in oldest .. next - 1 : k1 \in applied \cup {q[1]} => k1 \in T
      BY <2>7, <2>8
    <3> QED
      BY <1>3, <1>7, <2>5, <2>6, <3>1, BridgesRest
  <2> QED
    BY <1>2, <2>4, <2>8
<1>13. ASSUME live' # None
       PROVE  Bridges(wire'[live'], applied' \cup Queued', oldest', next', Works(live)')
  <2>1. live \in Conn /\ Bridges(wire[live], applied \cup Queued, oldest, next, Works(live))
    BY <1>2, <1>3, <1>13 DEF SkipInv
  <2>2. \A k \in oldest .. next - 1 : k \in applied \cup Queued => k \in applied' \cup Queued'
    BY <1>9, <1>10, <1>11
  <2>3. \A T \in {applied' \cup Queued'} : Bridges(wire[live], T, oldest, next, Works(live))
    BY <1>3, <2>1, <2>2, BridgesMore
  <2>4. Works(live)' <=> Works(live)
    BY <1>2 DEF Works
  <2> QED
    BY <1>2, <2>3, <2>4 DEF Bridges
<1>14. ASSUME dial' # None
       PROVE  Bridges(wire'[dial'], applied', oldest', next', Works(dial)')
  <2>1. dial \in Conn /\ Bridges(wire[dial], applied, oldest, next, Works(dial))
    BY <1>2, <1>3, <1>14 DEF SkipInv
  <2>2. \A k \in oldest .. next - 1 : k \in applied => k \in applied'
    BY <1>9
  <2>3. \A T \in {applied'} : Bridges(wire[dial], T, oldest, next, Works(dial))
    BY <1>3, <2>1, <2>2, BridgesMore
  <2>4. Works(dial)' <=> Works(dial)
    BY <1>2 DEF Works
  <2> QED
    BY <1>2, <2>3, <2>4 DEF Bridges
<1>15. /\ \A k \in Retained' : k <= resume' => k \in applied'
       /\ dial' # None /\ side'[dial'] = "hello" => \A k \in Retained' : k <= hello'[dial'] => k \in applied'
  BY <1>2, <1>9, <1>10 DEF SkipInv
<1>16. \A d \in Conn : \A k \in Retained' : k <= last'[d] => k \in applied'
  <2> SUFFICES ASSUME NEW d \in Conn, NEW k \in Retained, k <= last'[d]
               PROVE  k \in applied'
    BY <1>10
  <2>1. CASE last'[d] = last[d]
    BY <1>9, <2>1 DEF SkipInv
  <2>2. CASE last'[d] = x /\ x \in applied'
    <3>1. k = x \/ k \in oldest .. x - 1
      BY <1>3, <1>10, <2>2
    <3> QED
      BY <1>8, <1>9, <2>2, <3>1
  <2> QED
    BY <1>9, <2>1, <2>2
<1> QED
  BY <1>12, <1>13, <1>14, <1>15, <1>16, Zenon DEF SkipInv

\* A notification goes to the connection that works; so does a late answer, once
\* no other connection of the phone is registered.
LEMMA SkipGive ==
  ASSUME TInv, SkipInv, KeptSchedules, Notify \/ \E c \in Conn : Respond(c)
  PROVE  SkipInv'
<1>1. /\ sink \in Conn \cup {None}
      /\ \A d \in Conn : Works(d) => sink = d
      /\ sink # None => side[sink] = "serving"
      /\ \A d \in Conn : busy[d] => side[d] = "serving"
  BY DEF TInv, Typed, TypeOK, SinkServes, Roles, Works
<1>2. CASE Notify
  BY <1>1, <1>2, SkipSent DEF Notify
<1>3. ASSUME NEW c \in Conn, Respond(c) PROVE SkipInv'
  <2>1. /\ busy[c] /\ sink \in {c, None} /\ Record /\ Carry(c, <<next>>)
        /\ UNCHANGED <<side, hello, up, phone, history>>
    BY <1>3 DEF Respond, KeptSchedules
  <2>2. \A d \in Conn : Works(d) => d = c
    BY <1>1, <2>1, NoneIsNoConn
  <2> QED
    BY <1>1, <2>1, <2>2, SkipSent
<1> QED
  BY <1>2, <1>3

\* Every step of a schedule that keeps passes nothing over.
LEMMA SkipStep == KeptSchedules /\ TInv /\ SkipInv /\ [Next]_vars => SkipInv'
<1> SUFFICES ASSUME KeptSchedules, TInv, SkipInv, [Next]_vars PROVE SkipInv'
  OBVIOUS
<1> QED
  BY SkipGive, SkipAccept, SkipServe, SkipBreak, SkipDial, SkipEnds, SkipCommit, SkipReceive,
     SkipDecrypt DEF Next, BridgeNext, PhoneNext

\* What is missing comes without a gap, always.
LEMMA Skips == KeptSchedules /\ Spec => []SkipInv
<1>1. ASSUME KeptSchedules PROVE Spec => []SkipInv
  <2>1. TInv /\ SkipInv /\ [Next]_vars => SkipInv'
    BY <1>1, SkipStep
  <2> QED
    BY <2>1, Types, SkipInit, PTL DEF Spec
<1> QED
  BY <1>1

\* Unless an answer comes late or frames arrive behind ready, every number the
\* phone counts as applied is that of a message it was handed, or of one the
\* bridge keeps no longer: reconnecting, taking over and restarting pass over
\* nothing. (entriesAfter, skipInboundThrough, _persistBridgeSeq)
THEOREM NothingIsSkipped == KeptSchedules /\ Spec => []NothingSkipped
BY Skips, Types, CountedWas, PTL
--------------------------------------------------------------------------------
(* The promise kept *)

\* A message given out is sent to the phone; one handed to the app is taken,
\* all the bridge keeps before it having been taken; the rest stutters.
LEMMA KeepsStep ==
  ASSUME KeptSchedules, TInv, SkipInv, [Next]_vars
  PROVE  [Promise!Next]_<<next - 1, oldest, applied>>
<1> USE DEF Promise!Next, Promise!Send, Promise!Take
<1>1. next \in Nat /\ oldest \in Nat /\ 1 <= oldest /\ oldest <= next /\ applied \subseteq Seq1
  BY SkipFacts DEF TInv, Typed, TypeOK
<1>2. ASSUME Record, UNCHANGED applied PROVE [Promise!Next]_<<next - 1, oldest, applied>>
  <2>1. next' = next + 1 /\ oldest' \in oldest .. next
    BY <1>2, RecordStep DEF TInv
  <2>2. next' - 1 = next - 1 + 1 /\ next' - 1 = next
    BY <1>1, <2>1
  <2>3. Promise!Send
    BY <1>2, <2>1, <2>2
  <2> QED
    BY <2>3
<1>3. CASE Notify \/ \E c \in Conn : Respond(c)
  BY <1>2, <1>3 DEF Notify, Respond, history
<1>4. CASE Decrypt
  <2>1. PICK f \in [conn : Conn, seq : Seq1] :
           /\ inbound # <<>> /\ f = inbound[1] /\ Len(inbound) >= 1
           /\ IF f.seq > last[f.conn] THEN applied' = applied \cup {f.seq} ELSE applied' = applied
           /\ UNCHANGED <<next, oldest>>
    BY <1>4, Decrypted DEF TInv
  <2>2. CASE applied' = applied
    BY <2>1, <2>2
  <2>3. CASE applied' = applied \cup {f.seq} /\ f.seq \notin applied
    <3>1. PICK x \in Seq1 : x = f.seq
      BY <2>1
    <3>2. 1 \in DOMAIN inbound
      BY <2>1, LenProperties DEF TInv, Typed, TypeOK
    <3>3. x \in 1 .. next - 1
      BY <1>1, <2>1, <3>1, <3>2, CatchUpAssumption DEF TInv, Numbered, Seq1
    <3>4. \A j \in oldest .. x - 1 : j \in applied
      <4>1. 1 \in DOMAIN Numbers(inbound) /\ Numbers(inbound)[1] = x
        BY <2>1, <3>1, <3>2 DEF Numbers
      <4>2. \A k \in oldest .. Numbers(inbound)[1] - 1 :
              k \in applied \/ \E j \in 1 .. 1 - 1 : Numbers(inbound)[j] = k
        BY <4>1 DEF SkipInv, Bridges, NoGap
      <4> QED
        BY <4>1, <4>2
    <3>5. Promise!Take(x)
      BY <2>1, <2>3, <3>1, <3>3, <3>4
    <3> QED
      BY <3>3, <3>5
  <2>4. f.seq \in applied => applied \cup {f.seq} = applied
    OBVIOUS
  <2>5. applied' = applied \/ applied' = applied \cup {f.seq}
    BY <2>1
  <2> QED
    BY <2>2, <2>3, <2>4, <2>5
<1>5. ASSUME UNCHANGED <<next, oldest, applied>> PROVE [Promise!Next]_<<next - 1, oldest, applied>>
  BY <1>5
<1>6. ASSUME NEW c \in Conn, Accept(c) \/ Request(c) \/ Teardown(c) \/ Break(c) \/ Dial(c)
      PROVE  [Promise!Next]_<<next - 1, oldest, applied>>
  BY <1>5, <1>6 DEF Accept, Request, Teardown, Break, Dial, bridge, history
<1>7. CASE \/ GiveUp \/ Commit \/ Receive \/ Checkpoint \/ Save \/ Drop \/ SwitchAway \/ Kill
           \/ UNCHANGED vars
  BY <1>5, <1>7
     DEF GiveUp, Commit, Receive, Checkpoint, Save, Drop, SwitchAway, Kill, vars, bridge, history
<1> QED
  BY <1>3, <1>4, <1>6, <1>7 DEF Next, BridgeNext, PhoneNext

\* On the same schedules the session does what Delivery promises: over whatever
\* connections, a message is handed to the app only once everything the bridge
\* keeps before it was. (architecture/02a 5.9.2; SessionCoordinator, OutboundLog)
THEOREM KeepsThePromise == KeptSchedules /\ Spec => ImplementsDelivery
<1>1. ASSUME KeptSchedules PROVE Spec => ImplementsDelivery
  <2>1. Init => Promise!Init
    BY DEF Init, Promise!Init
  <2>2. TInv /\ SkipInv /\ [Next]_vars => [Promise!Next]_<<next - 1, oldest, applied>>
    BY <1>1, KeepsStep
  <2>3. Spec => []SkipInv
    BY <1>1, Skips
  <2> QED
    BY <2>1, <2>2, <2>3, Types, PTL DEF Spec, ImplementsDelivery, Promise!Spec
<1> QED
  BY <1>1
--------------------------------------------------------------------------------
(* In order *)

\* The latest message handed over since the app started.
Newest == IF got = <<>> THEN 0 ELSE got[Len(got)]

\* It is one of the bridge's numbers, or none. (_receive)
LEMMA NewestIs ==
  ASSUME Typed
  PROVE  /\ Newest \in Nat
         /\ \A i \in DOMAIN got : got[i] \in Nat /\ (AppliedInOrder => got[i] <= Newest)
<1>1. PICK g \in Seq(Seq1), l \in Nat : g = got /\ l = Len(g) /\ DOMAIN g = 1 .. l
  <2>1. got \in Seq(Seq1)
    BY DEF Typed, TypeOK
  <2> QED
    BY <2>1, LenProperties
<1>2. \A i \in 1 .. l : g[i] \in Nat
  BY <1>1, ElementOfSeq, CatchUpAssumption DEF Seq1
<1>3. Newest = IF g = <<>> THEN 0 ELSE g[l]
  BY <1>1 DEF Newest
<1>4. g # <<>> => l \in 1 .. l
  BY <1>1, EmptySeq
<1>5. Newest \in Nat
  BY <1>2, <1>3, <1>4
<1>6. ASSUME NEW i \in 1 .. l, AppliedInOrder PROVE g[i] <= Newest
  <2>1. i \in Nat /\ 1 <= i /\ i <= l /\ l \in 1 .. l
    BY <1>1, <1>6
  <2>2. g # <<>>
    BY <1>1, <2>1, EmptySeq
  <2>3. i = l \/ g[i] < g[l]
    BY <1>1, <1>6, <2>1 DEF AppliedInOrder
  <2> QED
    BY <1>2, <1>3, <2>1, <2>2, <2>3
<1> QED
  BY <1>1, <1>2, <1>5, <1>6

\* What is appended is the latest. (_receive)
LEMMA NewestAppended ==
  ASSUME Typed, NEW x \in Seq1, got' = Append(got, x)
  PROVE  Newest' = x
<1>1. PICK g \in Seq(Seq1) : g = got
  BY DEF Typed, TypeOK
<1>2. /\ Append(g, x) \in Seq(Seq1) /\ Len(Append(g, x)) = Len(g) + 1 /\ Len(g) \in Nat
      /\ Append(g, x)[Len(g) + 1] = x
  BY AppendProperties, LenProperties
<1>3. Append(g, x) # <<>>
  BY <1>2, EmptySeq
<1> QED
  BY <1>1, <1>2, <1>3 DEF Newest

\* What is handed over is more of the same order when it starts anew or goes
\* beyond the latest. (_receive)
LEMMA OrderGrows ==
  ASSUME Typed, AppliedInOrder,
         got' \in {got, <<>>} \/ \E x \in Seq1 : got' = Append(got, x) /\ x > Newest
  PROVE  AppliedInOrder'
<1>1. CASE got' = got
  BY <1>1 DEF AppliedInOrder
<1>2. CASE got' = <<>>
  BY <1>2 DEF AppliedInOrder
<1>3. ASSUME NEW x \in Seq1, got' = Append(got, x), x > Newest PROVE AppliedInOrder'
  <2>1. PICK g \in Seq(Seq1), l \in Nat : g = got /\ l = Len(g) /\ DOMAIN g = 1 .. l
    <3>1. got \in Seq(Seq1)
      BY DEF Typed, TypeOK
    <3> QED
      BY <3>1, LenProperties
  <2>2. PICK h \in Seq(Seq1) : h = got' /\ Len(h) = l + 1 /\ h[l + 1] = x
                            /\ \A i \in 1 .. l : h[i] = g[i]
    <3>1. PICK h \in Seq(Seq1) : h = Append(g, x)
      BY AppendProperties
    <3>2. Len(h) = l + 1 /\ h[l + 1] = x /\ \A i \in 1 .. l : h[i] = g[i]
      BY <2>1, <3>1, AppendProperties
    <3>3. h = got'
      BY <1>3, <2>1, <3>1
    <3> QED
      BY <3>1, <3>2, <3>3
  <2>3. DOMAIN h = 1 .. l + 1
    BY <2>2, LenProperties
  <2>4. x \in Nat /\ Newest \in Nat /\ \A i \in 1 .. l : g[i] \in Nat /\ g[i] <= Newest
    <3>1. x \in Nat
      BY CatchUpAssumption DEF Seq1
    <3>2. Newest \in Nat /\ \A i \in DOMAIN got : got[i] \in Nat /\ got[i] <= Newest
      BY NewestIs, Zenon
    <3> QED
      BY <2>1, <3>1, <3>2
  <2>5. ASSUME NEW i \in 1 .. l + 1, NEW j \in 1 .. l + 1, i < j PROVE h[i] < h[j]
    <3>1. i \in 1 .. l
      BY <2>1, <2>5
    <3>2. CASE j = l + 1
      BY <1>3, <2>2, <2>4, <3>1, <3>2
    <3>3. CASE j # l + 1
      <4>1. j \in 1 .. l
        BY <2>1, <3>3
      <4>2. g[i] < g[j]
        BY <2>1, <2>5, <3>1, <4>1 DEF AppliedInOrder
      <4> QED
        BY <2>2, <3>1, <4>1, <4>2
    <3> QED
      BY <3>2, <3>3
  <2> QED
    BY <2>2, <2>3, <2>5 DEF AppliedInOrder
<1> QED
  BY <1>1, <1>2, <1>3

\* What of w is beyond m is beyond the latest message handed over.
Beyond(w, m, g) == \A i \in DOMAIN w : w[i] > m => w[i] > g

\* What is still to come on a channel, and passes it, comes after all that was
\* handed over; and the channel being opened starts where the live one is.
OrderInv ==
  /\ Newest <= Counted
  /\ inbound # <<>> => live # None
  /\ \A i \in DOMAIN inbound : inbound[i].conn = live /\ (inbound[i].seq > last[live] => inbound[i].seq > Newest)
  /\ live # None => Beyond(wire[live], last[live], Newest)
  /\ dial # None =>
       /\ side[dial] = "hello" => Newest <= hello[dial] \/ Newest <= SkipThrough
       /\ Beyond(wire[dial], SkipThrough, Newest)

\* The schedules on which the app sees the numbers grow.
OrderedSchedules == "queued_frame" \notin Windows /\ "switched_pc" \notin Windows

\* What the phone counts, by cases.
LEMMA CountedValue ==
  ASSUME TInv
  PROVE  Counted = (IF live = None \/ resume >= last[live] THEN resume ELSE last[live])
<1>1. resume \in Nat /\ (live # None => last[live] \in Nat)
  BY SkipFacts
<1>2. CASE live = None
  BY <1>2 DEF Counted
<1>3. CASE live # None
  BY <1>1, <1>3, MaxOfTwo DEF Counted
<1> QED
  BY <1>2, <1>3

\* At the start nothing was handed over.
LEMMA OrderInit == Init => OrderInv
<1> SUFFICES ASSUME Init PROVE OrderInv
  OBVIOUS
<1> QED
  BY TypesInit, CountedValue DEF Init, OrderInv, None, Newest

\* What the steps below need of the types.
LEMMA OrderFacts ==
  ASSUME TInv, OrderInv
  PROVE  /\ next \in Nat /\ resume \in Nat /\ Newest \in Nat /\ Newest < next
         /\ \A c \in Conn : wire[c] \in Seq(Nat) /\ last[c] \in Nat /\ last[c] < next
         /\ live # None => live \in Conn
         /\ dial # None => dial \in Conn
         /\ live # dial \/ (live = None /\ dial = None)
         /\ SkipThrough \in Nat
<1>1. /\ next \in Nat /\ resume \in Nat
      /\ \A c \in Conn : wire[c] \in Seq(Nat) /\ last[c] \in Nat /\ last[c] < next
      /\ live # None => live \in Conn
      /\ dial # None => dial \in Conn
  BY SkipFacts
<1>2. live # dial \/ (live = None /\ dial = None)
  BY DEF TInv, Roles
<1>3. Newest \in Nat /\ Counted \in Nat /\ Counted < next
  BY NewestIs, CountedIs DEF TInv
<1> QED
  BY <1>1, <1>2, <1>3 DEF OrderInv, SkipThrough

\* A step that hands nothing over, moves no channel on and lets frames go at most.
LEMMA OrderLess ==
  ASSUME TInv, OrderInv, UNCHANGED <<last, Newest>>, inbound' = inbound, live' = live,
         Counted' = Counted,
         live # None => \A i \in DOMAIN wire'[live] : i \in DOMAIN wire[live] /\ wire'[live][i] = wire[live][i],
         dial' # None => /\ dial' = dial
                         /\ side'[dial] = "hello" => side[dial] = "hello" /\ hello'[dial] = hello[dial]
                         /\ \A i \in DOMAIN wire'[dial] : i \in DOMAIN wire[dial] /\ wire'[dial][i] = wire[dial][i]
  PROVE  OrderInv'
<1>1. SkipThrough' = SkipThrough
  BY DEF SkipThrough
<1>2. live' # None => Beyond(wire'[live'], last'[live'], Newest')
  BY DEF OrderInv, Beyond
<1>3. dial' # None => /\ side'[dial'] = "hello" => Newest' <= hello'[dial'] \/ Newest' <= SkipThrough'
                      /\ Beyond(wire'[dial'], SkipThrough', Newest')
  BY <1>1 DEF OrderInv, Beyond
<1>4. /\ Newest' <= Counted'
      /\ inbound' # <<>> => live' # None
      /\ \A i \in DOMAIN inbound' : inbound'[i].conn = live' /\ (inbound'[i].seq > last'[live'] => inbound'[i].seq > Newest')
  BY DEF OrderInv
<1> QED
  BY <1>2, <1>3, <1>4, Zenon DEF OrderInv

\* A message just recorded is beyond all others. (record, notify, sendResponse)
LEMMA OrderGive ==
  ASSUME TInv, OrderInv, Notify \/ \E c \in Conn : Respond(c)
  PROVE  OrderInv'
<1>1. PICK c \in Conn \cup {None} :
        Record /\ Carry(c, <<next>>) /\ UNCHANGED <<side, hello, up, phone, history>>
  BY DEF Notify, Respond, TInv, Typed, TypeOK
<1>2. UNCHANGED <<side, hello, live, dial, last, inbound, resume, Newest>>
  BY <1>1 DEF phone, history, Newest
<1>3. Counted' = Counted /\ SkipThrough' = SkipThrough
  BY <1>2 DEF Counted, SkipThrough
<1>4. ASSUME NEW d \in Conn, NEW m, Beyond(wire[d], m, Newest) PROVE Beyond(wire'[d], m, Newest)
  <2>1. <<next>> \in Seq(0 .. MaxSeq)
    BY <1>1, RecordStep, CatchUpAssumption DEF TInv, Seq1
  <2>2. wire'[d] \in {wire[d], wire[d] \o <<next>>}
    BY <1>1, <2>1, Carried DEF TInv, Typed
  <2>3. PICK w \in Seq(0 .. MaxSeq) : w = wire[d]
    BY DEF TInv, Typed
  <2>4. \A i \in DOMAIN (w \o <<next>>) : (w \o <<next>>)[i] = next \/ (i \in DOMAIN w /\ (w \o <<next>>)[i] = w[i])
    BY <2>1, <2>3
  <2>5. next > Newest
    BY OrderFacts
  <2> QED
    BY <1>4, <2>2, <2>3, <2>4, <2>5 DEF Beyond
<1>5. live' # None => Beyond(wire'[live'], last'[live'], Newest')
  BY <1>2, <1>4, OrderFacts DEF OrderInv
<1>6. dial' # None => /\ side'[dial'] = "hello" => Newest' <= hello'[dial'] \/ Newest' <= SkipThrough'
                      /\ Beyond(wire'[dial'], SkipThrough', Newest')
  BY <1>2, <1>3, <1>4, OrderFacts DEF OrderInv
<1>7. /\ Newest' <= Counted'
      /\ inbound' # <<>> => live' # None
      /\ \A i \in DOMAIN inbound' : inbound'[i].conn = live' /\ (inbound'[i].seq > last'[live'] => inbound'[i].seq > Newest')
  BY <1>2, <1>3 DEF OrderInv
<1> QED
  BY <1>5, <1>6, <1>7, Zenon DEF OrderInv

\* What is replayed is beyond what the phone said. (entriesAfter)
LEMMA OrderAccept ==
  ASSUME TInv, OrderInv, NEW c \in Conn, Accept(c)
  PROVE  OrderInv'
<1>1. /\ side[c] = "hello" /\ side' = [side EXCEPT ![c] = "serving"]
      /\ hello' = [hello EXCEPT ![c] = 0]
      /\ Carry(c, <<Ready>> \o EntriesAfter(hello[c]))
      /\ UNCHANGED <<live, dial, last, inbound, resume, Newest>>
  BY DEF Accept, phone, history, Newest
<1>2. Typed /\ TypeOK /\ Roles
  BY DEF TInv, Typed
<1>3. /\ next \in Nat /\ oldest \in Nat /\ 1 <= oldest /\ hello[c] \in Nat /\ hello[c] < next
  BY SkipFacts
<1>4. PICK from \in Nat, f \in Seq(0 .. MaxSeq) :
           /\ from >= oldest /\ from > hello[c] /\ from <= next /\ (from = oldest \/ from = hello[c] + 1)
           /\ f = <<Ready>> \o EntriesAfter(hello[c]) /\ Len(f) = next - from + 1
           /\ f # <<>> /\ f[1] = Ready /\ \A i \in 2 .. Len(f) : f[i] = from + i - 2
  BY <1>2, <1>3, Opening
<1>5. \A d \in Conn : wire'[d] = IF d = c /\ up[d] THEN wire[d] \o f ELSE wire[d]
  BY <1>1, <1>2, <1>4, Carried DEF Typed
<1>6. c # live /\ (up[c] => c = dial /\ wire[c] = <<>>)
  <2>1. c # None
    BY NoneIsNoConn
  <2>2. c # live
    BY <1>1, <1>2, <2>1 DEF Roles
  <2> QED
    BY <1>1, <1>2, <2>1, <2>2 DEF Roles
<1>7. Counted' = Counted /\ SkipThrough' = SkipThrough
  BY <1>1 DEF Counted, SkipThrough
<1>8. live' # None => Beyond(wire'[live'], last'[live'], Newest')
  BY <1>1, <1>5, <1>6, OrderFacts DEF OrderInv
<1>9. ASSUME dial' # None
      PROVE  /\ side'[dial'] = "hello" => Newest' <= hello'[dial'] \/ Newest' <= SkipThrough'
             /\ Beyond(wire'[dial'], SkipThrough', Newest')
  <2>1. dial' = dial /\ dial \in Conn
    BY <1>1, <1>9, OrderFacts
  <2>2. side'[dial] = "hello" => side[dial] = "hello" /\ hello'[dial] = hello[dial]
    BY <1>1, <1>2, <2>1 DEF TypeOK
  <2>3. CASE dial = c /\ up[c]
    <3>1. wire'[dial] = f
      BY <1>4, <1>5, <1>6, <2>3, ConcatEmptySeq
    <3>2. Newest <= hello[c] \/ Newest <= SkipThrough
      BY <1>1, <1>9, <2>3 DEF OrderInv
    <3>3. SkipThrough \in Nat /\ Newest \in Nat
      BY OrderFacts
    <3>4. ASSUME NEW i \in DOMAIN f, f[i] > SkipThrough PROVE f[i] > Newest
      <4>1. i # 1
        BY <1>4, <3>3, <3>4 DEF Ready
      <4>2. i \in 2 .. Len(f)
        BY <3>4, <4>1, LenProperties
      <4>3. f[i] = from + i - 2
        BY <1>4, <4>2
      <4>4. i >= 2 /\ i \in Int /\ from \in Int /\ hello[c] \in Int /\ from > hello[c]
        BY <1>3, <1>4, <4>2
      <4>5. from + i - 2 > hello[c]
        BY <4>4
      <4> QED
        BY <1>3, <3>2, <3>3, <3>4, <4>3, <4>4, <4>5
    <3>5. Beyond(f, SkipThrough, Newest)
      BY <3>4 DEF Beyond
    <3>6. side'[dial] = "serving"
      BY <1>1, <1>2, <2>3 DEF TypeOK
    <3> QED
      BY <1>1, <1>7, <2>1, <3>1, <3>5, <3>6
  <2>4. CASE ~(dial = c /\ up[c])
    <3>1. wire'[dial] = wire[dial]
      BY <1>5, <2>1, <2>4
    <3> QED
      BY <1>1, <1>7, <1>9, <2>1, <2>2, <3>1 DEF OrderInv
  <2> QED
    BY <2>3, <2>4
<1>10. /\ Newest' <= Counted'
       /\ inbound' # <<>> => live' # None
       /\ \A i \in DOMAIN inbound' : inbound'[i].conn = live' /\ (inbound'[i].seq > last'[live'] => inbound'[i].seq > Newest')
  BY <1>1, <1>7 DEF OrderInv
<1> QED
  BY <1>8, <1>9, <1>10, Zenon DEF OrderInv

\* The phone says what it counted, and that is all it was handed.
LEMMA OrderDial ==
  ASSUME TInv, OrderInv, NEW c \in Conn, Dial(c)
  PROVE  OrderInv'
<1>1. /\ dial = None /\ side[c] = "none"
      /\ resume' = Counted /\ hello' = [hello EXCEPT ![c] = resume'] /\ dial' = c
      /\ UNCHANGED <<wire, live, last, inbound, Newest>>
  BY DEF Dial, history, Newest
<1>2. Typed /\ TypeOK /\ Roles
  BY DEF TInv, Typed
<1>3. wire[c] = <<>>
  BY <1>1, <1>2, NoneIsNoConn DEF Roles
<1>4. Counted' = Counted
  <2>1. Counted' = Max({Counted, last[live]}) \/ Counted' = Counted
    BY <1>1 DEF Counted
  <2>2. live # None => Counted \in Nat /\ last[live] \in Nat /\ last[live] <= Counted
    BY CountedIs, OrderFacts DEF TInv
  <2>3. live # None => Max({Counted, last[live]}) = Counted
    BY <2>2, MaxOfTwo
  <2>4. live = None => Counted' = Counted
    BY <1>1 DEF Counted
  <2> QED
    BY <2>1, <2>3, <2>4
<1>5. hello'[c] = Counted
  BY <1>1, <1>2 DEF TypeOK
<1>6. Newest' <= hello'[dial'] /\ Beyond(wire'[dial'], SkipThrough', Newest')
  BY <1>1, <1>3, <1>5 DEF OrderInv, Beyond
<1>7. /\ Newest' <= Counted'
      /\ inbound' # <<>> => live' # None
      /\ \A i \in DOMAIN inbound' : inbound'[i].conn = live' /\ (inbound'[i].seq > last'[live'] => inbound'[i].seq > Newest')
      /\ live' # None => Beyond(wire'[live'], last'[live'], Newest')
  BY <1>1, <1>4 DEF OrderInv
<1> QED
  BY <1>6, <1>7, Zenon DEF OrderInv

\* The new channel takes over with what the old one delivered. (skipInboundThrough)
LEMMA OrderCommit ==
  ASSUME TInv, OrderInv, OrderedSchedules, Commit
  PROVE  OrderInv'
<1>1. /\ live' = dial /\ dial' = None /\ dial # None /\ inbound' = <<>>
      /\ last' = [last EXCEPT ![dial] = SkipThrough]
      /\ UNCHANGED <<resume, Newest>>
  BY DEF Commit, bridge, history, OrderedSchedules, Newest
<1>2. Typed /\ TypeOK /\ Roles
  BY DEF TInv, Typed
<1>3. PICK n \in 0 .. Len(wire[dial]) - 1 :
           /\ dial \in Conn
           /\ wire'[dial] \in Seq(Seq1) /\ Len(wire'[dial]) = Len(wire[dial]) - n - 1
           /\ \A i \in 1 .. Len(wire'[dial]) : wire'[dial][i] = wire[dial][n + 1 + i]
  BY <1>2, Committed
<1>4. last'[dial] = SkipThrough
  BY <1>1, <1>2, <1>3 DEF TypeOK
<1>5. Beyond(wire'[dial], SkipThrough, Newest)
  <2>1. PICK w \in Seq(Nat), v \in Seq(Seq1) : w = wire[dial] /\ v = wire'[dial]
    BY <1>3, OrderFacts
  <2>2. Beyond(w, SkipThrough, Newest)
    BY <1>1, <2>1 DEF OrderInv
  <2>3. \A i \in DOMAIN v : n + 1 + i \in DOMAIN w /\ v[i] = w[n + 1 + i]
    <3>1. PICK l \in Nat : l = Len(v) /\ DOMAIN v = 1 .. l
      BY LenProperties
    <3>2. n \in Nat /\ Len(w) = l + n + 1 /\ DOMAIN w = 1 .. l + n + 1
      <4>1. PICK m \in Nat : m = Len(w) /\ DOMAIN w = 1 .. m
        BY LenProperties
      <4>2. n \in 0 .. m - 1 /\ l = m - n - 1
        BY <1>3, <2>1, <3>1, <4>1
      <4> QED
        BY <4>1, <4>2
    <3>3. \A i \in 1 .. l : n + 1 + i \in 1 .. l + n + 1
      BY <3>2
    <3>4. \A i \in 1 .. l : v[i] = w[n + 1 + i]
      BY <1>3, <2>1, <3>1
    <3> QED
      BY <3>1, <3>2, <3>3, <3>4
  <2>4. Beyond(v, SkipThrough, Newest)
    BY <2>2, <2>3 DEF Beyond
  <2> QED
    BY <2>1, <2>4
<1>6. live' # None => Beyond(wire'[live'], last'[live'], Newest')
  BY <1>1, <1>4, <1>5
<1>7. Newest' <= Counted'
  <2>1. Counted' = Max({resume, SkipThrough})
    BY <1>1, <1>4 DEF Counted
  <2>2. resume \in Nat /\ SkipThrough \in Nat /\ Newest \in Nat
    BY OrderFacts
  <2>3. Counted' = IF resume >= SkipThrough THEN resume ELSE SkipThrough
    BY <2>1, <2>2, MaxOfTwo
  <2>4. Newest <= resume \/ Newest <= SkipThrough
    BY CountedValue, <2>2 DEF SkipThrough, OrderInv
  <2>5. PICK k \in Nat : k = Counted' /\ Newest <= k
    BY <2>2, <2>3, <2>4
  <2> QED
    BY <1>1, <2>5
<1>8. \A i \in DOMAIN inbound' : inbound'[i].conn = live' /\ (inbound'[i].seq > last'[live'] => inbound'[i].seq > Newest')
  BY <1>1
<1> QED
  BY <1>1, <1>6, <1>7, <1>8, Zenon DEF OrderInv

\* Frames wait in the order they came in. (_handleRaw)
LEMMA OrderReceive ==
  ASSUME TInv, OrderInv, Receive
  PROVE  OrderInv'
<1>1. Typed /\ TypeOK /\ Roles
  BY DEF TInv, Typed
<1>2. PICK w \in Seq(Seq1) :
           /\ live \in Conn /\ w = wire[live] /\ w # <<>>
           /\ wire' = [wire EXCEPT ![live] = Tail(w)]
           /\ inbound' = Append(inbound, [conn |-> live, seq |-> w[1]])
           /\ w[1] \in Seq1 /\ Tail(w) \in Seq(Seq1)
           /\ Len(w) >= 1 /\ Len(Tail(w)) = Len(w) - 1 /\ \A i \in 1 .. Len(Tail(w)) : Tail(w)[i] = w[i + 1]
           /\ UNCHANGED <<next, oldest, sink, side, busy, hello, up, live, dial, last, resume, saved,
                          applied, got>>
  BY <1>1, Received
<1>3. /\ live # None /\ live # dial /\ (dial # None => dial \in Conn)
      /\ Newest' = Newest
  BY <1>1, <1>2, NoneIsNoConn DEF Roles, TypeOK, Newest
<1>4. Beyond(w, last[live], Newest)
  BY <1>2, <1>3 DEF OrderInv
<1>5. Counted' = Counted /\ SkipThrough' = SkipThrough
  BY <1>2 DEF Counted, SkipThrough
<1>6. wire'[live] = Tail(w) /\ \A c \in Conn \ {live} : wire'[c] = wire[c]
  BY <1>1, <1>2 DEF Typed
<1>7. Beyond(Tail(w), last[live], Newest)
  <2>1. PICK v \in Seq(Seq1) : v = Tail(w)
    BY <1>2
  <2>2. \A i \in DOMAIN v : i + 1 \in DOMAIN w /\ v[i] = w[i + 1]
    BY <1>2, <2>1, LenProperties
  <2>3. Beyond(v, last[live], Newest)
    BY <1>4, <2>2 DEF Beyond
  <2> QED
    BY <2>1, <2>3
<1>8. \A i \in DOMAIN inbound' : inbound'[i].conn = live' /\ (inbound'[i].seq > last'[live'] => inbound'[i].seq > Newest')
  <2>1. inbound \in Seq([conn : Conn, seq : Seq1])
    BY <1>1 DEF TypeOK
  <2>2. PICK f \in [conn : Conn, seq : Seq1] : f = [conn |-> live, seq |-> w[1]]
    BY <1>2
  <2>3. \A i \in DOMAIN inbound' : inbound'[i] = f \/ (i \in DOMAIN inbound /\ inbound'[i] = inbound[i])
    BY <1>2, <2>1, <2>2, AppendProperties, LenProperties
  <2>4. f.conn = live /\ (f.seq > last[live] => f.seq > Newest)
    <3>1. 1 \in DOMAIN w
      BY <1>2, LenProperties
    <3> QED
      BY <1>4, <2>2, <3>1 DEF Beyond
  <2> QED
    BY <1>2, <1>3, <2>3, <2>4 DEF OrderInv
<1>9. live' # None => Beyond(wire'[live'], last'[live'], Newest')
  BY <1>2, <1>3, <1>6, <1>7
<1>10. dial' # None => /\ side'[dial'] = "hello" => Newest' <= hello'[dial'] \/ Newest' <= SkipThrough'
                       /\ Beyond(wire'[dial'], SkipThrough', Newest')
  BY <1>2, <1>3, <1>5, <1>6 DEF OrderInv
<1>11. Newest' <= Counted' /\ (inbound' # <<>> => live' # None)
  BY <1>2, <1>3, <1>5 DEF OrderInv
<1> QED
  BY <1>8, <1>9, <1>10, <1>11, Zenon DEF OrderInv

\* What a frame that passes hands over is the latest. (_receive)
LEMMA OrderDecrypt ==
  ASSUME TInv, OrderInv, Decrypt
  PROVE  OrderInv' /\ (got' = got \/ \E x \in Seq1 : got' = Append(got, x) /\ x > Newest)
<1>1. Typed /\ TypeOK
  BY DEF TInv, Typed
<1>2. PICK f \in [conn : Conn, seq : Seq1], rest \in Seq([conn : Conn, seq : Seq1]) :
           /\ inbound # <<>> /\ f = inbound[1] /\ inbound' = rest
           /\ Len(inbound) >= 1 /\ DOMAIN rest = 1 .. Len(inbound) - 1
           /\ \A i \in DOMAIN rest : i + 1 \in DOMAIN inbound /\ rest[i] = inbound[i + 1]
           /\ IF f.seq > last[f.conn]
                THEN /\ last' = [last EXCEPT ![f.conn] = f.seq]
                     /\ applied' = applied \cup {f.seq} /\ got' = Append(got, f.seq)
                ELSE UNCHANGED <<last, applied, got>>
           /\ UNCHANGED <<next, oldest, sink, side, busy, hello, up, wire, live, dial, resume, saved>>
  BY <1>1, Decrypted
<1>3. live # None /\ live \in Conn
  BY <1>2, OrderFacts DEF OrderInv
<1>4. 1 \in DOMAIN inbound
  BY <1>1, <1>2, LenProperties DEF TypeOK
<1>5. PICK x \in Nat : x \in Seq1 /\ x = f.seq /\ f.conn = live /\ (x > last[live] => x > Newest)
  BY <1>2, <1>4, CatchUpAssumption DEF OrderInv, Seq1
<1>6. \A i \in DOMAIN rest : rest[i].conn = live /\ (rest[i].seq > last[live] => rest[i].seq > Newest)
  BY <1>2 DEF OrderInv
<1>7. CASE x > last[live]
  <2>0. got' = Append(got, x)
    BY <1>2, <1>5, <1>7
  <2>1. /\ last' = [last EXCEPT ![live] = x] /\ Newest' = x
        /\ UNCHANGED <<side, hello, wire, live, dial, resume>>
    BY <1>1, <1>2, <1>5, <1>7, <2>0, NewestAppended
  <2>2. last'[live] = x
    BY <1>1, <1>3, <2>1 DEF TypeOK
  <2>3. SkipThrough' = x /\ Newest' = x
    BY <1>3, <2>1, <2>2 DEF SkipThrough
  <2>4. Newest' <= Counted'
    <3>1. Counted' = Max({resume, x})
      BY <1>3, <2>1, <2>2 DEF Counted
    <3>2. resume \in Nat
      BY OrderFacts
    <3>3. Counted' = IF resume >= x THEN resume ELSE x
      BY <3>1, <3>2, MaxOfTwo
    <3>4. PICK k \in Nat : k = Counted' /\ x <= k
      BY <3>2, <3>3
    <3> QED
      BY <2>1, <3>4
  <2>5. \A i \in DOMAIN inbound' : inbound'[i].conn = live' /\ (inbound'[i].seq > last'[live'] => inbound'[i].seq > Newest')
    BY <1>2, <1>6, <2>1, <2>2
  <2>6. live' # None => Beyond(wire'[live'], last'[live'], Newest')
    BY <2>1, <2>2 DEF Beyond
  <2>7. dial' # None => /\ side'[dial'] = "hello" => Newest' <= hello'[dial'] \/ Newest' <= SkipThrough'
                        /\ Beyond(wire'[dial'], SkipThrough', Newest')
    BY <2>3 DEF Beyond
  <2>8. OrderInv'
    BY <1>3, <2>1, <2>4, <2>5, <2>6, <2>7, Zenon DEF OrderInv
  <2> QED
    BY <1>5, <1>7, <2>0, <2>8
<1>8. CASE ~(x > last[live])
  <2>1. UNCHANGED <<side, hello, wire, live, dial, last, resume, got, Newest>>
    BY <1>2, <1>5, <1>8 DEF Newest
  <2>2. Counted' = Counted /\ SkipThrough' = SkipThrough
    BY <2>1 DEF Counted, SkipThrough
  <2>3. \A i \in DOMAIN inbound' : inbound'[i].conn = live' /\ (inbound'[i].seq > last'[live'] => inbound'[i].seq > Newest')
    BY <1>2, <1>6, <2>1
  <2>4. /\ Newest' <= Counted' /\ live' # None
        /\ live' # None => Beyond(wire'[live'], last'[live'], Newest')
        /\ dial' # None => /\ side'[dial'] = "hello" => Newest' <= hello'[dial'] \/ Newest' <= SkipThrough'
                           /\ Beyond(wire'[dial'], SkipThrough', Newest')
    BY <1>3, <2>1, <2>2 DEF OrderInv
  <2>5. OrderInv'
    BY <2>3, <2>4, Zenon DEF OrderInv
  <2> QED
    BY <2>1, <2>5
<1> QED
  BY <1>7, <1>8

\* A channel let go of leaves nothing behind that it read. (disconnect)
LEMMA OrderHangUp ==
  ASSUME TInv, OrderInv, OrderedSchedules, Drop \/ SwitchAway \/ Kill
  PROVE  OrderInv'
<1>1. live' = None /\ inbound' = <<>> /\ dial' = None
  BY DEF Drop, SwitchAway, Kill, OrderedSchedules
<1>2. Newest' <= resume'
  <2>1. CASE Drop
    BY <2>1 DEF Drop, history, OrderInv, Newest
  <2>2. CASE SwitchAway
    BY <2>2 DEF SwitchAway, history, OrderInv, OrderedSchedules, Newest
  <2>3. CASE Kill
    <3>1. Newest' = 0 /\ resume' = saved /\ saved \in Nat
      BY <2>3, SkipFacts DEF Kill, Newest
    <3>2. PICK s \in Nat : s = saved /\ 0 <= s
      BY <3>1
    <3> QED
      BY <3>1, <3>2
  <2> QED
    BY <2>1, <2>2, <2>3
<1>3. Counted' = resume'
  BY <1>1 DEF Counted
<1> QED
  BY <1>1, <1>2, <1>3 DEF OrderInv

\* Every step keeps the order, and hands over nothing but the latest.
LEMMA OrderStep ==
  ASSUME OrderedSchedules, TInv, OrderInv, [Next]_vars
  PROVE  OrderInv' /\ (got' \in {got, <<>>} \/ \E x \in Seq1 : got' = Append(got, x) /\ x > Newest)
<1>1. /\ live # None => live \in Conn
      /\ dial # None => dial \in Conn
      /\ live # dial \/ (live = None /\ dial = None)
  BY OrderFacts
<1>2. CASE Notify \/ \E c \in Conn : Respond(c)
  BY <1>2, OrderGive DEF Notify, Respond, history
<1>3. ASSUME NEW c \in Conn, Request(c) \/ Teardown(c)
      PROVE  OrderInv' /\ got' = got
  <2>1. /\ UNCHANGED <<wire, live, dial, last, inbound, resume, got, Newest>>
        /\ \A d \in Conn : side'[d] = "hello" => side[d] = "hello" /\ hello'[d] = hello[d]
    <3>1. CASE Request(c)
      BY <3>1 DEF Request, phone, history, Newest
    <3>2. CASE Teardown(c)
      BY <3>2 DEF Teardown, phone, history, TInv, Typed, TypeOK, Newest
    <3> QED
      BY <1>3, <3>1, <3>2
  <2>2. Counted' = Counted
    BY <2>1 DEF Counted
  <2> QED
    BY <1>1, <2>1, <2>2, OrderLess
<1>4. ASSUME NEW c \in Conn, Break(c)
      PROVE  OrderInv' /\ got' = got
  <2>1. UNCHANGED <<side, hello, live, dial, last, inbound, resume, got, Newest>>
    BY <1>4 DEF Break, bridge, phone, history, Newest
  <2>2. Counted' = Counted
    BY <2>1 DEF Counted
  <2>3. ASSUME NEW d \in Conn
        PROVE  \A i \in DOMAIN wire'[d] : i \in DOMAIN wire[d] /\ wire'[d][i] = wire[d][i]
    <3>1. PICK n \in 0 .. Len(wire[c]) : wire' = [wire EXCEPT ![c] = SubSeq(wire[c], 1, n)]
      BY <1>4 DEF Break
    <3>2. PICK w \in Seq(Nat) : w = wire[c] /\ n \in 0 .. Len(w)
      BY <3>1, OrderFacts
    <3>3. PICK v \in Seq(Nat) : v = SubSeq(w, 1, n) /\ Len(v) = n /\ \A i \in 1 .. n : v[i] = w[i]
      <4>1. SubSeq(w, 1, n) \in Seq(Nat) /\ Len(SubSeq(w, 1, n)) = n
            /\ \A i \in 1 .. n : SubSeq(w, 1, n)[i] = w[i]
        BY <3>2, Prefix
      <4> QED
        BY <4>1
    <3>4. \A i \in DOMAIN v : i \in DOMAIN w /\ v[i] = w[i]
      BY <3>2, <3>3, LenProperties
    <3>5. wire'[d] = IF d = c THEN v ELSE wire[d]
      BY <3>1, <3>2, <3>3 DEF TInv, Typed
    <3> QED
      BY <3>2, <3>4, <3>5
  <2> QED
    BY <1>1, <2>1, <2>2, <2>3, OrderLess
<1>5. CASE GiveUp
  <2>1. /\ UNCHANGED <<side, hello, live, last, inbound, resume, got, Newest>> /\ dial' = None
        /\ LetGo({dial})
    BY <1>5 DEF GiveUp, bridge, history, Newest
  <2>2. Counted' = Counted
    BY <2>1 DEF Counted
  <2>3. live # None => wire'[live] = wire[live]
    BY <1>1, <2>1 DEF LetGo
  <2> QED
    BY <2>1, <2>2, <2>3, OrderLess
<1>6. CASE Checkpoint \/ Save \/ UNCHANGED vars
  <2>1. /\ UNCHANGED <<side, hello, wire, live, dial, last, inbound, got, Newest>>
        /\ resume' \in {resume, Counted}
    BY <1>6 DEF Checkpoint, Save, vars, bridge, phone, history, Newest
  <2>2. Counted' = Counted
    <3>1. CASE resume' = resume
      BY <2>1, <3>1 DEF Counted
    <3>2. CASE resume' = Counted /\ live = None
      BY <2>1, <3>2 DEF Counted
    <3>3. CASE resume' = Counted /\ live # None
      <4>1. Counted' = Max({Counted, last[live]})
        BY <2>1, <3>3 DEF Counted
      <4>2. Counted \in Nat /\ last[live] \in Nat /\ last[live] <= Counted
        BY <3>3, CountedIs, OrderFacts DEF TInv
      <4> QED
        BY <4>1, <4>2, MaxOfTwo
    <3> QED
      BY <2>1, <3>1, <3>2, <3>3
  <2> QED
    BY <2>1, <2>2, OrderLess
<1>7. CASE Drop \/ SwitchAway \/ Kill
  <2>1. got' \in {got, <<>>}
    BY <1>7 DEF Drop, SwitchAway, Kill, history
  <2> QED
    BY <1>7, <2>1, OrderHangUp
<1>8. ASSUME NEW c \in Conn, Accept(c) \/ Dial(c)
      PROVE  OrderInv' /\ got' = got
  BY <1>8, OrderAccept, OrderDial DEF Accept, Dial, history
<1>9. CASE Commit \/ Receive
  BY <1>9, OrderCommit, OrderReceive DEF Commit, Receive, history
<1>10. CASE Decrypt
  BY <1>10, OrderDecrypt
<1> QED
  BY <1>2, <1>3, <1>4, <1>5, <1>6, <1>7, <1>8, <1>9, <1>10 DEF Next, BridgeNext, PhoneNext

\* Unless frames of a connection let go of still wait to be decrypted, or the
\* phone left for another PC without a checkpoint, the app is handed messages in
\* the order of their numbers, and none of them twice, over however many
\* connections. (session-handler's replay before registering, skipInboundThrough,
\* decrypt's strictly increasing sequence)
THEOREM HandedInOrder == OrderedSchedules /\ Spec => []AppliedInOrder
<1>1. ASSUME OrderedSchedules PROVE Spec => []AppliedInOrder
  <2>1. TInv /\ OrderInv /\ [Next]_vars => OrderInv'
    BY <1>1, OrderStep
  <2>2. Init => AppliedInOrder
    BY DEF Init, AppliedInOrder
  <2>3. TInv /\ OrderInv /\ AppliedInOrder /\ [Next]_vars => AppliedInOrder'
    BY <1>1, OrderStep, OrderGrows DEF TInv
  <2> QED
    BY <2>1, <2>2, <2>3, Types, OrderInit, PTL DEF Spec
<1> QED
  BY <1>1
================================================================================
