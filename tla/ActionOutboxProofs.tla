--------------------------- MODULE ActionOutboxProofs ---------------------------
(* On the safe schedules, and for any phones, kinds, decisions and losses: the *)
(* latest action wins, and nothing is deleted that its phone had not seen.     *)
EXTENDS ActionOutbox, WellFoundedInduction, TLAPS

\* Every schedule of Open is left out.
Safe == \A w \in {"late_arrival", "behind_lost", "same_title", "killed"} : ~Open(w)

IsMap(f, S) == f = [x \in S |-> f[x]]

Taken ==
  /\ taken \in Seq([who : Phone \cup {Desk}, kind : Kind \cup {"turn"}, named : Nat])
  /\ \A d \in DOMAIN taken :
       /\ taken[d].who = Desk <=> taken[d].kind = "turn"
       /\ taken[d].kind = "renameThread" => taken[d].named = d

\* d was decided on p.
OfPhone(p, d) == d \in DOMAIN taken /\ taken[d].who = p

\* The bridge's dates are those of the decisions it has.
Dated ==
  /\ title \in [by : 0..Now, at : Nat] /\ title.at = title.by
  /\ title.by # 0 => taken[title.by].kind = "renameThread"
  /\ status \in [by : 0..Now, at : Nat] /\ status.at = status.by
  /\ status.by # 0 => taken[status.by].kind \in Filing
  /\ active \in 0..Now
  /\ there \in BOOLEAN

\* The bridge heard d, or one that outdates it.
Settled(d) ==
  there => /\ taken[d].kind = "renameThread" => title.by >= d
           /\ taken[d].kind \in Filing => status.by >= d
           /\ taken[d].kind = "deleteThread" => Outdone(d)

\* A later decision of its phone, or of anyone, makes d moot.
Overtaken(d) ==
  \E e \in DOMAIN taken :
    /\ e > d
    /\ \/ taken[e].kind = "deleteThread" /\ taken[e].who = taken[d].who
       \/ taken[e].kind = "renameThread" /\ taken[d].kind = "renameThread"
       \/ taken[e].kind \in Filing /\ taken[d].kind \in Filing

\* A request on its way is younger than the next decision, so its date is right;
\* what it carries is kept too, or waited for.
Sent(p) == {net[p][i] : i \in DOMAIN net[p]}

\* d needs nobody any more, or is still kept.
Owed(p, d) == Settled(d) \/ Overtaken(d) \/ \E e \in rows[p] : e.d = d

Late(p, m) == m.age = Now - m.d /\ Owed(p, m.d)

Live(p, m) ==
  /\ m.d = Now
  /\ \E w \in waits[p] : w.d = m.d
  /\ [d |-> m.d, late |-> FALSE] \notin ans[p]

NetInv(p) ==
  /\ net[p] \in Seq([d : Nat, late : BOOLEAN, age : Nat])
  /\ \A m \in Sent(p) :
       /\ OfPhone(p, m.d)
       /\ m.late => Late(p, m)
       /\ ~m.late => Live(p, m)
  /\ \A i, j \in DOMAIN net[p] : ~net[p][i].late /\ ~net[p][j].late => i = j

\* Nothing kept is younger than what a request still waited for will replace.
KeptInv(p) ==
  /\ \A e \in rows[p] : OfPhone(p, e.d)
  /\ \A w \in waits[p] : OfPhone(p, w.d)
  /\ \A v, w \in waits[p] : v.d = w.d => v = w
  /\ \A e \in rows[p], w \in waits[p] :
       taken[e.d].kind \in Supersedes(taken[w.d].kind) => e.d < w.d

AnsInv(p) == \A a \in ans[p] : OfPhone(p, a.d) /\ Settled(a.d)

\* What the bridge has not heard and nothing outdates is kept or waited for.
NothingLost ==
  \A d \in DOMAIN taken :
    taken[d].kind # "turn" =>
      \/ Settled(d) \/ Overtaken(d)
      \/ \E e \in rows[taken[d].who] : e.d = d
      \/ \E w \in waits[taken[d].who] : w.d = d

IsPass(x) == x = [list |-> x.list, again |-> x.again, cut |-> x.cut]

Maps ==
  /\ IsMap(rows, Phone) /\ IsMap(waits, Phone) /\ IsMap(pass, Phone)
  /\ IsMap(net, Phone) /\ IsMap(ans, Phone)
  /\ \A p \in Phone : waits[p] \subseteq [d : Nat, cut : BOOLEAN]
  /\ \A p \in Phone : IsPass(pass[p])

ListInv(p) == \A e \in pass[p].list : OfPhone(p, e.d) /\ Owed(p, e.d)

IInv ==
  /\ Maps /\ Taken /\ Dated /\ NothingLost
  /\ \A p \in Phone : NetInv(p) /\ KeptInv(p) /\ AnsInv(p) /\ ListInv(p)
--------------------------------------------------------------------------------
(* Lemmas *)

LEMMA Enqueued ==
  ASSUME NEW r, NEW d, NEW k
  PROVE  /\ \A e \in Enqueue(r, d, k) :
              \/ e.d = d
              \/ e \in r /\ taken[e.d].kind \notin Supersedes(k)
         /\ \E e \in Enqueue(r, d, k) : e.d = d
         /\ \A e \in r : taken[e.d].kind \notin Supersedes(k) => e \in Enqueue(r, d, k)
<1> DEFINE n == 1 + Max({0} \cup {e.id : e \in r})
           fresh == [id |-> n, d |-> d]
<1>1. Enqueue(r, d, k) = {e \in r : taken[e.d].kind \notin Supersedes(k)} \cup {fresh}
  BY DEF Enqueue
<1>2. fresh.d = d
  <2> HIDE DEF n
  <2> QED
    OBVIOUS
<1> HIDE DEF fresh
<1> QED
  BY <1>1, <1>2

LEMMA TakenTypes ==
  ASSUME Taken, NEW d \in DOMAIN taken
  PROVE  /\ d \in Nat /\ d >= 1 /\ d <= Now /\ Now \in Nat
         /\ taken[d].who \in Phone \cup {Desk} /\ taken[d].kind \in Kind \cup {"turn"}
         /\ taken[d].kind # "turn" => taken[d].who \in Phone
<1> DEFINE R == [who : Phone \cup {Desk}, kind : Kind \cup {"turn"}, named : Nat]
<1>1. taken \in Seq(R)
  BY DEF Taken
<1>2. taken[d] \in R /\ d \in 1..Len(taken) /\ Len(taken) \in Nat
  <2> HIDE DEF R
  <2> QED
    BY <1>1
<1>3. taken[d].who = Desk <=> taken[d].kind = "turn"
  BY DEF Taken
<1> QED
  BY <1>2, <1>3 DEF Now

\* What is decided stays decided, and what the bridge heard it keeps.
Grows ==
  /\ DOMAIN taken \subseteq DOMAIN taken'
  /\ \A d \in DOMAIN taken : taken'[d] = taken[d]
  /\ there' => there
  /\ title'.by >= title.by /\ status'.by >= status.by /\ active' >= active

LEMMA Lasting ==
  ASSUME IInv, Dated', Grows, NEW d \in DOMAIN taken
  PROVE  /\ d \in Nat
         /\ Settled(d) => Settled(d)'
         /\ Overtaken(d) => Overtaken(d)'
         /\ \A p : OfPhone(p, d) => OfPhone(p, d)'
         /\ taken'[d] = taken[d]
<1>1. d \in Nat /\ title.by \in Int /\ status.by \in Int /\ active \in Int
      /\ title'.by \in Int /\ status'.by \in Int /\ active' \in Int
  BY DEF IInv, Taken, Dated, Now
<1>2. Outdone(d) => Outdone(d)'
  BY <1>1 DEF Grows, Outdone
<1>3. Settled(d) => Settled(d)'
  BY <1>1, <1>2 DEF Grows, Settled
<1>4. Overtaken(d) => Overtaken(d)'
  BY DEF Grows, Overtaken
<1> QED
  BY <1>1, <1>3, <1>4 DEF Grows, OfPhone

LEMMA InitIInv == Init => IInv
<1> SUFFICES ASSUME Init PROVE IInv
  OBVIOUS
<1>1. taken = <<>> /\ Now = 0 /\ DOMAIN taken = {}
  BY DEF Init, Now
<1>2. Taken /\ Dated /\ NothingLost
  BY <1>1 DEF Init, Taken, Dated, NothingLost
<1>3. Maps
  BY DEF Init, Maps, IsMap, IsPass, Idle
<1>4. \A p \in Phone : NetInv(p) /\ KeptInv(p) /\ AnsInv(p) /\ ListInv(p)
  BY DEF Init, NetInv, Sent, KeptInv, AnsInv, ListInv, Idle
<1> QED
  BY <1>2, <1>3, <1>4 DEF IInv

\* A step of one phone that neither decides anything nor changes the bridge.
LEMMA PhoneStep ==
  ASSUME IInv, NEW p \in Phone, UNCHANGED <<taken, bridge>>, Maps',
         \A q \in Phone \ {p} : /\ rows'[q] = rows[q] /\ waits'[q] = waits[q]
                                /\ pass'[q] = pass[q] /\ net'[q] = net[q] /\ ans'[q] = ans[q],
         NetInv(p)', KeptInv(p)', AnsInv(p)', ListInv(p)',
         \A d \in DOMAIN taken : taken[d].kind # "turn" /\ taken[d].who = p =>
           \/ Settled(d) \/ Overtaken(d)
           \/ \E e \in rows'[p] : e.d = d
           \/ \E w \in waits'[p] : w.d = d
  PROVE  IInv'
<1> USE DEF bridge
<1>1. Taken' /\ Dated'
  BY DEF IInv, Taken, Dated, Now
<1>2. \A d : /\ Settled(d)' <=> Settled(d)
             /\ Overtaken(d)' <=> Overtaken(d)
             /\ \A q : OfPhone(q, d)' <=> OfPhone(q, d)
  BY DEF Settled, Outdone, Overtaken, OfPhone
<1>3. ASSUME NEW q \in Phone \ {p}
      PROVE  NetInv(q)' /\ KeptInv(q)' /\ AnsInv(q)' /\ ListInv(q)'
  <2>1. /\ rows'[q] = rows[q] /\ waits'[q] = waits[q]
        /\ pass'[q] = pass[q] /\ net'[q] = net[q] /\ ans'[q] = ans[q]
    BY <1>3
  <2>2. NetInv(q) /\ KeptInv(q) /\ AnsInv(q) /\ ListInv(q)
    BY DEF IInv
  <2>3. NetInv(q)'
    <3>1. Sent(q)' = Sent(q)
      BY <2>1 DEF Sent
    <3>2. ASSUME NEW m \in Sent(q)
          PROVE  OfPhone(q, m.d)' /\ (m.late => Late(q, m)') /\ (~m.late => Live(q, m)')
      <4>1. Now' = Now
        BY DEF Now
      <4>2. OfPhone(q, m.d) /\ (m.late => Late(q, m)) /\ (~m.late => Live(q, m))
        BY <2>2, <3>2 DEF NetInv
      <4>3. m.late => Late(q, m)'
        BY <1>2, <2>1, <4>1, <4>2 DEF Late, Owed
      <4>4. ~m.late => Live(q, m)'
        BY <2>1, <4>1, <4>2 DEF Live
      <4> QED
        BY <1>2, <4>2, <4>3, <4>4
    <3> QED
      BY <2>1, <2>2, <3>1, <3>2 DEF NetInv
  <2>4. KeptInv(q)' /\ AnsInv(q)' /\ ListInv(q)'
    BY <1>2, <2>1, <2>2 DEF KeptInv, AnsInv, ListInv, Owed, Supersedes
  <2> QED
    BY <2>3, <2>4
<1>4. NothingLost'
  <2> SUFFICES ASSUME NEW d \in DOMAIN taken, taken[d].kind # "turn"
               PROVE  \/ Settled(d) \/ Overtaken(d)
                      \/ \E e \in rows'[taken[d].who] : e.d = d
                      \/ \E w \in waits'[taken[d].who] : w.d = d
    BY <1>2 DEF NothingLost
  <2>1. taken[d].who \in Phone
    BY TakenTypes DEF IInv
  <2>2. CASE taken[d].who = p
    BY <2>2
  <2>3. CASE taken[d].who # p
    <3>1. rows'[taken[d].who] = rows[taken[d].who] /\ waits'[taken[d].who] = waits[taken[d].who]
      BY <2>1, <2>3
    <3> QED
      BY <3>1 DEF IInv, NothingLost
  <2> QED
    BY <2>2, <2>3
<1> QED
  BY <1>1, <1>3, <1>4 DEF IInv

LEMMA AnsweredIInv ==
  ASSUME IInv, NEW p \in Phone, NEW d, Answered(p, d)
  PROVE  IInv'
<1>1. NetInv(p) /\ KeptInv(p) /\ AnsInv(p) /\ ListInv(p) /\ Maps /\ NothingLost
  BY DEF IInv
<1>2. /\ ans'[p] = ans[p] \ {[d |-> d, late |-> FALSE]} /\ [d |-> d, late |-> FALSE] \in ans[p]
      /\ waits'[p] = {w \in waits[p] : w.d # d}
      /\ UNCHANGED <<taken, bridge, rows, pass, net>>
      /\ \A q \in Phone \ {p} : waits'[q] = waits[q] /\ ans'[q] = ans[q]
  BY <1>1 DEF Answered, Maps, IsMap
<1>3. Maps'
  BY <1>1, <1>2 DEF Answered, Maps, IsMap
<1>4. OfPhone(p, d) /\ Settled(d)
  BY <1>1, <1>2 DEF AnsInv
<1>5. NetInv(p)'
  <2>1. \A e : /\ Settled(e)' <=> Settled(e)
               /\ Overtaken(e)' <=> Overtaken(e)
               /\ OfPhone(p, e)' <=> OfPhone(p, e)
    BY <1>2 DEF Settled, Outdone, Overtaken, OfPhone, bridge
  <2>2. Sent(p)' = Sent(p)
    BY <1>2 DEF Sent
  <2>3. ASSUME NEW m \in Sent(p)
        PROVE  (m.late => Late(p, m)') /\ (~m.late => Live(p, m)')
    BY <1>1, <1>2, <2>1, <2>3 DEF NetInv, Live, Late, Owed, Now
  <2> QED
    BY <1>1, <1>2, <2>1, <2>2, <2>3 DEF NetInv
<1>6. KeptInv(p)'
  BY <1>1, <1>2 DEF KeptInv, OfPhone, Supersedes
<1>7. AnsInv(p)' /\ ListInv(p)'
  BY <1>1, <1>2 DEF AnsInv, ListInv, Owed, OfPhone, Settled, Outdone, Overtaken, bridge
<1>8. ASSUME NEW e \in DOMAIN taken, taken[e].kind # "turn" /\ taken[e].who = p
      PROVE  \/ Settled(e) \/ Overtaken(e)
             \/ \E f \in rows'[p] : f.d = e
             \/ \E w \in waits'[p] : w.d = e
  BY <1>1, <1>2, <1>4, <1>8 DEF NothingLost
<1> QED
  BY <1>2, <1>3, <1>5, <1>6, <1>7, <1>8, PhoneStep

LEMMA TimedOutIInv ==
  ASSUME IInv, NEW p \in Phone, TimedOut(p)
  PROVE  IInv'
<1>1. NetInv(p) /\ KeptInv(p) /\ AnsInv(p) /\ ListInv(p) /\ Maps /\ NothingLost /\ Taken
  BY DEF IInv
<1>2. PICK w \in waits[p] :
        /\ w.cut /\ \A v \in waits[p] : w.d <= v.d
        /\ ~Travels(p, w.d)
        /\ waits' = [waits EXCEPT ![p] = @ \ {w}]
        /\ ans' = [ans EXCEPT ![p] = @ \ {[d |-> w.d, late |-> FALSE]}]
        /\ rows' = [rows EXCEPT ![p] = Enqueue(@, w.d, taken[w.d].kind)]
  BY DEF TimedOut
<1> DEFINE r == Enqueue(rows[p], w.d, taken[w.d].kind)
<1>3. /\ waits'[p] = waits[p] \ {w}
      /\ ans'[p] = ans[p] \ {[d |-> w.d, late |-> FALSE]}
      /\ rows'[p] = r
      /\ UNCHANGED <<taken, bridge, pass, net>>
      /\ \A q \in Phone \ {p} :
           waits'[q] = waits[q] /\ ans'[q] = ans[q] /\ rows'[q] = rows[q]
  BY <1>1, <1>2 DEF TimedOut, Maps, IsMap
<1>4. /\ \A e \in r : e.d = w.d \/ (e \in rows[p] /\ taken[e.d].kind \notin Supersedes(taken[w.d].kind))
      /\ \E e \in r : e.d = w.d
      /\ \A e \in rows[p] : taken[e.d].kind \notin Supersedes(taken[w.d].kind) => e \in r
  BY Enqueued
<1> HIDE DEF r
<1>5. Maps'
  BY <1>1, <1>2, <1>3, <1>4 DEF Maps, IsMap
<1>6. OfPhone(p, w.d) /\ w.d \in Nat
  BY <1>1 DEF KeptInv, OfPhone, Taken
\* What goes is older than what takes its place.
<1>7. ASSUME NEW e \in rows[p], e \notin r
      PROVE  Overtaken(e.d)
  <2>1. taken[e.d].kind \in Supersedes(taken[w.d].kind) /\ e.d < w.d /\ OfPhone(p, e.d)
    BY <1>1, <1>4, <1>7 DEF KeptInv
  <2>2. w.d > e.d /\ w.d \in DOMAIN taken /\ taken[w.d].who = taken[e.d].who
    BY <1>6, <2>1 DEF OfPhone, Taken, IInv
  <2> QED
    <3>1. taken[w.d].kind \in Kind
      BY <1>1, <1>6, TakenTypes, OutboxAssumption DEF OfPhone, Taken
    <3>2. CASE taken[w.d].kind = "renameThread"
      BY <2>1, <2>2, <3>2 DEF Overtaken, Supersedes
    <3>3. CASE taken[w.d].kind = "deleteThread"
      BY <2>2, <3>3 DEF Overtaken
    <3>4. CASE taken[w.d].kind \in Filing
      BY <2>1, <2>2, <3>4 DEF Overtaken, Supersedes, Filing
    <3> QED
      BY <3>1, <3>2, <3>3, <3>4, OutboxAssumption DEF Filing
<1>8. NetInv(p)'
  <2>1. \A d : /\ Settled(d)' <=> Settled(d)
               /\ Overtaken(d)' <=> Overtaken(d)
               /\ OfPhone(p, d)' <=> OfPhone(p, d)
    BY <1>3 DEF Settled, Outdone, Overtaken, OfPhone, bridge
  <2>2. Sent(p)' = Sent(p)
    BY <1>3 DEF Sent
  <2>3. ASSUME NEW m \in Sent(p), m.late
        PROVE  Late(p, m)'
    BY <1>1, <1>3, <1>7, <2>1, <2>3 DEF NetInv, Late, Owed, Now
  <2>4. ASSUME NEW m \in Sent(p), ~m.late
        PROVE  Live(p, m)'
    <3>1. m.d # w.d
      BY <1>2, <2>4 DEF Sent, Travels
    <3> QED
      BY <1>1, <1>3, <2>4, <3>1 DEF NetInv, Live, Now
  <2> QED
    BY <1>1, <1>3, <2>1, <2>2, <2>3, <2>4 DEF NetInv
<1>9. KeptInv(p)'
  <2>1. \A e \in rows'[p], v \in waits'[p] :
          taken[e.d].kind \in Supersedes(taken[v.d].kind) => e.d < v.d
    <3> SUFFICES ASSUME NEW e \in r, NEW v \in waits[p] \ {w},
                        taken[e.d].kind \in Supersedes(taken[v.d].kind)
                 PROVE  e.d < v.d
      BY <1>3
    <3>1. CASE e.d = w.d
      <4>1. v.d # w.d /\ w.d <= v.d /\ v.d \in Nat
        BY <1>1, <1>2 DEF KeptInv, OfPhone, Taken
      <4> QED
        BY <1>6, <3>1, <4>1
    <3>2. CASE e.d # w.d
      BY <1>1, <1>4, <3>2 DEF KeptInv
    <3> QED
      BY <3>1, <3>2
  <2>2. \A e \in rows'[p] : OfPhone(p, e.d)
    BY <1>1, <1>3, <1>4, <1>6 DEF KeptInv
  <2> QED
    BY <1>1, <1>3, <2>1, <2>2 DEF KeptInv, OfPhone, Supersedes
<1>10. AnsInv(p)' /\ ListInv(p)'
  BY <1>1, <1>3, <1>7 DEF AnsInv, ListInv, Owed, OfPhone, Settled, Outdone, Overtaken, bridge
<1>11. ASSUME NEW e \in DOMAIN taken, taken[e].kind # "turn" /\ taken[e].who = p
       PROVE  \/ Settled(e) \/ Overtaken(e)
              \/ \E f \in rows'[p] : f.d = e
              \/ \E v \in waits'[p] : v.d = e
  BY <1>1, <1>3, <1>4, <1>7, <1>11 DEF NothingLost
<1> QED
  BY <1>3, <1>5, <1>8, <1>9, <1>10, <1>11, PhoneStep

\* What a flush sends, and what it leaves of the other phones.
LEMMA FlushSends ==
  ASSUME NEW p \in Phone, NEW r, NEW again, Maps, Taken, NetInv(p), Flush(p, r, again),
         \A e \in r : OfPhone(p, e.d)
  PROVE  /\ IsMap(net', Phone) /\ IsMap(pass', Phone)
         /\ \A q \in Phone \ {p} : net'[q] = net[q] /\ pass'[q] = pass[q]
         /\ net'[p] \in Seq([d : Nat, late : BOOLEAN, age : Nat])
         /\ \A m \in Sent(p)' :
              m \in Sent(p) \/ (m.late /\ m.age = Now - m.d /\ \E e \in r : m.d = e.d)
         /\ \A i, j \in DOMAIN net'[p] : ~net'[p][i].late /\ ~net'[p][j].late => i = j
         /\ pass'[p].list \subseteq r /\ IsPass(pass'[p])
<1> DEFINE M == [d : Nat, late : BOOLEAN, age : Nat]
<1>1. net[p] \in Seq(M) /\ \A i, j \in DOMAIN net[p] : ~net[p][i].late /\ ~net[p][j].late => i = j
  BY DEF NetInv
<1>2. CASE r = {} /\ pass' = [pass EXCEPT ![p] = Idle] /\ UNCHANGED net
  BY <1>1, <1>2 DEF Maps, IsMap, IsPass, Idle, Sent
<1>3. CASE \E e \in Oldest(r) :
             /\ Send(p, Request(e.d, TRUE))
             /\ pass' = [pass EXCEPT ![p] = [list |-> r, again |-> again, cut |-> FALSE]]
  <2>1. PICK e \in r :
          /\ Send(p, Request(e.d, TRUE))
          /\ pass' = [pass EXCEPT ![p] = [list |-> r, again |-> again, cut |-> FALSE]]
    BY <1>3 DEF Oldest
  <2> DEFINE m == Request(e.d, TRUE)
  <2>2. e.d \in DOMAIN taken /\ e.d \in Nat /\ e.d <= Now /\ Now \in Nat
    BY TakenTypes DEF OfPhone
  <2>3. m \in M /\ m.late /\ m.age = Now - m.d /\ m.d = e.d
    BY <2>2 DEF Request
  <2>4. /\ net'[p] = Append(net[p], m) /\ \A q \in Phone \ {p} : net'[q] = net[q]
        /\ IsMap(net', Phone) /\ IsMap(pass', Phone)
        /\ \A q \in Phone \ {p} : pass'[q] = pass[q]
        /\ pass'[p].list = r /\ IsPass(pass'[p])
    BY <2>1 DEF Send, Maps, IsMap, IsPass
  <2> HIDE DEF m, M
  <2>5. /\ net'[p] \in Seq(M) /\ DOMAIN net'[p] = DOMAIN net[p] \cup {Len(net[p]) + 1}
        /\ net'[p][Len(net[p]) + 1] = m
        /\ \A i \in DOMAIN net[p] : net'[p][i] = net[p][i]
    BY <1>1, <2>3, <2>4
  <2>6. \A x \in Sent(p)' : x \in Sent(p) \/ x = m
    BY <2>5 DEF Sent
  <2>7. \A i, j \in DOMAIN net'[p] : ~net'[p][i].late /\ ~net'[p][j].late => i = j
    BY <1>1, <2>3, <2>5
  <2> QED
    BY <2>3, <2>4, <2>5, <2>6, <2>7 DEF M
<1> QED
  BY <1>2, <1>3 DEF Flush

\* A step that sends, at most, what is in r, and changes nothing of what is kept
\* but what the bridge has heard.
LEMMA FlushStep ==
  ASSUME IInv, NEW p \in Phone, NEW r, NEW again, Flush(p, r, again),
         UNCHANGED <<taken, bridge, waits>>,
         \A e \in r : OfPhone(p, e.d) /\ Owed(p, e.d),
         IsMap(rows', Phone), IsMap(ans', Phone),
         \A q \in Phone \ {p} : rows'[q] = rows[q] /\ ans'[q] = ans[q],
         rows'[p] \subseteq rows[p], ans'[p] \subseteq ans[p],
         \A e \in rows[p] : e \in rows'[p] \/ Settled(e.d)
  PROVE  IInv'
<1>1. Maps /\ Taken /\ NothingLost /\ NetInv(p) /\ KeptInv(p) /\ AnsInv(p)
  BY DEF IInv
<1>2. /\ IsMap(net', Phone) /\ IsMap(pass', Phone)
      /\ \A q \in Phone \ {p} : net'[q] = net[q] /\ pass'[q] = pass[q]
      /\ net'[p] \in Seq([d : Nat, late : BOOLEAN, age : Nat])
      /\ \A m \in Sent(p)' :
           m \in Sent(p) \/ (m.late /\ m.age = Now - m.d /\ \E e \in r : m.d = e.d)
      /\ \A i, j \in DOMAIN net'[p] : ~net'[p][i].late /\ ~net'[p][j].late => i = j
      /\ pass'[p].list \subseteq r /\ IsPass(pass'[p])
  BY <1>1, FlushSends
<1>3. \A d : /\ Settled(d)' <=> Settled(d)
             /\ Overtaken(d)' <=> Overtaken(d)
             /\ OfPhone(p, d)' <=> OfPhone(p, d)
  BY DEF Settled, Outdone, Overtaken, OfPhone, bridge
<1>4. \A d : Owed(p, d) => Owed(p, d)'
  BY <1>3 DEF Owed
<1>5. Maps'
  BY <1>1, <1>2 DEF Maps, IsMap
<1>6. NetInv(p)'
  <2>1. Now' = Now
    BY DEF Now
  <2>2. ASSUME NEW m \in Sent(p)'
        PROVE  OfPhone(p, m.d)' /\ (m.late => Late(p, m)') /\ (~m.late => Live(p, m)')
    <3>1. CASE m \in Sent(p)
      BY <1>1, <1>3, <1>4, <2>1, <3>1 DEF NetInv, Late, Live
    <3>2. CASE m.late /\ m.age = Now - m.d /\ \E e \in r : m.d = e.d
      BY <1>3, <1>4, <2>1, <3>2 DEF Late
    <3> QED
      BY <1>2, <3>1, <3>2
  <2> QED
    BY <1>2, <2>2 DEF NetInv
<1>7. KeptInv(p)'
  BY <1>1, <1>3 DEF KeptInv, Supersedes
<1>8. AnsInv(p)' /\ ListInv(p)'
  BY <1>1, <1>2, <1>3, <1>4 DEF AnsInv, ListInv
<1>9. ASSUME NEW e \in DOMAIN taken, taken[e].kind # "turn" /\ taken[e].who = p
      PROVE  \/ Settled(e) \/ Overtaken(e)
             \/ \E f \in rows'[p] : f.d = e
             \/ \E w \in waits'[p] : w.d = e
  BY <1>1, <1>9 DEF NothingLost
<1> QED
  BY <1>2, <1>5, <1>6, <1>7, <1>8, <1>9, PhoneStep

\* A step that at most loses what is on its way to or from one phone, or what its
\* flush had read.
LEMMA LosingStep ==
  ASSUME IInv, NEW p \in Phone, UNCHANGED <<taken, bridge, rows>>,
         IsMap(waits', Phone), IsMap(pass', Phone), IsMap(net', Phone), IsMap(ans', Phone),
         \A q \in Phone \ {p} : /\ waits'[q] = waits[q] /\ pass'[q] = pass[q]
                                /\ net'[q] = net[q] /\ ans'[q] = ans[q],
         waits'[p] \subseteq [d : Nat, cut : BOOLEAN], IsPass(pass'[p]),
         \A w \in waits'[p] : \E v \in waits[p] : v.d = w.d,
         \A w \in waits[p] : \E v \in waits'[p] : v.d = w.d,
         \A v, w \in waits'[p] : v.d = w.d => v = w,
         pass'[p].list \subseteq pass[p].list, ans'[p] \subseteq ans[p],
         NEW n \in 0..Len(net[p]), net'[p] = SubSeq(net[p], 1, n)
  PROVE  IInv'
<1>1. Maps /\ Taken /\ NothingLost /\ NetInv(p) /\ KeptInv(p) /\ AnsInv(p) /\ ListInv(p)
  BY DEF IInv
<1>2. \A d : /\ Settled(d)' <=> Settled(d)
             /\ Overtaken(d)' <=> Overtaken(d)
             /\ OfPhone(p, d)' <=> OfPhone(p, d)
             /\ Owed(p, d)' <=> Owed(p, d)
  BY DEF Settled, Outdone, Overtaken, OfPhone, Owed, bridge
<1>3. Maps'
  BY <1>1 DEF Maps, IsMap
<1> DEFINE M == [d : Nat, late : BOOLEAN, age : Nat]
<1>4. net[p] \in Seq(M)
  BY <1>1 DEF NetInv
<1>5. NetInv(p)'
  <2> HIDE DEF M
  <2>1. /\ net'[p] \in Seq(M) /\ DOMAIN net'[p] \subseteq DOMAIN net[p]
        /\ \A i \in DOMAIN net'[p] : net'[p][i] = net[p][i]
    BY <1>4
  <2>2. Sent(p)' \subseteq Sent(p)
    BY <2>1 DEF Sent
  <2>3. Now' = Now
    BY DEF Now
  <2>4. ASSUME NEW m \in Sent(p)'
        PROVE  OfPhone(p, m.d)' /\ (m.late => Late(p, m)') /\ (~m.late => Live(p, m)')
    <3>1. OfPhone(p, m.d) /\ (m.late => Late(p, m)) /\ (~m.late => Live(p, m))
      BY <1>1, <2>2, <2>4 DEF NetInv
    <3> QED
      BY <1>2, <2>3, <3>1 DEF Late, Live
  <2>5. \A i, j \in DOMAIN net'[p] : ~net'[p][i].late /\ ~net'[p][j].late => i = j
    BY <1>1, <2>1 DEF NetInv
  <2> QED
    BY <2>1, <2>4, <2>5 DEF NetInv, M
<1>6. KeptInv(p)'
  BY <1>1, <1>2 DEF KeptInv, Supersedes
<1>7. AnsInv(p)' /\ ListInv(p)'
  BY <1>1, <1>2 DEF AnsInv, ListInv
<1>8. ASSUME NEW e \in DOMAIN taken, taken[e].kind # "turn" /\ taken[e].who = p
      PROVE  \/ Settled(e) \/ Overtaken(e)
             \/ \E f \in rows'[p] : f.d = e
             \/ \E w \in waits'[p] : w.d = e
  BY <1>1, <1>8 DEF NothingLost
<1> QED
  BY <1>3, <1>5, <1>6, <1>7, <1>8, PhoneStep

\* All of what is on its way stays.
LEMMA WholeSeq ==
  ASSUME NEW M, NEW s \in Seq(M)
  PROVE  Len(s) \in 0..Len(s) /\ SubSeq(s, 1, Len(s)) = s /\ 0 \in 0..Len(s) /\ SubSeq(s, 1, 0) = <<>>
OBVIOUS

\* One request alone on its way.
LEMMA AloneSeq ==
  ASSUME NEW M, NEW m \in M
  PROVE  /\ Append(<<>>, m) \in Seq(M)
         /\ DOMAIN Append(<<>>, m) = {1} /\ Append(<<>>, m)[1] = m
<1>1. <<>> \in Seq(M) /\ Len(<<>>) = 0 /\ DOMAIN <<>> = {}
  OBVIOUS
<1>2. \A s \in Seq(M) : /\ Append(s, m) \in Seq(M)
                        /\ DOMAIN Append(s, m) = 1..(Len(s) + 1)
                        /\ Append(s, m)[Len(s) + 1] = m
  OBVIOUS
<1>3. 1..(0 + 1) = {1}
  OBVIOUS
<1> QED
  BY <1>1, <1>2, <1>3

LEMMA SyncIInv ==
  ASSUME IInv, NEW p \in Phone, Sync(p), UNCHANGED <<taken, bridge, rows, waits, ans>>
  PROVE  IInv'
<1>1. Maps /\ NetInv(p) /\ KeptInv(p)
  BY DEF IInv
<1>2. CASE Flush(p, rows[p], FALSE)
  BY <1>1, <1>2, FlushStep DEF Maps, IsMap, KeptInv, Owed
<1>3. CASE pass' = [pass EXCEPT ![p].again = TRUE] /\ UNCHANGED net
  <2>1. net[p] = SubSeq(net[p], 1, Len(net[p])) /\ Len(net[p]) \in 0..Len(net[p])
    BY <1>1, WholeSeq DEF NetInv
  <2>2. /\ pass'[p].list = pass[p].list /\ IsMap(pass', Phone) /\ IsPass(pass'[p])
        /\ \A q \in Phone \ {p} : pass'[q] = pass[q]
    <3>1. pass[p] = [list |-> pass[p].list, again |-> pass[p].again, cut |-> pass[p].cut]
      BY <1>1 DEF Maps, IsPass
    <3> QED
      BY <1>1, <1>3, <3>1 DEF Maps, IsMap, IsPass
  <2> QED
    BY <1>1, <1>3, <2>1, <2>2, LosingStep DEF Maps, IsMap, KeptInv
<1> QED
  BY <1>2, <1>3 DEF Sync

LEMMA HeardIInv ==
  ASSUME IInv, NEW p \in Phone, Heard(p)
  PROVE  IInv'
<1>1. Maps /\ NetInv(p) /\ KeptInv(p) /\ AnsInv(p) /\ ListInv(p)
  BY DEF IInv
<1>2. PICK e \in pass[p].list :
        /\ [d |-> e.d, late |-> TRUE] \in ans[p]
        /\ ans' = [ans EXCEPT ![p] = @ \ {[d |-> e.d, late |-> TRUE]}]
        /\ rows' = [rows EXCEPT ![p] = {f \in @ : f.d # e.d}]
        /\ \/ Flush(p, rows'[p], FALSE)
           \/ Flush(p, pass[p].list \ {e}, pass[p].again)
  BY DEF Heard, Oldest
<1>3. /\ Settled(e.d) /\ UNCHANGED <<taken, bridge, waits>>
      /\ IsMap(rows', Phone) /\ IsMap(ans', Phone)
      /\ \A q \in Phone \ {p} : rows'[q] = rows[q] /\ ans'[q] = ans[q]
      /\ rows'[p] = {f \in rows[p] : f.d # e.d} /\ ans'[p] \subseteq ans[p]
  BY <1>1, <1>2 DEF Heard, Maps, IsMap, AnsInv
<1>4. CASE Flush(p, rows'[p], FALSE)
  BY <1>1, <1>3, <1>4, FlushStep DEF KeptInv, Owed
<1>5. CASE Flush(p, pass[p].list \ {e}, pass[p].again)
  BY <1>1, <1>3, <1>5, FlushStep DEF ListInv
<1> QED
  BY <1>2, <1>4, <1>5

LEMMA FlushFailsIInv ==
  ASSUME IInv, NEW p \in Phone, FlushFails(p)
  PROVE  IInv'
<1>1. Maps /\ NetInv(p) /\ KeptInv(p)
  BY DEF IInv
<1>2. net[p] = SubSeq(net[p], 1, Len(net[p])) /\ Len(net[p]) \in 0..Len(net[p])
  BY <1>1, WholeSeq DEF NetInv
<1>3. /\ pass' = [pass EXCEPT ![p] = Idle] /\ UNCHANGED <<taken, bridge, rows, waits, net>>
      /\ \E x : ans' = [ans EXCEPT ![p] = @ \ x]
  BY DEF FlushFails
<1>4. /\ pass'[p].list = {} /\ IsPass(pass'[p]) /\ IsMap(pass', Phone) /\ IsMap(ans', Phone)
      /\ ans'[p] \subseteq ans[p]
      /\ \A q \in Phone \ {p} : pass'[q] = pass[q] /\ ans'[q] = ans[q]
  BY <1>1, <1>3 DEF Maps, IsMap, IsPass, Idle
<1> QED
  BY <1>1, <1>2, <1>3, <1>4, LosingStep DEF Maps, IsMap, KeptInv

LEMMA DropIInv ==
  ASSUME IInv, NEW p \in Phone, Drop(p)
  PROVE  IInv'
<1>1. Maps /\ NetInv(p) /\ KeptInv(p)
  BY DEF IInv
<1>2. PICK n \in 0..Len(net[p]) : net' = [net EXCEPT ![p] = SubSeq(@, 1, n)]
  BY DEF Drop
<1>3. /\ \E kept \in {ans[p], {}} : ans' = [ans EXCEPT ![p] = kept]
      /\ waits' = [waits EXCEPT ![p] = {[d |-> w.d, cut |-> TRUE] : w \in @}]
      /\ pass' = [pass EXCEPT ![p].cut = pass[p] # Idle]
      /\ UNCHANGED <<taken, bridge, rows>>
  BY DEF Drop
<1>4. /\ IsMap(waits', Phone) /\ IsMap(pass', Phone) /\ IsMap(net', Phone) /\ IsMap(ans', Phone)
      /\ \A q \in Phone \ {p} : /\ waits'[q] = waits[q] /\ pass'[q] = pass[q]
                                /\ net'[q] = net[q] /\ ans'[q] = ans[q]
      /\ waits'[p] = {[d |-> w.d, cut |-> TRUE] : w \in waits[p]}
      /\ ans'[p] \subseteq ans[p] /\ net'[p] = SubSeq(net[p], 1, n)
  BY <1>1, <1>2, <1>3 DEF Maps, IsMap
<1>5. pass'[p].list = pass[p].list /\ IsPass(pass'[p])
  <2>1. pass[p] = [list |-> pass[p].list, again |-> pass[p].again, cut |-> pass[p].cut]
    BY <1>1 DEF Maps, IsPass
  <2> QED
    BY <1>1, <1>3, <2>1 DEF Maps, IsMap, IsPass
<1>6. \A w \in waits[p] : w.d \in Nat
  BY <1>1 DEF Maps
<1>7. ASSUME NEW v \in waits'[p]
      PROVE  v \in [d : Nat, cut : BOOLEAN] /\ v = [d |-> v.d, cut |-> TRUE]
             /\ \E w \in waits[p] : w.d = v.d
  <2>1. PICK w \in waits[p] : v = [d |-> w.d, cut |-> TRUE]
    BY <1>4, <1>7
  <2> QED
    BY <1>6, <2>1
<1>8. ASSUME NEW w \in waits[p]
      PROVE  \E v \in waits'[p] : v.d = w.d
  <2>1. [d |-> w.d, cut |-> TRUE] \in waits'[p]
    BY <1>4, <1>8
  <2> QED
    BY <2>1
<1>9. \A v, w \in waits'[p] : v.d = w.d => v = w
  <2> SUFFICES ASSUME NEW v \in waits'[p], NEW w \in waits'[p], v.d = w.d PROVE v = w
    OBVIOUS
  <2>1. v = [d |-> v.d, cut |-> TRUE] /\ w = [d |-> w.d, cut |-> TRUE]
    BY <1>7
  <2> QED
    BY <2>1
<1>10. waits'[p] \subseteq [d : Nat, cut : BOOLEAN] /\ \A w \in waits'[p] : \E v \in waits[p] : v.d = w.d
  BY <1>7
<1> QED
  BY <1>3, <1>4, <1>5, <1>8, <1>9, <1>10, LosingStep

LEMMA KillIInv ==
  ASSUME IInv, Safe, NEW p \in Phone, Kill(p)
  PROVE  IInv'
<1>1. Maps /\ NetInv(p) /\ KeptInv(p)
  BY DEF IInv
<1>2. SubSeq(net[p], 1, 0) = <<>> /\ 0 \in 0..Len(net[p])
  BY <1>1, WholeSeq DEF NetInv
<1>3. /\ waits[p] = {} /\ net' = [net EXCEPT ![p] = <<>>] /\ ans' = [ans EXCEPT ![p] = {}]
      /\ waits' = [waits EXCEPT ![p] = {}] /\ pass' = [pass EXCEPT ![p] = Idle]
      /\ UNCHANGED <<taken, bridge, rows>>
  BY DEF Kill, Safe
<1>4. /\ IsMap(waits', Phone) /\ IsMap(pass', Phone) /\ IsMap(net', Phone) /\ IsMap(ans', Phone)
      /\ \A q \in Phone \ {p} : /\ waits'[q] = waits[q] /\ pass'[q] = pass[q]
                                /\ net'[q] = net[q] /\ ans'[q] = ans[q]
      /\ waits'[p] = {} /\ pass'[p].list = {} /\ IsPass(pass'[p]) /\ ans'[p] = {} /\ net'[p] = <<>>
  BY <1>1, <1>3 DEF Maps, IsMap, IsPass, Idle
<1> QED
  BY <1>2, <1>3, <1>4, LosingStep

\* A phone nothing happens to, while something is decided or handled elsewhere.
LEMMA StayingPhone ==
  ASSUME IInv, Dated', Grows, NEW q \in Phone,
         rows'[q] = rows[q], waits'[q] = waits[q], pass'[q] = pass[q],
         net'[q] = net[q], ans'[q] = ans[q], net[q] = <<>> \/ Now' = Now
  PROVE  NetInv(q)' /\ KeptInv(q)' /\ AnsInv(q)' /\ ListInv(q)'
<1>1. NetInv(q) /\ KeptInv(q) /\ AnsInv(q) /\ ListInv(q)
  BY DEF IInv
<1>2. \A d : OfPhone(q, d) =>
        /\ OfPhone(q, d)' /\ taken'[d] = taken[d]
        /\ Settled(d) => Settled(d)'
        /\ Owed(q, d) => Owed(q, d)'
  BY Lasting DEF OfPhone, Owed
<1>3. NetInv(q)'
  <2>1. Sent(q)' = Sent(q) /\ (Sent(q) = {} \/ Now' = Now)
    BY DEF Sent
  <2>2. ASSUME NEW m \in Sent(q)
        PROVE  OfPhone(q, m.d)' /\ (m.late => Late(q, m)') /\ (~m.late => Live(q, m)')
    <3>1. OfPhone(q, m.d) /\ (m.late => Late(q, m)) /\ (~m.late => Live(q, m))
      BY <1>1, <2>2 DEF NetInv
    <3>2. m.late => Late(q, m)'
      BY <1>2, <2>1, <2>2, <3>1 DEF Late
    <3>3. ~m.late => Live(q, m)'
      BY <2>1, <2>2, <3>1 DEF Live
    <3> QED
      BY <1>2, <3>1, <3>2, <3>3
  <2> QED
    BY <1>1, <2>1, <2>2 DEF NetInv
<1>4. KeptInv(q)'
  BY <1>1, <1>2 DEF KeptInv, Supersedes
<1>5. AnsInv(q)' /\ ListInv(q)'
  BY <1>1, <1>2 DEF AnsInv, ListInv
<1> QED
  BY <1>3, <1>4, <1>5

\* What one more decision changes, with nothing on its way.
LEMMA DecidedStep ==
  ASSUME IInv, Safe, NEW who \in Phone \cup {Desk}, NEW k \in Kind \cup {"turn"}, NEW named \in Nat,
         who = Desk <=> k = "turn", k = "renameThread" => named = Now + 1,
         Decided(who, k, named)
  PROVE  /\ Taken' /\ Now \in Nat /\ Now' = Now + 1
         /\ DOMAIN taken' = DOMAIN taken \cup {Now + 1} /\ Now + 1 \notin DOMAIN taken
         /\ \A d \in DOMAIN taken : taken'[d] = taken[d]
         /\ taken'[Now + 1].who = who /\ taken'[Now + 1].kind = k
         /\ \A q \in Phone : net[q] = <<>>
<1> DEFINE R == [who : Phone \cup {Desk}, kind : Kind \cup {"turn"}, named : Nat]
           x == [who |-> who, kind |-> k, named |-> named]
<1>1. taken' = Append(taken, x) /\ x \in R /\ x.who = who /\ x.kind = k /\ x.named = named
  BY DEF Decided
<1>2. Taken /\ taken \in Seq(R)
  BY DEF IInv, Taken
<1>3. \A q \in Phone : net[q] = <<>>
  BY DEF Decided, Safe
<1> HIDE DEF x, R
<1>4. /\ taken' \in Seq(R) /\ Now \in Nat /\ Now' = Now + 1
      /\ DOMAIN taken' = DOMAIN taken \cup {Now + 1} /\ Now + 1 \notin DOMAIN taken
      /\ \A d \in DOMAIN taken : taken'[d] = taken[d]
      /\ taken'[Now + 1] = x
  BY <1>1, <1>2 DEF Now
<1>5. \A d \in DOMAIN taken' :
        /\ taken'[d].who = Desk <=> taken'[d].kind = "turn"
        /\ taken'[d].kind = "renameThread" => taken'[d].named = d
  <2> SUFFICES ASSUME NEW d \in DOMAIN taken'
               PROVE  /\ taken'[d].who = Desk <=> taken'[d].kind = "turn"
                      /\ taken'[d].kind = "renameThread" => taken'[d].named = d
    OBVIOUS
  <2>1. CASE d \in DOMAIN taken
    BY <1>2, <1>4, <2>1 DEF Taken
  <2>2. CASE d = Now + 1
    BY <1>1, <1>4, <2>2
  <2> QED
    BY <1>4, <2>1, <2>2
<1>6. Taken'
  BY <1>4, <1>5 DEF Taken, R
<1> QED
  BY <1>1, <1>3, <1>4, <1>6

LEMMA StartTurnIInv ==
  ASSUME IInv, Safe, StartTurn
  PROVE  IInv'
<1>1. Taken /\ Dated /\ Maps /\ NothingLost
  BY DEF IInv
<1>2. /\ Taken' /\ Now \in Nat /\ Now' = Now + 1
      /\ DOMAIN taken' = DOMAIN taken \cup {Now + 1} /\ Now + 1 \notin DOMAIN taken
      /\ \A d \in DOMAIN taken : taken'[d] = taken[d]
      /\ taken'[Now + 1].who = Desk /\ taken'[Now + 1].kind = "turn"
      /\ \A q \in Phone : net[q] = <<>>
  BY DecidedStep DEF StartTurn
<1>3. active' = Now + 1 /\ UNCHANGED <<title, status, there, rows, waits, pass, net, ans>>
  BY DEF StartTurn, phone
<1>4. Dated' /\ Grows
  BY <1>1, <1>2, <1>3 DEF Dated, Grows, Now
<1>5. \A q \in Phone : NetInv(q)' /\ KeptInv(q)' /\ AnsInv(q)' /\ ListInv(q)'
  BY <1>2, <1>3, <1>4, StayingPhone
<1>6. NothingLost'
  <2> SUFFICES ASSUME NEW d \in DOMAIN taken', taken'[d].kind # "turn"
               PROVE  \/ Settled(d)' \/ Overtaken(d)'
                      \/ \E e \in rows'[taken'[d].who] : e.d = d
                      \/ \E w \in waits'[taken'[d].who] : w.d = d
    BY DEF NothingLost
  <2>1. d \in DOMAIN taken /\ taken'[d] = taken[d]
    BY <1>2
  <2> QED
    BY <1>1, <1>3, <1>4, <2>1, Lasting DEF NothingLost
<1>7. Maps'
  BY <1>1, <1>3 DEF Maps, IsMap, IsPass
<1> QED
  BY <1>2, <1>4, <1>5, <1>6, <1>7 DEF IInv

LEMMA ActIInv ==
  ASSUME IInv, Safe, NEW p \in Phone, NEW k \in Kind, Act(p, k)
  PROVE  IInv'
<1>0. PICK n : n = Now + 1
  OBVIOUS
<1>1. Taken /\ Dated /\ Maps /\ NothingLost /\ NetInv(p) /\ KeptInv(p) /\ AnsInv(p) /\ ListInv(p)
  BY DEF IInv
<1>2. /\ Taken' /\ Now \in Nat /\ Now' = n
      /\ DOMAIN taken' = DOMAIN taken \cup {n} /\ n \notin DOMAIN taken
      /\ \A d \in DOMAIN taken : taken'[d] = taken[d]
      /\ taken'[n].who = p /\ taken'[n].kind = k
      /\ \A q \in Phone : net[q] = <<>>
  <2>1. PICK named \in Names(k) : Decided(p, k, named)
    BY DEF Act
  <2>2. Now \in Nat
    BY <1>1 DEF Taken, Now
  <2>3. named \in Nat /\ (k = "renameThread" => named = Now + 1)
    BY <2>2 DEF Names, Safe
  <2>4. p # Desk /\ k # "turn"
    BY OutboxAssumption
  <2> QED
    BY <1>0, <2>1, <2>3, <2>4, DecidedStep
<1>3. UNCHANGED <<title, status, active, there, pass, ans>>
  BY DEF Act, bridge
<1>4. Dated' /\ Grows
  BY <1>1, <1>2, <1>3 DEF Dated, Grows, Now
<1>5. /\ IsMap(rows', Phone) /\ IsMap(waits', Phone) /\ IsMap(net', Phone)
      /\ \A q \in Phone \ {p} : rows'[q] = rows[q] /\ waits'[q] = waits[q] /\ net'[q] = net[q]
      /\ \/ /\ net'[p] = Append(<<>>, Request(n, FALSE))
            /\ waits'[p] = waits[p] \cup {[d |-> n, cut |-> FALSE]}
            /\ rows'[p] = rows[p]
         \/ /\ \A w \in waits[p] : k \notin Supersedes(taken[w.d].kind)
            /\ rows'[p] = Enqueue(rows[p], n, k)
            /\ waits'[p] = waits[p] /\ net'[p] = <<>>
  <2>1. \/ /\ Send(p, Request(n, FALSE))
           /\ waits' = [waits EXCEPT ![p] = @ \cup {[d |-> n, cut |-> FALSE]}]
           /\ rows' = rows
        \/ /\ \A w \in waits[p] : k \notin Supersedes(taken[w.d].kind)
           /\ rows' = [rows EXCEPT ![p] = Enqueue(@, n, k)]
           /\ waits' = waits /\ net' = net
    BY <1>0 DEF Act, Safe
  <2>2. net[p] = <<>>
    BY <1>2
  <2> QED
    BY <1>1, <2>1, <2>2 DEF Maps, IsMap, Send
<1>6. /\ \A d \in DOMAIN taken : d \in Nat /\ d < n
      /\ \A e \in rows[p] : e.d \in DOMAIN taken
      /\ \A w \in waits[p] : w.d \in DOMAIN taken
  BY <1>0, <1>1, <1>2, TakenTypes DEF KeptInv, OfPhone
<1>7. \A d \in DOMAIN taken :
        /\ Settled(d) => Settled(d)'
        /\ Overtaken(d) => Overtaken(d)'
        /\ \A q : OfPhone(q, d) => OfPhone(q, d)'
  BY <1>4, Lasting
\* What the decision replaces in the outbox is older, and moot.
<1>8. /\ \A e \in rows[p] : e \in rows'[p] \/ Overtaken(e.d)'
      /\ \A e \in rows'[p] : e.d = n \/ e \in rows[p]
  <2>1. CASE rows'[p] = rows[p]
    BY <2>1
  <2>2. CASE rows'[p] = Enqueue(rows[p], n, k)
    <3>1. /\ \A e \in rows'[p] : e.d = n \/ e \in rows[p]
          /\ \A e \in rows[p] : taken[e.d].kind \notin Supersedes(k) => e \in rows'[p]
      BY <2>2, Enqueued
    <3>2. ASSUME NEW e \in rows[p], taken[e.d].kind \in Supersedes(k)
          PROVE  Overtaken(e.d)'
      <4>1. /\ e.d \in DOMAIN taken /\ n > e.d /\ n \in DOMAIN taken'
            /\ taken'[e.d].kind = taken[e.d].kind /\ taken'[e.d].who = p
        BY <1>1, <1>2, <1>6 DEF KeptInv, OfPhone
      <4>2. CASE k = "renameThread"
        BY <1>2, <3>2, <4>1, <4>2 DEF Overtaken, Supersedes
      <4>3. CASE k = "deleteThread"
        BY <1>2, <4>1, <4>3 DEF Overtaken
      <4>4. CASE k \in Filing
        BY <1>2, <3>2, <4>1, <4>4 DEF Overtaken, Supersedes, Filing
      <4> QED
        BY <4>2, <4>3, <4>4, OutboxAssumption DEF Filing
    <3> QED
      BY <3>1, <3>2
  <2> QED
    BY <1>5, <2>1, <2>2
<1>9. \A d \in DOMAIN taken : Owed(p, d) => Owed(p, d)'
  BY <1>7, <1>8 DEF Owed
<1>10. NetInv(p)'
  <2>1. CASE net'[p] = <<>>
    BY <2>1 DEF NetInv, Sent
  <2>2. CASE /\ net'[p] = Append(<<>>, Request(n, FALSE))
             /\ waits'[p] = waits[p] \cup {[d |-> n, cut |-> FALSE]}
    <3>0. PICK m : m = Request(n, FALSE)
      OBVIOUS
    <3>1. m \in [d : Nat, late : BOOLEAN, age : Nat] /\ ~m.late /\ m.d = n
      BY <1>0, <1>2, <3>0 DEF Request
    <3>2. /\ DOMAIN net'[p] = {1} /\ net'[p][1] = m
          /\ net'[p] \in Seq([d : Nat, late : BOOLEAN, age : Nat])
      <4>1. net'[p] = Append(<<>>, m)
        BY <2>2, <3>0
      <4> QED
        BY <3>1, <4>1, AloneSeq
    <3>3. Sent(p)' = {m}
      BY <3>2 DEF Sent
    <3>4. [d |-> n, late |-> FALSE] \notin ans'[p]
      BY <1>1, <1>2, <1>3 DEF AnsInv, OfPhone
    <3>5. Live(p, m)'
      <4>1. [d |-> n, cut |-> FALSE] \in waits'[p] /\ [d |-> n, cut |-> FALSE].d = n
        BY <2>2
      <4> QED
        BY <1>2, <3>1, <3>4, <4>1 DEF Live
    <3>6. OfPhone(p, m.d)'
      BY <1>2, <3>1 DEF OfPhone
    <3> QED
      BY <3>1, <3>2, <3>3, <3>5, <3>6 DEF NetInv
  <2> QED
    BY <1>5, <2>1, <2>2
<1>11. KeptInv(p)'
  <2>1. OfPhone(p, n)'
    BY <1>2 DEF OfPhone
  <2>2. \A e \in rows'[p] : OfPhone(p, e.d)'
    BY <1>1, <1>7, <1>8, <2>1 DEF KeptInv, OfPhone
  <2>3. \A w \in waits[p] : OfPhone(p, w.d)' /\ taken'[w.d] = taken[w.d] /\ w.d < n
    BY <1>1, <1>2, <1>6, <1>7 DEF KeptInv
  <2>4. \A e \in rows[p] : taken'[e.d] = taken[e.d] /\ e.d < n
    BY <1>2, <1>6
  <2>5. CASE /\ waits'[p] = waits[p] \cup {[d |-> n, cut |-> FALSE]}
             /\ rows'[p] = rows[p]
    <3>1. PICK new : waits'[p] = waits[p] \cup {new} /\ new.d = n
      <4>1. [d |-> n, cut |-> FALSE].d = n
        OBVIOUS
      <4> QED
        BY <2>5, <4>1
    <3>2. \A w \in waits'[p] : OfPhone(p, w.d)'
      BY <2>1, <2>3, <3>1
    <3>3. \A v, w \in waits'[p] : v.d = w.d => v = w
      BY <1>0, <1>1, <1>2, <1>6, <2>3, <3>1 DEF KeptInv
    <3>4. \A e \in rows'[p], w \in waits'[p] :
            taken'[e.d].kind \in Supersedes(taken'[w.d].kind) => e.d < w.d
      BY <1>1, <2>3, <2>4, <2>5, <3>1 DEF KeptInv
    <3> QED
      BY <2>2, <3>2, <3>3, <3>4 DEF KeptInv, Supersedes
  <2>6. CASE /\ \A w \in waits[p] : k \notin Supersedes(taken[w.d].kind)
             /\ waits'[p] = waits[p]
    <3>1. \A e \in rows'[p], w \in waits'[p] :
            taken'[e.d].kind \in Supersedes(taken'[w.d].kind) => e.d < w.d
      <4> SUFFICES ASSUME NEW e \in rows'[p], NEW w \in waits[p],
                          taken'[e.d].kind \in Supersedes(taken[w.d].kind)
                   PROVE  e.d < w.d
        BY <2>3, <2>6
      <4>1. e.d # n
        BY <1>2, <2>6
      <4>2. e \in rows[p] /\ taken'[e.d] = taken[e.d]
        BY <1>8, <2>4, <4>1
      <4> QED
        BY <1>1, <4>2 DEF KeptInv
    <3> QED
      BY <1>1, <2>2, <2>3, <2>6, <3>1 DEF KeptInv, Supersedes
  <2> QED
    BY <1>5, <2>5, <2>6
<1>12. AnsInv(p)' /\ ListInv(p)'
  BY <1>1, <1>3, <1>7, <1>9 DEF AnsInv, ListInv, OfPhone
<1>13. ASSUME NEW q \in Phone
       PROVE  NetInv(q)' /\ KeptInv(q)' /\ AnsInv(q)' /\ ListInv(q)'
  <2>1. CASE q # p
    BY <1>2, <1>3, <1>4, <1>5, <2>1, StayingPhone
  <2> QED
    BY <1>10, <1>11, <1>12, <2>1
<1>14. NothingLost'
  <2> SUFFICES ASSUME NEW d \in DOMAIN taken', taken'[d].kind # "turn"
               PROVE  \/ Settled(d)' \/ Overtaken(d)'
                      \/ \E e \in rows'[taken'[d].who] : e.d = d
                      \/ \E w \in waits'[taken'[d].who] : w.d = d
    BY DEF NothingLost
  <2>1. CASE d = n
    <3>1. (\E e \in rows'[p] : e.d = n) \/ \E w \in waits'[p] : w.d = n
      <4>1. CASE waits'[p] = waits[p] \cup {[d |-> n, cut |-> FALSE]}
        <5>1. [d |-> n, cut |-> FALSE] \in waits'[p] /\ [d |-> n, cut |-> FALSE].d = n
          BY <4>1
        <5> QED
          BY <5>1
      <4>2. CASE rows'[p] = Enqueue(rows[p], n, k)
        BY <4>2, Enqueued
      <4> QED
        BY <1>5, <4>1, <4>2
    <3> QED
      BY <1>2, <2>1, <3>1
  <2>2. CASE d \in DOMAIN taken
    <3>1. taken'[d] = taken[d] /\ taken[d].who \in Phone
      BY <1>1, <1>2, <2>2, TakenTypes
    <3>2. \/ Settled(d)' \/ Overtaken(d)'
          \/ \E e \in rows[taken[d].who] : e.d = d
          \/ \E w \in waits[taken[d].who] : w.d = d
      BY <1>1, <1>7, <2>2, <3>1 DEF NothingLost
    <3>3. waits[p] \subseteq waits'[p]
      BY <1>5
    <3>4. CASE taken[d].who = p
      BY <1>8, <3>1, <3>2, <3>3, <3>4
    <3>5. CASE taken[d].who # p
      BY <1>5, <3>1, <3>2, <3>5
    <3> QED
      BY <3>4, <3>5
  <2> QED
    BY <1>2, <2>1, <2>2
<1>15. Maps'
  <2>1. waits'[p] \subseteq [d : Nat, cut : BOOLEAN]
    <3>1. [d |-> n, cut |-> FALSE] \in [d : Nat, cut : BOOLEAN]
      BY <1>0, <1>2
    <3> QED
      BY <1>1, <1>5, <3>1 DEF Maps
  <2> QED
    BY <1>1, <1>3, <1>5, <2>1 DEF Maps, IsMap, IsPass
<1> QED
  BY <1>2, <1>4, <1>13, <1>14, <1>15 DEF IInv

\* The greatest of the three dates.
LEMMA LastOfThree ==
  ASSUME NEW a \in Nat, NEW b \in Nat, NEW c \in Nat
  PROVE  Max({a, b, c}) \in {a, b, c} /\ \A e \in {a, b, c} : e <= Max({a, b, c})
<1>1. \E x \in {a, b, c} : \A y \in {a, b, c} : x >= y
  <2>1. CASE a >= b /\ a >= c
    BY <2>1
  <2>2. CASE b >= a /\ b >= c
    BY <2>2
  <2>3. CASE c >= a /\ c >= b
    BY <2>3
  <2> QED
    BY <2>1, <2>2, <2>3
<1> DEFINE S == {a, b, c}
<1> HIDE DEF S
<1>2. Max(S) \in S /\ \A y \in S : Max(S) >= y
  BY <1>1 DEF Max, S
<1> QED
  BY <1>2 DEF S

\* What the handler does with the request at the head: the bridge heard it, or has
\* what outdates it.
LEMMA HandledStep ==
  ASSUME IInv, NEW p \in Phone, NEW m, net[p] # <<>>, m = Head(net[p]), Handle(p)
  PROVE  /\ m \in Sent(p) /\ OfPhone(p, m.d) /\ m.late \in BOOLEAN
         /\ Dated' /\ Grows /\ Settled(m.d)'
         /\ there /\ ~there' => taken[m.d].kind = "deleteThread" /\ ~Outdone(m.d)
<1>1. Taken /\ Dated /\ NetInv(p)
  BY DEF IInv
<1> DEFINE M == [d : Nat, late : BOOLEAN, age : Nat]
<1>2. m \in Sent(p) /\ m \in M
  <2>1. net[p] \in Seq(M)
    BY <1>1 DEF NetInv
  <2> HIDE DEF M
  <2>2. 1 \in DOMAIN net[p] /\ m = net[p][1] /\ net[p][1] \in M
    BY <2>1
  <2> QED
    BY <2>2 DEF Sent
<1>3. /\ OfPhone(p, m.d) /\ m.d \in Nat /\ m.d >= 1 /\ m.d <= Now /\ Now \in Nat
      /\ m.d \in DOMAIN taken /\ taken[m.d].kind \in Kind
  <2>1. OfPhone(p, m.d)
    BY <1>1, <1>2 DEF NetInv
  <2>2. taken[m.d].kind # "turn"
    BY <1>1, <2>1, OutboxAssumption DEF OfPhone, Taken
  <2> QED
    BY <1>1, <2>1, <2>2, TakenTypes DEF OfPhone
<1>4. (m.late => m.age = Now - m.d) /\ (~m.late => m.d = Now)
  <2>1. (m.late => Late(p, m)) /\ (~m.late => Live(p, m))
    BY <1>1, <1>2 DEF NetInv
  <2> QED
    BY <2>1 DEF Late, Live
<1>5. DecidedAt(m) = m.d
  BY <1>3, <1>4 DEF DecidedAt
<1>6. /\ UNCHANGED taken
      /\ \/ ~there /\ UNCHANGED bridge
         \/ there /\ taken[m.d].kind = "renameThread" /\ Rename(m, m.d)
         \/ there /\ taken[m.d].kind \in Filing /\ SetStatus(m, m.d)
         \/ there /\ taken[m.d].kind = "deleteThread" /\ Delete(m, m.d)
  BY <1>5 DEF Handle
<1>7. Now' = Now /\ Taken'
  BY <1>1, <1>6 DEF Now, Taken
<1>8. /\ title.by \in Nat /\ title.at = title.by /\ title.by <= Now
      /\ title.by # 0 => title.by \in DOMAIN taken /\ taken[title.by].kind = "renameThread"
      /\ status.by \in Nat /\ status.at = status.by /\ active \in Nat
      /\ status.by <= Now /\ active <= Now
  BY <1>1, <1>3 DEF Dated, Now, Taken
<1>9. CASE UNCHANGED bridge /\ (~there \/ Settled(m.d))
  BY <1>1, <1>2, <1>3, <1>6, <1>7, <1>9 DEF bridge, Dated, Grows, Settled, Outdone
<1>10. CASE there /\ taken[m.d].kind = "renameThread" /\ Rename(m, m.d)
  <2>1. CASE m.d < title.at \/ (title.by # 0 /\ taken[title.by].named = taken[m.d].named)
    <3>1. title.by >= m.d
      BY <1>1, <1>3, <1>8, <1>10, <2>1 DEF Taken
    <3> QED
      BY <1>9, <1>10, <2>1, <3>1 DEF Rename, Settled, Filing
  <2>2. CASE ~(m.d < title.at \/ (title.by # 0 /\ taken[title.by].named = taken[m.d].named))
    <3>1. title' = [by |-> m.d, at |-> m.d] /\ UNCHANGED <<status, active, there>>
      BY <1>10, <2>2 DEF Rename
    <3>2. title'.by = m.d /\ title'.at = m.d /\ title' \in [by : 0..Now, at : Nat] /\ m.d >= title.by
      BY <1>3, <1>8, <2>2, <3>1
    <3>3. Dated'
      BY <1>1, <1>3, <1>6, <1>7, <1>10, <3>1, <3>2 DEF Dated
    <3>4. Grows
      BY <1>6, <1>8, <3>1, <3>2 DEF Grows
    <3> QED
      BY <1>2, <1>3, <1>6, <1>10, <3>1, <3>2, <3>3, <3>4 DEF Settled, Filing
  <2> QED
    BY <2>1, <2>2
<1>11. CASE there /\ taken[m.d].kind \in Filing /\ SetStatus(m, m.d)
  <2>1. CASE m.d < status.at
    BY <1>3, <1>8, <1>9, <1>11, <2>1 DEF SetStatus, Settled, Filing
  <2>2. CASE ~(m.d < status.at)
    <3>1. status' = [by |-> m.d, at |-> m.d] /\ UNCHANGED <<title, active, there>>
      BY <1>11, <2>2 DEF SetStatus
    <3>2. status'.by = m.d /\ status'.at = m.d /\ status' \in [by : 0..Now, at : Nat] /\ m.d >= status.by
      BY <1>3, <1>8, <2>2, <3>1
    <3>3. Dated'
      BY <1>1, <1>3, <1>6, <1>7, <1>11, <3>1, <3>2 DEF Dated
    <3>4. Grows
      BY <1>6, <1>8, <3>1, <3>2 DEF Grows
    <3> QED
      BY <1>2, <1>3, <1>6, <1>11, <3>1, <3>2, <3>3, <3>4 DEF Settled, Filing
  <2> QED
    BY <2>1, <2>2
<1>12. CASE there /\ taken[m.d].kind = "deleteThread" /\ Delete(m, m.d)
  <2>1. LastDecision \in {title.by, status.by, active}
        /\ \A e \in {title.by, status.by, active} : e <= LastDecision
    BY <1>8, LastOfThree DEF LastDecision
  <2>2. CASE m.late /\ m.d < LastDecision
    <3>1. Outdone(m.d)
      BY <1>3, <1>8, <2>1, <2>2 DEF Outdone
    <3> QED
      BY <1>9, <1>12, <2>2, <3>1 DEF Delete, Settled, Filing
  <2>3. CASE ~(m.late /\ m.d < LastDecision)
    <3>1. there' = FALSE /\ UNCHANGED <<title, status, active>>
      BY <1>12, <2>3 DEF Delete
    <3>2. ~Outdone(m.d)
      <4>1. CASE m.late
        BY <1>3, <1>8, <2>1, <2>3, <4>1 DEF Outdone
      <4>2. CASE ~m.late
        BY <1>3, <1>8, <1>4, <4>2 DEF Outdone
      <4> QED
        BY <4>1, <4>2
    <3>3. Dated' /\ Grows /\ Settled(m.d)'
      <4>1. Dated'
        BY <1>1, <1>6, <1>7, <3>1 DEF Dated
      <4>2. Grows
        BY <1>6, <1>8, <3>1 DEF Grows
      <4> QED
        BY <3>1, <4>1, <4>2 DEF Settled
    <3> QED
      BY <1>2, <1>3, <1>12, <3>2, <3>3
  <2> QED
    BY <2>2, <2>3
<1>13. CASE ~there /\ UNCHANGED bridge
  BY <1>9, <1>13
<1> QED
  BY <1>6, <1>10, <1>11, <1>12, <1>13

\* The head goes, and the rest moves up.
LEMMA RestSeq ==
  ASSUME NEW S, NEW s \in Seq(S), s # <<>>
  PROVE  /\ Tail(s) \in Seq(S) /\ 1 \in DOMAIN s /\ Head(s) = s[1]
         /\ \A i \in DOMAIN Tail(s) : i + 1 # 1 /\ i + 1 \in DOMAIN s /\ Tail(s)[i] = s[i + 1]
OBVIOUS

LEMMA HandleIInv ==
  ASSUME IInv, NEW p \in Phone, Handle(p)
  PROVE  IInv'
<1>1. Taken /\ Maps /\ NothingLost /\ NetInv(p) /\ KeptInv(p) /\ AnsInv(p) /\ ListInv(p)
  BY DEF IInv
<1>2. PICK m : m = Head(net[p])
  OBVIOUS
<1> DEFINE a == [d |-> m.d, late |-> m.late]
<1>3. /\ net[p] # <<>> /\ UNCHANGED <<taken, rows, waits, pass>>
      /\ net' = [net EXCEPT ![p] = Tail(@)]
      /\ ans' = [ans EXCEPT ![p] = @ \cup {a}]
  BY <1>2 DEF Handle, phone
<1>4. /\ m \in Sent(p) /\ OfPhone(p, m.d) /\ m.late \in BOOLEAN
      /\ Dated' /\ Grows /\ Settled(m.d)'
  BY <1>2, <1>3, HandledStep
<1>5. /\ IsMap(net', Phone) /\ IsMap(ans', Phone)
      /\ net'[p] = Tail(net[p]) /\ ans'[p] = ans[p] \cup {a}
      /\ \A q \in Phone \ {p} : net'[q] = net[q] /\ ans'[q] = ans[q]
  BY <1>1, <1>3 DEF Maps, IsMap
<1>6. Now' = Now /\ Taken' /\ Maps'
  BY <1>1, <1>3, <1>5 DEF Now, Taken, Maps, IsMap, IsPass
<1>7. \A d \in DOMAIN taken :
        /\ Settled(d) => Settled(d)'
        /\ Overtaken(d) => Overtaken(d)'
        /\ \A q : OfPhone(q, d) => OfPhone(q, d)'
        /\ Owed(p, d) => Owed(p, d)'
  BY <1>3, <1>4, Lasting DEF Owed
<1> DEFINE M == [d : Nat, late : BOOLEAN, age : Nat]
<1>8. NetInv(p)'
  <2>0. net[p] \in Seq(M)
    BY <1>1 DEF NetInv
  <2> HIDE DEF M
  <2>1. /\ net'[p] \in Seq(M) /\ 1 \in DOMAIN net[p] /\ m = net[p][1]
        /\ \A i \in DOMAIN net'[p] :
             i + 1 # 1 /\ i + 1 \in DOMAIN net[p] /\ net'[p][i] = net[p][i + 1]
    <3>1. /\ Tail(net[p]) \in Seq(M) /\ 1 \in DOMAIN net[p] /\ Head(net[p]) = net[p][1]
          /\ \A i \in DOMAIN Tail(net[p]) :
               i + 1 # 1 /\ i + 1 \in DOMAIN net[p] /\ Tail(net[p])[i] = net[p][i + 1]
      BY <1>3, <2>0, RestSeq, Zenon
    <3> QED
      BY <1>2, <1>5, <3>1
  <2>2. \A i, j \in DOMAIN net[p] : ~net[p][i].late /\ ~net[p][j].late => i = j
    BY <1>1 DEF NetInv
  <2>3. \A i, j \in DOMAIN net'[p] : ~net'[p][i].late /\ ~net'[p][j].late => i = j
    BY <2>1, <2>2
  <2>4. \A x \in Sent(p)' : x \in Sent(p) /\ (x.late \/ m.late)
    <3> SUFFICES ASSUME NEW i \in DOMAIN net'[p]
                 PROVE  net'[p][i] \in Sent(p) /\ (net'[p][i].late \/ m.late)
      BY DEF Sent
    <3> QED
      BY <2>1, <2>2 DEF Sent
  <2>5. ASSUME NEW x \in Sent(p)'
        PROVE  OfPhone(p, x.d)' /\ (x.late => Late(p, x)') /\ (~x.late => Live(p, x)')
    <3>1. OfPhone(p, x.d) /\ (x.late => Late(p, x)) /\ (~x.late => Live(p, x)) /\ (x.late \/ m.late)
      BY <1>1, <2>4, <2>5 DEF NetInv
    <3>2. OfPhone(p, x.d)'
      BY <1>7, <3>1 DEF OfPhone
    <3>3. x.late => Late(p, x)'
      BY <1>6, <1>7, <3>1 DEF Late, OfPhone
    <3>4. ~x.late => Live(p, x)'
      <4>1. m.late => [d |-> x.d, late |-> FALSE] # a
        OBVIOUS
      <4> QED
        BY <1>3, <1>4, <1>5, <1>6, <3>1, <4>1 DEF Live
    <3> QED
      BY <3>2, <3>3, <3>4
  <2> QED
    BY <2>1, <2>3, <2>5 DEF NetInv, M
<1>9. KeptInv(p)'
  BY <1>1, <1>3, <1>7 DEF KeptInv, OfPhone, Supersedes
<1>10. AnsInv(p)' /\ ListInv(p)'
  <2>1. a.d = m.d
    OBVIOUS
  <2>2. \A b \in ans'[p] : b.d = m.d \/ b \in ans[p]
    BY <1>5, <2>1
  <2>3. AnsInv(p)'
    BY <1>1, <1>4, <1>7, <2>2 DEF AnsInv, OfPhone
  <2> QED
    BY <1>1, <1>3, <1>7, <2>3 DEF ListInv, OfPhone
<1>11. ASSUME NEW q \in Phone
       PROVE  NetInv(q)' /\ KeptInv(q)' /\ AnsInv(q)' /\ ListInv(q)'
  <2>1. CASE q # p
    BY <1>3, <1>4, <1>5, <1>6, <2>1, StayingPhone
  <2> QED
    BY <1>8, <1>9, <1>10, <2>1
<1>12. NothingLost'
  <2> SUFFICES ASSUME NEW d \in DOMAIN taken, taken[d].kind # "turn"
               PROVE  \/ Settled(d)' \/ Overtaken(d)'
                      \/ \E e \in rows'[taken[d].who] : e.d = d
                      \/ \E w \in waits'[taken[d].who] : w.d = d
    BY <1>3 DEF NothingLost
  <2> QED
    BY <1>1, <1>3, <1>7 DEF NothingLost
<1> QED
  BY <1>4, <1>6, <1>11, <1>12 DEF IInv

\* Nothing the invariant is about changes.
LEMMA SameIInv ==
  ASSUME IInv, UNCHANGED <<taken, bridge, rows, waits, pass, net, ans>>
  PROVE  IInv'
<1> USE DEF bridge
<1>1. Maps' /\ Taken' /\ Dated' /\ Grows
  BY DEF IInv, Maps, IsMap, IsPass, Taken, Dated, Now, Grows
<1>2. Now' = Now
  BY DEF Now
<1>3. \A q \in Phone : NetInv(q)' /\ KeptInv(q)' /\ AnsInv(q)' /\ ListInv(q)'
  BY <1>1, <1>2, StayingPhone
<1>4. NothingLost'
  BY DEF IInv, NothingLost, Settled, Outdone, Overtaken
<1> QED
  BY <1>1, <1>3, <1>4 DEF IInv
--------------------------------------------------------------------------------
(* Theorems *)

LEMMA StepIInv ==
  ASSUME IInv, Safe, [Next]_vars
  PROVE  IInv'
<1>1. CASE StartTurn
  BY <1>1, StartTurnIInv
<1>2. ASSUME NEW p \in Phone, PhoneNext(p) \/ Handle(p)
      PROVE  IInv'
  <2>1. ASSUME NEW k \in Kind, Act(p, k)
        PROVE  IInv'
    BY <2>1, ActIInv
  <2>2. ASSUME NEW d, Answered(p, d)
        PROVE  IInv'
    BY <2>2, AnsweredIInv
  <2>3. CASE TimedOut(p)
    BY <2>3, TimedOutIInv
  <2>4. CASE Asked(p)
    BY <2>4, SyncIInv DEF Asked
  <2>5. CASE Heard(p)
    BY <2>5, HeardIInv
  <2>6. CASE FlushFails(p)
    BY <2>6, FlushFailsIInv
  <2>7. CASE Learns(p)
    BY <2>7, SameIInv DEF Learns
  <2>8. CASE Connect(p)
    BY <2>8, SyncIInv DEF Connect
  <2>9. CASE Drop(p)
    BY <2>9, DropIInv
  <2>10. CASE Kill(p)
    BY <2>10, KillIInv
  <2>11. CASE Handle(p)
    BY <2>11, HandleIInv
  <2> QED
    BY <1>2, <2>1, <2>2, <2>3, <2>4, <2>5, <2>6, <2>7, <2>8, <2>9, <2>10, <2>11 DEF PhoneNext
<1>3. CASE UNCHANGED vars
  BY <1>3, SameIInv DEF vars, phone
<1> QED
  BY <1>1, <1>2, <1>3 DEF Next

THEOREM Invariance == Safe /\ Spec => []IInv
<1>1. Safe => []Safe
  <2>1. Safe => Safe'
    BY DEF Safe, Open
  <2> QED
    BY <2>1, PTL
<1>2. Safe /\ IInv /\ [Next]_vars => IInv'
  BY StepIInv
<1> QED
  BY <1>1, <1>2, InitIInv, PTL DEF Spec

\* The latest action wins: what the bridge holds is the last decision, or the last is
\* still kept or on its way. It follows from NothingLost, since what outdates a
\* decision is not the last.
THEOREM LatestActionWins == Safe /\ Spec => []LatestWins
<1>1. ASSUME IInv PROVE LatestWins
  <2> SUFFICES ASSUME there, NEW d \in DOMAIN taken
               PROVE  /\ Latest({"renameThread"}, d) =>
                           Carried(d) \/ (title.by # 0 /\ taken[title.by].named = taken[d].named)
                      /\ Latest(Filing, d) => Carried(d) \/ status.by = d
                      /\ Latest({"deleteThread"}, d) => Carried(d) \/ Outdone(d)
    BY DEF LatestWins
  <2>1. Taken /\ Dated /\ NothingLost
    BY <1>1 DEF IInv
  <2>2. d \in Nat /\ d >= 1 /\ (taken[d].kind # "turn" => taken[d].who \in Phone)
    BY <2>1, TakenTypes
  <2>3. taken[d].kind # "turn" => Settled(d) \/ Overtaken(d) \/ Carried(d)
    BY <2>1, <2>2 DEF NothingLost, Carried
  <2>4. /\ title.by \in 0..Len(taken) /\ status.by \in 0..Len(taken) /\ DOMAIN taken = 1..Len(taken)
        /\ title.by # 0 => taken[title.by].kind = "renameThread"
        /\ status.by # 0 => taken[status.by].kind \in Filing
    BY <2>1 DEF Dated, Now, Taken
  <2>5. ASSUME Latest({"renameThread"}, d)
        PROVE  Carried(d) \/ (title.by # 0 /\ taken[title.by].named = taken[d].named)
    <3>1. taken[d].kind = "renameThread" /\ ~Overtaken(d)
      BY <2>5 DEF Latest, Overtaken, Filing
    <3>2. CASE Settled(d)
      <4>1. title.by >= d /\ title.by \in DOMAIN taken
        BY <2>2, <2>4, <3>1, <3>2 DEF Settled
      <4>2. title.by = d
        BY <2>2, <2>4, <2>5, <4>1 DEF Latest
      <4> QED
        BY <2>2, <4>2
    <3> QED
      BY <2>3, <3>1, <3>2
  <2>6. ASSUME Latest(Filing, d)
        PROVE  Carried(d) \/ status.by = d
    <3>1. taken[d].kind \in Filing /\ ~Overtaken(d)
      BY <2>6 DEF Latest, Overtaken, Filing
    <3>2. CASE Settled(d)
      <4>1. status.by >= d /\ status.by \in DOMAIN taken
        BY <2>2, <2>4, <3>1, <3>2 DEF Settled
      <4> QED
        BY <2>2, <2>4, <2>6, <4>1 DEF Latest
    <3> QED
      BY <2>3, <3>1, <3>2 DEF Filing
  <2>7. ASSUME Latest({"deleteThread"}, d)
        PROVE  Carried(d) \/ Outdone(d)
    <3>1. taken[d].kind = "deleteThread" /\ ~Overtaken(d)
      BY <2>7 DEF Latest, Overtaken, Filing
    <3> QED
      BY <2>3, <3>1 DEF Settled
  <2> QED
    BY <2>5, <2>6, <2>7
<1> QED
  BY <1>1, Invariance, PTL

\* Nobody deletes work they had not seen: the bridge lets a conversation go only for
\* a deletion decided after every turn and decision it has heard.
THEOREM DeletesOnlyWhatWasSeen == Safe /\ Spec => DeletesWhatWasSeen
<1> DEFINE Seen ==
      there /\ ~there' =>
        \E p \in Phone :
          /\ net[p] # <<>> /\ net'[p] = Tail(net[p])
          /\ taken[Head(net[p]).d].kind = "deleteThread"
          /\ ~Outdone(Head(net[p]).d)
<1>1. ASSUME IInv, [Next]_vars
      PROVE  [Seen]_vars
  <2> SUFFICES ASSUME there, ~there' PROVE Seen
    OBVIOUS
  <2>1. there' # there
    OBVIOUS
  <2>2. PICK p \in Phone : Handle(p)
    BY <1>1, <2>1 DEF Next, StartTurn, PhoneNext, Act, Answered, TimedOut, Asked, Heard, FlushFails,
          Learns, Connect, Drop, Kill, bridge, vars
  <2>3. net[p] # <<>> /\ net' = [net EXCEPT ![p] = Tail(@)]
    BY <2>2 DEF Handle
  <2>4. net'[p] = Tail(net[p])
    BY <1>1, <2>3 DEF IInv, Maps, IsMap
  <2>5. PICK m : m = Head(net[p])
    OBVIOUS
  <2>6. taken[m.d].kind = "deleteThread" /\ ~Outdone(m.d)
    BY <1>1, <2>2, <2>3, <2>5, HandledStep
  <2> QED
    BY <2>3, <2>4, <2>5, <2>6
<1> QED
  BY <1>1, Invariance, PTL DEF Spec, DeletesWhatWasSeen
--------------------------------------------------------------------------------
(* Types *)

\* Rows are numbered, and each decision has one.
RowsInv(p) ==
  /\ \E b \in Nat : \A e \in rows[p] : e.id \in Nat /\ e.id <= b
  /\ \A e, f \in rows[p] : e.d = f.d \/ e.id = f.id => e = f

PassInv(p) ==
  /\ pass[p].again \in BOOLEAN /\ pass[p].cut \in BOOLEAN
  /\ pass[p].again \/ pass[p].cut => pass[p].list # {}

TInv ==
  /\ \A p \in Phone : RowsInv(p) /\ PassInv(p)
  /\ breaks \in 0..MaxBreaks

\* A bounded set of naturals has a greatest one: the least of its bounds.
LEMMA GreatestOf ==
  ASSUME NEW S \in SUBSET Nat, S # {}, NEW b \in Nat, \A x \in S : x <= b
  PROVE  Max(S) \in S /\ \A x \in S : x <= Max(S)
<1> DEFINE T == {c \in Nat : \A x \in S : x <= c}
<1>1. PICK c \in T : \A y \in T : ~(<<y, c>> \in OpToRel(<, Nat))
  <2>1. T \subseteq Nat /\ T # {}
    OBVIOUS
  <2> HIDE DEF T
  <2> QED
    BY <2>1, WFMin, NatLessThanWellFounded
<1>2. c \in Nat /\ \A x \in S : x <= c
  OBVIOUS
<1>3. c \in S
  <2> SUFFICES ASSUME c \notin S PROVE FALSE
    OBVIOUS
  <2>1. \A x \in S : x \in Nat /\ x < c
    BY <1>2
  <2>2. c - 1 \in Nat /\ \A x \in S : x <= c - 1
    <3>1. PICK x \in S : TRUE
      OBVIOUS
    <3>2. c >= 1
      BY <1>2, <2>1, <3>1
    <3> QED
      BY <1>2, <2>1, <3>2
  <2>3. c - 1 \in T
    BY <2>2
  <2>4. <<c - 1, c>> \in OpToRel(<, Nat)
    BY <1>2, <2>2 DEF OpToRel
  <2> QED
    BY <1>1, <2>3, <2>4
<1>4. \E x \in S : \A y \in S : x >= y
  BY <1>2, <1>3
<1>5. Max(S) \in S /\ \A y \in S : Max(S) >= y
  BY <1>4 DEF Max
<1> QED
  BY <1>5

LEMMA EnqueuedRow ==
  ASSUME NEW r, NEW d, NEW k, NEW b \in Nat, \A e \in r : e.id \in Nat /\ e.id <= b,
         \A e, f \in r : e.d = f.d \/ e.id = f.id => e = f,
         \A e \in r : e.d = d => taken[e.d].kind \in Supersedes(k)
  PROVE  /\ \E c \in Nat : \A e \in Enqueue(r, d, k) : e.id \in Nat /\ e.id <= c
         /\ \A e, f \in Enqueue(r, d, k) : e.d = f.d \/ e.id = f.id => e = f
<1> DEFINE S == {0} \cup {e.id : e \in r}
<1>1. S \in SUBSET Nat /\ S # {} /\ \A x \in S : x <= b
  OBVIOUS
<1>2. \A e \in r : e.id \in S
  OBVIOUS
<1> HIDE DEF S
<1>3. Max(S) \in Nat /\ \A e \in r : e.id <= Max(S)
  BY <1>1, <1>2, GreatestOf
<1>4. PICK n : n = 1 + Max(S)
  OBVIOUS
<1>5. n \in Nat /\ \A e \in r : e.id \in Nat /\ e.id < n
  BY <1>3, <1>4
<1>6. PICK new : new = [id |-> n, d |-> d]
  OBVIOUS
<1>7. new.id = n /\ new.d = d
  BY <1>6
<1>8. Enqueue(r, d, k) = {e \in r : taken[e.d].kind \notin Supersedes(k)} \cup {new}
  BY <1>4, <1>6 DEF Enqueue, S
<1>9. \A e \in Enqueue(r, d, k) : (e \in r /\ e.d # d) \/ e = new
  BY <1>8
<1> QED
  BY <1>5, <1>7, <1>9

LEMMA NeitherFlag ==
  ASSUME NEW p, pass'[p].again = FALSE, pass'[p].cut = FALSE
  PROVE  PassInv(p)'
<1>1. FALSE \in BOOLEAN
  OBVIOUS
<1> QED
  BY <1>1, Zenon DEF PassInv

LEMMA IdlePass ==
  ASSUME NEW p, pass'[p] = Idle
  PROVE  PassInv(p)'
<1>1. pass'[p].again = FALSE /\ pass'[p].cut = FALSE
  BY DEF Idle
<1> QED
  BY <1>1, NeitherFlag

LEMMA TypeStep ==
  ASSUME IInv, TInv, Safe, [Next]_vars
  PROVE  TInv'
<1>1. Maps /\ Taken /\ \A p \in Phone : KeptInv(p) /\ RowsInv(p) /\ PassInv(p)
  BY DEF IInv, TInv
<1>2. breaks' \in 0..MaxBreaks
  <2>1. MaxBreaks \in Nat /\ breaks \in 0..MaxBreaks
    BY OutboxAssumption DEF TInv
  <2>2. UNCHANGED breaks \/ \E p \in Phone : Breaks(p)
    BY DEF Next, StartTurn, PhoneNext, Act, Answered, TimedOut, Asked, Heard, FlushFails, Learns,
         Connect, Drop, Kill, Handle, vars
  <2> QED
    BY <2>1, <2>2 DEF Breaks
\* An older row of what a timeout keeps is removed, so nothing is kept twice.
<1>3. ASSUME NEW p \in Phone
      PROVE  RowsInv(p)'
  <2>1. CASE rows'[p] \subseteq rows[p]
    BY <1>1, <2>1 DEF RowsInv
  <2>2. ASSUME NEW k \in Kind, Act(p, k), ~(rows'[p] \subseteq rows[p])
        PROVE  RowsInv(p)'
    <3>1. rows'[p] = Enqueue(rows[p], Now + 1, k)
      BY <1>1, <2>2 DEF Act, Maps, IsMap
    <3>2. \A e \in rows[p] : e.d # Now + 1
      BY <1>1, TakenTypes DEF KeptInv, OfPhone
    <3> QED
      BY <1>1, <3>1, <3>2, EnqueuedRow DEF RowsInv
  <2>3. ASSUME TimedOut(p)
        PROVE  RowsInv(p)'
    <3>1. PICK w \in waits[p] : rows' = [rows EXCEPT ![p] = Enqueue(@, w.d, taken[w.d].kind)]
      BY <2>3 DEF TimedOut
    <3>2. rows'[p] = Enqueue(rows[p], w.d, taken[w.d].kind)
      BY <1>1, <3>1 DEF Maps, IsMap
    <3>3. \A e \in rows[p] : e.d = w.d => taken[e.d].kind \in Supersedes(taken[w.d].kind)
      <4>1. taken[w.d].kind \in Kind
        BY <1>1, OutboxAssumption, TakenTypes DEF KeptInv, OfPhone, Taken
      <4> QED
        BY <4>1, OutboxAssumption DEF Supersedes, Filing
    <3> QED
      BY <1>1, <3>2, <3>3, EnqueuedRow DEF RowsInv
  <2>4. ASSUME NEW q \in Phone, PhoneNext(q)
        PROVE  rows'[p] \subseteq rows[p] \/ TimedOut(p) \/ \E k \in Kind : Act(p, k)
    <3>1. \/ TimedOut(q) \/ \E k \in Kind : Act(q, k)
          \/ \E x : rows' = [rows EXCEPT ![q] = {f \in @ : f.d # x}]
          \/ UNCHANGED rows
      BY <2>4 DEF PhoneNext, Answered, Asked, Heard, FlushFails, Learns, Connect, Drop, Kill
    <3>2. CASE q # p
      <4>1. rows'[p] = rows[p]
        BY <1>1, <3>1, <3>2 DEF TimedOut, Act, Maps, IsMap
      <4> QED
        BY <4>1
    <3>3. CASE \E x : rows' = [rows EXCEPT ![q] = {f \in @ : f.d # x}]
      BY <1>1, <3>3 DEF Maps, IsMap
    <3> QED
      BY <3>1, <3>2, <3>3
  <2>5. CASE UNCHANGED rows
    BY <2>1, <2>5
  <2>6. UNCHANGED rows \/ \E q \in Phone : PhoneNext(q)
    BY DEF Next, StartTurn, Handle, phone, vars
  <2> QED
    BY <2>1, <2>2, <2>3, <2>4, <2>5, <2>6
<1>4. ASSUME NEW p \in Phone
      PROVE  PassInv(p)'
  <2>1. CASE pass'[p] = pass[p]
    BY <1>1, <2>1 DEF PassInv
  <2>2. ASSUME NEW r, NEW again \in BOOLEAN, Flush(p, r, again), again => r # {}
        PROVE  PassInv(p)'
    <3>1. CASE pass' = [pass EXCEPT ![p] = Idle]
      BY <1>1, <3>1 DEF Maps, IsMap, PassInv, Idle
    <3>2. CASE r # {} /\ pass' = [pass EXCEPT ![p] = [list |-> r, again |-> again, cut |-> FALSE]]
      BY <1>1, <3>2 DEF Maps, IsMap, PassInv
    <3> QED
      BY <2>2, <3>1, <3>2 DEF Flush, Oldest
  <2>3. ASSUME Sync(p)
        PROVE  PassInv(p)'
    <3>1. CASE Flush(p, rows[p], FALSE)
      BY <2>2, <3>1
    <3>2. CASE pass[p] # Idle /\ pass' = [pass EXCEPT ![p].again = TRUE]
      <4>1. pass[p] = [list |-> pass[p].list, again |-> pass[p].again, cut |-> pass[p].cut]
        BY <1>1 DEF Maps, IsPass
      <4>2. pass'[p] = [list |-> pass[p].list, again |-> TRUE, cut |-> pass[p].cut]
        BY <1>1, <3>2, <4>1 DEF Maps, IsMap
      <4>3. pass[p].list # {}
        BY <1>1, <3>2, <4>1 DEF PassInv, Idle
      <4>4. pass'[p].list = pass[p].list /\ pass'[p].again = TRUE /\ pass'[p].cut = pass[p].cut
        BY <4>2
      <4>5. pass[p].cut \in BOOLEAN /\ TRUE \in BOOLEAN
        BY <1>1 DEF PassInv
      <4>6. pass'[p].again \in BOOLEAN /\ pass'[p].cut \in BOOLEAN
        BY <4>4, <4>5, Zenon
      <4>7. pass'[p].list # {}
        BY <4>3, <4>4, Zenon
      <4> QED
        BY <4>6, <4>7, Zenon DEF PassInv
    <3> QED
      BY <2>3, <3>1, <3>2 DEF Sync
  <2>4. ASSUME Heard(p)
        PROVE  PassInv(p)'
    BY <1>1, <2>2, <2>4 DEF Heard, PassInv
  <2>5. ASSUME FlushFails(p) \/ Kill(p)
        PROVE  PassInv(p)'
    <3>1. pass' = [pass EXCEPT ![p] = Idle]
      BY <2>5 DEF FlushFails, Kill
    <3>2. pass'[p] = Idle
      BY <1>1, <3>1 DEF Maps, IsMap
    <3> QED
      BY <3>2, IdlePass
  <2>6. ASSUME Drop(p)
        PROVE  PassInv(p)'
    <3>1. pass' = [pass EXCEPT ![p].cut = pass[p] # Idle]
      BY <2>6 DEF Drop
    <3>2. pass[p] = [list |-> pass[p].list, again |-> pass[p].again, cut |-> pass[p].cut]
      BY <1>1 DEF Maps, IsPass
    <3>3. pass'[p] = [list |-> pass[p].list, again |-> pass[p].again, cut |-> pass[p] # Idle]
      BY <1>1, <3>1, <3>2 DEF Maps, IsMap
    <3>4. CASE pass[p] = Idle
      <4>1. (pass[p] # Idle) = FALSE
        BY <3>4
      <4>2. pass'[p].cut = (pass[p] # Idle) /\ pass'[p].again = pass[p].again
        BY <3>3
      <4>3. pass'[p].cut = FALSE
        BY <4>1, <4>2, Zenon
      <4>4. pass[p].again = FALSE
        BY <3>4 DEF Idle
      <4> QED
        BY <4>2, <4>3, <4>4, NeitherFlag
    <3>5. CASE pass[p] # Idle
      <4>1. pass[p].list # {}
        BY <1>1, <3>2, <3>5 DEF PassInv, Idle
      <4>2. (pass[p] # Idle) \in BOOLEAN
        BY <3>5
      <4>3. pass'[p].list = pass[p].list /\ pass'[p].again = pass[p].again
               /\ pass'[p].cut = (pass[p] # Idle)
        BY <3>3
      <4>4. pass[p].again \in BOOLEAN
        BY <1>1 DEF PassInv
      <4>5. pass'[p].again \in BOOLEAN /\ pass'[p].cut \in BOOLEAN /\ pass'[p].list # {}
        BY <4>1, <4>2, <4>3, <4>4, Zenon
      <4> QED
        BY <4>5, Zenon DEF PassInv
    <3> QED
      BY <3>4, <3>5
  <2>7. ASSUME NEW q \in Phone, PhoneNext(q)
        PROVE  \/ pass'[p] = pass[p] \/ Sync(p) \/ Heard(p)
               \/ FlushFails(p) \/ Kill(p) \/ Drop(p)
    <3>1. CASE q = p
      BY <2>7, <3>1 DEF PhoneNext, Act, Answered, TimedOut, Asked, Learns, Connect
    <3>2. CASE q # p
      <4>1. UNCHANGED pass \/ \E x : pass' = [pass EXCEPT ![q] = x]
        BY <2>7 DEF PhoneNext, Act, Answered, TimedOut, Asked, Heard, FlushFails, Learns, Connect, Drop,
             Kill, Sync, Flush
      <4> QED
        BY <1>1, <3>2, <4>1 DEF Maps, IsMap
    <3> QED
      BY <3>1, <3>2
  <2>8. UNCHANGED pass \/ \E q \in Phone : PhoneNext(q)
    BY DEF Next, StartTurn, Handle, phone, vars
  <2> QED
    BY <2>1, <2>3, <2>4, <2>5, <2>6, <2>7, <2>8
<1> QED
  BY <1>2, <1>3, <1>4 DEF TInv

\* What is kept, sent and waited for are decisions of that phone, each once in the
\* outbox, and a flush waits only for an answer to something it read.
THEOREM TypeCorrect == Safe /\ Spec => []TypeOK
<1>1. Init => TInv
  <2>1. MaxBreaks \in Nat /\ 0 \in Nat
    BY OutboxAssumption
  <2>2. Init => \A p \in Phone : PassInv(p)
    <3>1. Init => \A p \in Phone : pass[p].again = FALSE /\ pass[p].cut = FALSE
      BY DEF Init, Idle
    <3>2. FALSE \in BOOLEAN
      OBVIOUS
    <3> QED
      BY <3>1, <3>2, Zenon DEF PassInv
  <2>3. Init => \A p \in Phone : RowsInv(p)
    BY <2>1 DEF Init, RowsInv
  <2> QED
    BY <2>1, <2>2, <2>3 DEF Init, TInv
<1>2. IInv /\ TInv => TypeOK
  <2> SUFFICES ASSUME IInv, TInv PROVE TypeOK
    OBVIOUS
  <2>1. \A p \in Phone :
          /\ \A e \in rows[p] : taken[e.d].who = p
          /\ \A w \in waits[p] : taken[w.d].who = p
          /\ \A i \in DOMAIN net[p] : taken[net[p][i].d].who = p
    BY DEF IInv, KeptInv, NetInv, Sent, OfPhone
  <2>2. {title.by, title.at, status.by, status.at, active} \subseteq 0..Now
    BY DEF IInv, Dated
  <2> QED
    BY <2>1, <2>2 DEF TInv, RowsInv, PassInv, TypeOK
<1>3. Safe => []Safe
  <2>1. Safe => Safe'
    BY DEF Safe, Open
  <2> QED
    BY <2>1, PTL
<1>4. Safe /\ IInv /\ TInv /\ [Next]_vars => TInv'
  BY TypeStep
<1> QED
  BY <1>1, <1>2, <1>3, <1>4, Invariance, PTL DEF Spec
================================================================================
