--------------------------- MODULE SessionHoldsProofs ---------------------------
(* For any desktops, sessions and requests.  Where late_hold is left out, a    *)
(* hold and an open request are of a desktop that is there.  Whatever schedule *)
(* is taken, the types.  Where every schedule of Open is left out, a desktop   *)
(* that has nothing more to say has said it all, and a session an asker is     *)
(* told was released is free: from SayInv of SessionHoldsInv, step by step.    *)
EXTENDS SessionHoldsInv, SequenceTheorems, WellFoundedInduction, TLAPS

\* No hold is taken, and no call handled, for a desktop that has gone meanwhile.
Safe == ~Open("late_hold")

IsMap(f, S) == f = [x \in S |-> f[x]]

Maps ==
  /\ IsMap(holds, Session) /\ IsMap(pending, Request)
  /\ IsMap(served, Desktop) /\ IsMap(link, Desktop)
  /\ IsMap(looking, Desktop) /\ IsMap(up, Desktop)
  /\ \A r \in Request : pending[r] = [s |-> pending[r].s, client |-> pending[r].client,
                                     outcome |-> pending[r].outcome]

\* What a disconnect that is noticed would leave behind: a desktop the bridge does
\* not serve is not connected, and has no call on its way or waiting.
GoneIsGone ==
  \A d \in Desktop : link[d] \/ up[d] # <<>> \/ looking[d] # <<>> => served[d]

HoldersInv ==
  \A s \in Session : holds[s] # Free => holds[s].client \in Desktop /\ served[holds[s].client]

AskedInv ==
  \A r \in Request :
    pending[r].outcome = "asked" => pending[r].client \in Desktop /\ served[pending[r].client]

IInv == Maps /\ GoneIsGone /\ HoldersInv /\ AskedInv
--------------------------------------------------------------------------------
LEMMA InitIInv == Init => IInv
BY DEF Init, IInv, Maps, IsMap, GoneIsGone, HoldersInv, AskedInv, Free, Unasked

\* The bridge's side stays, and the calls of one connected desktop change.
LEMMA WindowOnly ==
  ASSUME IInv, NEW d \in Desktop, link[d],
         UNCHANGED <<holds, pending, served, looking, link>>,
         NEW q, up' = [up EXCEPT ![d] = q]
  PROVE  IInv'
BY DEF IInv, Maps, IsMap, GoneIsGone, HoldersInv, AskedInv

\* Neither the bridge's side nor any call changes.
LEMMA NothingOfIt ==
  ASSUME IInv, UNCHANGED <<holds, pending, served, looking, link, up>>
  PROVE  IInv'
BY DEF IInv, Maps, IsMap, GoneIsGone, HoldersInv, AskedInv

LEMMA WindowIInv ==
  ASSUME IInv, NEW d \in Desktop, WindowNext(d)
  PROVE  IInv'
<1> USE DEF bridge
<1>1. ASSUME NEW s \in Session, NEW a \in Activity, Change(d, s, a)
      PROVE  IInv'
  <2>1. CASE link[d]
    BY <1>1, <2>1, WindowOnly DEF Change, Tells, Reports
  <2>2. CASE ~link[d]
    BY <1>1, <2>2, NothingOfIt DEF Change, Tells
  <2> QED
    BY <2>1, <2>2
<1>2. ASSUME NEW k \in Slot, ReportGoes(d, k)
      PROVE  IInv'
  BY <1>2, WindowOnly DEF ReportGoes
<1>3. ASSUME ConvergeGoes(d)
      PROVE  IInv'
  <2>1. UNCHANGED up \/ \E q : up' = [up EXCEPT ![d] = q]
    BY <1>3 DEF ConvergeGoes
  <2> QED
    BY <1>3, <2>1, WindowOnly, NothingOfIt DEF ConvergeGoes
<1>4. ASSUME NEW s \in Session, ContinueAsChat(d, s)
      PROVE  IInv'
  BY <1>4, NothingOfIt DEF ContinueAsChat
<1>5. ASSUME NEW r \in Request, HandoffRequested(d, r)
      PROVE  IInv'
  BY <1>5, WindowOnly, NothingOfIt DEF HandoffRequested, Says
<1>6. ASSUME NEW r \in Reason, Stopped(d, r)
      PROVE  IInv'
  <2>1. CASE link[d]
    BY <1>6, <2>1, WindowOnly DEF Stopped, Tells, Reports
  <2>2. CASE ~link[d]
    BY <1>6, <2>2, NothingOfIt DEF Stopped, Tells
  <2> QED
    BY <2>1, <2>2
<1>7. ASSUME NEW r \in Reason, StopFails(d, r)
      PROVE  IInv'
  BY <1>7, WindowOnly, NothingOfIt DEF StopFails, Says
<1>8. ASSUME NEW r \in Reason, LetGo(d, r)
      PROVE  IInv'
  BY <1>8, WindowOnly, NothingOfIt DEF LetGo, Says
<1> QED
  BY <1>1, <1>2, <1>3, <1>4, <1>5, <1>6, <1>7, <1>8 DEF WindowNext
--------------------------------------------------------------------------------
\* A call that reaches its handler came from a desktop that is served, and no
\* other desktop's calls change.
LEMMA HandledIsServed ==
  ASSUME IInv, NEW d \in Desktop, NEW m, Handles(d, m)
  PROVE  served[d] /\ up' = [up EXCEPT ![d] = Tail(up[d])]
BY DEF IInv, GoneIsGone, Handles, Maps, IsMap

LEMMA BridgeIInv ==
  ASSUME Safe, IInv, NEW d \in Desktop, BridgeNext(d)
  PROVE  IInv'
<1> USE DEF IInv, Maps, IsMap, window
<1>1. CASE HoldCalled(d)
  <2>1. /\ served[d]
        /\ up' = [up EXCEPT ![d] = Tail(up[d])]
        /\ UNCHANGED <<holds, pending, served, link>>
        /\ looking' = [looking EXCEPT ![d] = Append(@, Head(up[d]))]
    BY <1>1, HandledIsServed DEF HoldCalled
  <2> QED
    BY <2>1 DEF GoneIsGone, HoldersInv, AskedInv
<1>2. CASE Held(d)
  <2>1. served[d]
    BY <1>2 DEF Held, GoneIsGone
  <2>2. PICK c : holds' = [holds EXCEPT ![c.s] = [client |-> d, busy |-> c.a = "working"]]
    BY <1>2 DEF Held
  <2>3. UNCHANGED <<pending, served, up, link>> /\ looking' = [looking EXCEPT ![d] = Tail(@)]
    BY <1>2 DEF Held
  <2>4. HoldersInv'
    BY <2>1, <2>2, <2>3 DEF HoldersInv
  <2> QED
    BY <2>1, <2>2, <2>3, <2>4 DEF GoneIsGone, AskedInv
<1>3. CASE Released(d)
  <2>1. /\ served[d]
        /\ up' = [up EXCEPT ![d] = Tail(up[d])]
        /\ UNCHANGED <<pending, served, looking, link>>
    BY <1>3, HandledIsServed DEF Released
  <2>2. PICK c : holds' = IF holds[c.s].client = d THEN [holds EXCEPT ![c.s] = Free] ELSE holds
    BY <1>3 DEF Released
  <2>3. HoldersInv'
    BY <2>1, <2>2 DEF HoldersInv
  <2> QED
    BY <2>1, <2>2, <2>3 DEF GoneIsGone, AskedInv
<1>4. CASE Listed(d)
  <2>1. /\ served[d]
        /\ up' = [up EXCEPT ![d] = Tail(up[d])]
        /\ UNCHANGED <<holds, pending, served, looking, link>>
    BY <1>4, HandledIsServed DEF Listed, bridge
  <2> QED
    BY <2>1 DEF GoneIsGone, HoldersInv, AskedInv
<1>5. CASE Answered(d)
  <2>1. /\ served[d]
        /\ up' = [up EXCEPT ![d] = Tail(up[d])]
        /\ UNCHANGED <<served, looking, link>>
    BY <1>5, HandledIsServed DEF Answered
  <2>2. PICK c : c = Head(up[d])
    OBVIOUS
  <2>3. \/ UNCHANGED <<pending, holds>>
        \/ /\ pending[c.r].outcome = "asked" /\ pending[c.r].client = d
           /\ pending' = [pending EXCEPT ![c.r].outcome = c.o]
           /\ UNCHANGED holds \/ holds' = [holds EXCEPT ![pending[c.r].s] = Free]
    BY <1>5, <2>2 DEF Answered, Settle
  <2>4. HoldersInv'
    BY <2>1, <2>3 DEF HoldersInv
  <2>5. AskedInv'
    <3>1. ASSUME NEW r \in Request
          PROVE  /\ pending'[r].client = pending[r].client
                 /\ \/ pending'[r].outcome = pending[r].outcome
                    \/ pending[r].client = d
      BY <2>3
    <3> QED
      BY <2>1, <3>1 DEF AskedInv
  <2>6. ASSUME NEW r \in Request
        PROVE  pending'[r] = [s |-> pending'[r].s, client |-> pending'[r].client,
                              outcome |-> pending'[r].outcome]
    BY <2>3
  <2>7. IsMap(pending, Request)'
    BY <2>3
  <2>8. IsMap(holds, Session)'
    <3>1. CASE UNCHANGED holds
      BY <3>1
    <3>2. CASE holds' = [holds EXCEPT ![pending[Head(up[d]).r].s] = Free]
      BY <3>2
    <3> QED
      BY <2>3, <2>2, <3>1, <3>2
  <2> QED
    BY <2>1, <2>4, <2>5, <2>6, <2>7, <2>8 DEF GoneIsGone
<1>6. CASE Noticed(d)
  <2>1. /\ served' = [served EXCEPT ![d] = FALSE]
        /\ ~link[d] /\ looking[d] = <<>>
        /\ up' = [up EXCEPT ![d] = <<>>]
        /\ UNCHANGED <<looking, link>>
    BY <1>6 DEF Noticed, Safe
  <2>2. HoldersInv'
    BY <1>6, <2>1 DEF Noticed, FreedAll, HoldersInv
  <2>3. AskedInv'
    BY <1>6, <2>1 DEF Noticed, Unreached, AskedInv
  <2>4. GoneIsGone'
    BY <2>1 DEF GoneIsGone
  <2> QED
    BY <1>6, <2>1, <2>2, <2>3, <2>4 DEF Noticed, FreedAll, Unreached
<1> QED
  BY <1>1, <1>2, <1>3, <1>4, <1>5, <1>6 DEF BridgeNext
--------------------------------------------------------------------------------
LEMMA BreaksIInv ==
  ASSUME IInv, NEW d \in Desktop, Drop(d) \/ Quit(d) \/ Reload(d) \/ Connect(d)
  PROVE  IInv'
<1> USE DEF IInv, Maps, IsMap
<1>0. \A q \in {up, looking} : q[d] = <<>> => Orphaned(q[d]) = <<>>
  BY DEF Orphaned
<1>1. CASE Drop(d) \/ Quit(d)
  <2>1. /\ link' = [link EXCEPT ![d] = FALSE] /\ link[d]
        /\ up' = [up EXCEPT ![d] = Orphaned(up[d])]
        /\ looking' = [looking EXCEPT ![d] = Orphaned(looking[d])]
        /\ UNCHANGED <<holds, pending, served>>
    BY <1>1 DEF Drop, Quit
  <2> QED
    BY <2>1 DEF GoneIsGone, HoldersInv, AskedInv
<1>2. CASE Reload(d)
  <2>1. PICK q : up' = [up EXCEPT ![d] = q]
    BY <1>2 DEF Reload, SaysAll, Reports
  <2>2. /\ looking' = [looking EXCEPT ![d] = Orphaned(looking[d])]
        /\ UNCHANGED <<holds, pending, served, link>>
    BY <1>2 DEF Reload
  <2>3. served[d]
    BY <1>2 DEF Reload, GoneIsGone
  <2> QED
    BY <2>1, <2>2, <2>3 DEF GoneIsGone, HoldersInv, AskedInv
<1>3. CASE Connect(d)
  <2>1. PICK q : up' = [up EXCEPT ![d] = q]
    BY <1>3 DEF Connect, SaysAll, Reports
  <2>2. /\ link' = [link EXCEPT ![d] = TRUE] /\ served' = [served EXCEPT ![d] = TRUE]
        /\ UNCHANGED <<holds, pending, looking>>
    BY <1>3 DEF Connect
  <2> QED
    BY <2>1, <2>2 DEF GoneIsGone, HoldersInv, AskedInv
<1> QED
  BY <1>1, <1>2, <1>3

LEMMA NextIInv == Safe /\ IInv /\ [Next]_vars => IInv'
<1> SUFFICES ASSUME Safe, IInv, [Next]_vars
             PROVE  IInv'
  OBVIOUS
<1>1. ASSUME NEW d \in Desktop, WindowNext(d)
      PROVE  IInv'
  BY <1>1, WindowIInv
<1>2. ASSUME NEW d \in Desktop, BridgeNext(d)
      PROVE  IInv'
  BY <1>2, BridgeIInv
<1>3. ASSUME NEW d \in Desktop, Drop(d) \/ Quit(d) \/ Reload(d) \/ Connect(d)
      PROVE  IInv'
  BY <1>3, BreaksIInv
<1>4. ASSUME NEW r \in Request, NEW s \in Session, RequestHandoff(r, s)
      PROVE  IInv'
  <2>1. /\ pending' = [pending EXCEPT ![r] = [s |-> s, client |-> holds[s].client,
                                              outcome |-> Asked(holds[s])]]
        /\ UNCHANGED <<holds, served, looking, up, link>>
    BY <1>4 DEF RequestHandoff
  <2>2. Asked(holds[s]) = "asked" => holds[s].client \in Desktop /\ served[holds[s].client]
    BY DEF IInv, HoldersInv, Asked
  <2>3. AskedInv'
    BY <2>1, <2>2 DEF AskedInv, IInv, Maps, IsMap
  <2> QED
    BY <2>1, <2>3 DEF IInv, Maps, IsMap, GoneIsGone, HoldersInv
<1>5. ASSUME NEW r \in Request, TimesOut(r)
      PROVE  IInv'
  BY <1>5 DEF TimesOut, Settle, IInv, Maps, IsMap, GoneIsGone, HoldersInv, AskedInv
<1>6. CASE BridgeRestart
  <2>1. HoldersInv'
    BY <1>6 DEF BridgeRestart, HoldersInv
  <2>2. AskedInv'
    BY <1>6 DEF BridgeRestart, AskedInv
  <2>3. GoneIsGone'
    BY <1>6 DEF BridgeRestart, GoneIsGone
  <2> QED
    BY <1>6, <2>1, <2>2, <2>3 DEF BridgeRestart, IInv, Maps, IsMap
<1>7. CASE UNCHANGED vars
  BY <1>7, NothingOfIt DEF vars, bridge
<1> QED
  BY <1>1, <1>2, <1>3, <1>4, <1>5, <1>6, <1>7 DEF Next

\* Where no hold is taken for a desktop that has gone meanwhile, the bridge has
\* nothing left of a desktop it does not serve.
THEOREM Invariance == Safe /\ Spec => []IInv
<1> SUFFICES ASSUME Safe PROVE Spec => []IInv
  OBVIOUS
<1>1. IInv /\ [Next]_vars => IInv'
  BY NextIInv
<1> QED
  BY InitIInv, <1>1, PTL DEF Spec

\* The holds that agent/hold takes and releaseAll ends: none outlives the
\* connection of its desktop.
THEOREM HoldsEndWithTheirDesktop == Safe /\ Spec => []HoldsAreLive
<1>1. IInv => HoldsAreLive
  BY DEF IInv, HoldersInv, HoldsAreLive
<1> QED
  BY <1>1, Invariance, PTL

\* requestHandoff and releaseAll: nobody waits for a desktop that is not there.
THEOREM NobodyAsksTheGone == Safe /\ Spec => []AskedAreThere
<1>1. IInv => AskedAreThere
  BY DEF IInv, AskedInv, AskedAreThere
<1> QED
  BY <1>1, Invariance, PTL
--------------------------------------------------------------------------------
(* Reports *)

\* Tabs are numbered from 1.
LEMMA TabsAreNumbers == Session \subseteq Nat /\ \A s \in Session : s > 0
<1>1. Session \subseteq Nat \ {0}
  BY HoldsAssumption
<1> QED
  BY <1>1

\* A set of tabs that is not empty has a first.
LEMMA FirstIs ==
  ASSUME NEW S, S \subseteq Session, S # {}
  PROVE  First(S) \in S /\ \A u \in S : First(S) <= u
<1>1. S \subseteq Nat
  BY HoldsAssumption
<1>2. \E x \in S : \A y \in S : <<y, x>> \notin OpToRel(<, Nat)
  BY <1>1, NatLessThanWellFounded, WFMin
<1>3. \A x, y \in Nat : <<y, x>> \notin OpToRel(<, Nat) => x <= y
  BY DEF OpToRel
<1>4. \E x \in S : \A y \in S : x <= y
  BY <1>1, <1>2, <1>3
<1> QED
  BY <1>4 DEF First

\* What one call more does to a report, #sent and the calls: it says of a session
\* it may act on what it began with, and leaves nothing of it behind.
Went(p, t, by, g) ==
  /\ g.p \in Report /\ g.sent \in [Session -> Activity]
  /\ \A s \in Session : Stale(g.p, s) => Stale(p, s) /\ Aim(g.p, s) = Aim(p, s)
  /\ \A s \in Session : Stale(p, s) => Stale(g.p, s) \/ g.sent[s] = Aim(p, s)
  /\ \/ g.calls = <<>> /\ g.sent = t
     \/ \E s \in Session :
          /\ Stale(p, s) /\ g.sent = [t EXCEPT ![s] = Aim(p, s)]
          /\ \/ Aim(p, s) # "off" /\ g.calls = <<Hold(s, Aim(p, s), by)>>
             \/ Aim(p, s) = "off" /\ g.calls = <<Release(s, by)>>

\* #report's next call, of what it is to say and what was said.
LEMMA GoesOn ==
  ASSUME NEW p \in Report, p.phase # "none", NEW t \in [Session -> Activity], NEW by
  PROVE  Went(p, t, by, GoOn(p, t, by))
<1> DEFINE holding == p.phase = "holding"
           due == {s \in Session : holding /\ s > p.at /\ p.wanted[s] \notin {"off", t[s]}}
           gone == IF holding THEN {s \in Session : t[s] # "off" /\ p.wanted[s] = "off"}
                   ELSE p.rest
           g == GoOn(p, t, by)
<1>r. /\ p.wanted \in [Session -> Activity] /\ p.at \in Session \cup {0} /\ p.rest \subseteq Session
      /\ p.phase \in {"holding", "releasing"}
  BY DEF Report
<1>n. Session \subseteq Nat /\ p.at \in Nat /\ \A s \in Session : s \in Nat
  <2>1. p.at = 0 \/ p.at \in Session
    BY <1>r
  <2>2. CASE p.at = 0
    BY <2>2, TabsAreNumbers
  <2>3. CASE p.at \in Session
    BY <2>3, TabsAreNumbers
  <2> QED
    BY <2>1, <2>2, <2>3
<1>d. due \subseteq Session /\ gone \subseteq Session
  BY <1>r
<1>0. /\ Session \subseteq Nat
      /\ p.wanted \in [Session -> Activity] /\ p.at \in Nat /\ p.rest \subseteq Session
      /\ p.phase \in {"holding", "releasing"}
      /\ due \subseteq Session /\ gone \subseteq Session
  BY <1>r, <1>n, <1>d
<1>1. CASE due # {}
  <2>1. PICK s \in due : s = First(due) /\ \A u \in due : s <= u
    BY <1>0, <1>1, FirstIs
  <2>2. /\ g.p = [p EXCEPT !.at = s, !.waits = TRUE]
        /\ g.sent = [t EXCEPT ![s] = p.wanted[s]]
        /\ g.calls = <<Hold(s, p.wanted[s], by)>>
    BY <1>1, <2>1 DEF GoOn
  <2>13. s \in Session /\ holding /\ s > p.at /\ p.wanted[s] # "off" /\ p.wanted[s] \in Activity
    BY <1>0, <2>1
  <2>14. \A u \in Session : u > p.at /\ u < s => p.wanted[u] \in {"off", t[u]}
    <3> SUFFICES ASSUME NEW u \in Session, u > p.at, u < s, p.wanted[u] \notin {"off", t[u]} PROVE FALSE
      OBVIOUS
    <3>1. u \in due
      BY <2>13
    <3>2. u \in Nat /\ s \in Nat /\ s <= u
      BY <1>0, <2>1, <2>13, <3>1
    <3> QED
      BY <3>2
  <2>3. /\ s \in Session /\ holding /\ s > p.at /\ p.wanted[s] # "off" /\ p.wanted[s] \in Activity
        /\ \A u \in Session : u > p.at /\ u < s => p.wanted[u] \in {"off", t[u]}
    BY <2>13, <2>14
  <2>4. g.p \in Report
    BY <2>2, <2>3 DEF Report
  <2>5. g.p.phase = "holding" /\ g.p.at = s /\ g.p.wanted = p.wanted
    BY <2>2, <2>3 DEF Report
  <2> HIDE DEF g, due, gone
  <2>6. g.sent \in [Session -> Activity] /\ g.sent[s] = p.wanted[s] /\ \A u \in Session \ {s} : g.sent[u] = t[u]
    BY <2>2, <2>3
  <2>7. \A u \in Session : Stale(g.p, u) => Stale(p, u) /\ Aim(g.p, u) = Aim(p, u)
    <3> SUFFICES ASSUME NEW u \in Session, Stale(g.p, u) PROVE Stale(p, u) /\ Aim(g.p, u) = Aim(p, u)
      OBVIOUS
    <3>1. u > s \/ p.wanted[u] = "off"
      BY <2>5 DEF Stale
    <3>2. u \in Nat /\ s \in Nat /\ p.at \in Nat
      BY <1>0, <2>13
    <3>3. u > p.at \/ p.wanted[u] = "off"
      BY <2>13, <3>1, <3>2
    <3> QED
      BY <2>5, <2>13, <3>3 DEF Stale, Aim
  <2>8. \A u \in Session : Stale(p, u) => Stale(g.p, u) \/ g.sent[u] = Aim(p, u)
    <3> SUFFICES ASSUME NEW u \in Session, Stale(p, u), ~Stale(g.p, u) PROVE g.sent[u] = Aim(p, u)
      OBVIOUS
    <3>1. u > p.at /\ u <= s /\ p.wanted[u] # "off"
      BY <1>0, <2>3, <2>5 DEF Stale
    <3>2. u # s => p.wanted[u] = t[u]
      BY <1>0, <2>3, <3>1
    <3> QED
      BY <2>3, <2>6, <3>2 DEF Aim
  <2>9. Stale(p, s) /\ Aim(p, s) = p.wanted[s]
    BY <2>3 DEF Stale, Aim
  <2>10. \E u \in Session :
           /\ Stale(p, u) /\ g.sent = [t EXCEPT ![u] = Aim(p, u)]
           /\ Aim(p, u) # "off" /\ g.calls = <<Hold(u, Aim(p, u), by)>>
    BY <2>2, <2>3, <2>9
  <2>20. Went(p, t, by, g)
    BY <2>4, <2>6, <2>7, <2>8, <2>10 DEF Went
  <2> QED
    BY <2>20 DEF g
<1>2. CASE due = {} /\ gone # {}
  <2>1. PICK s \in gone : s = First(gone)
    BY <1>0, <1>2, FirstIs
  <2>2. /\ g.p = [p EXCEPT !.phase = "releasing", !.rest = gone \ {s}, !.waits = TRUE]
        /\ g.sent = [t EXCEPT ![s] = "off"]
        /\ g.calls = <<Release(s, by)>>
    BY <1>2, <2>1 DEF GoOn
  <2>3. s \in Session /\ Stale(p, s) /\ Aim(p, s) = "off"
    BY <1>0, <2>1 DEF Stale, Aim
  <2>4. g.p \in Report
    <3>1. gone \ {s} \subseteq Session
      BY <1>d
    <3> HIDE DEF gone
    <3> QED
      BY <2>2, <3>1 DEF Report
  <2>5. g.p.phase = "releasing" /\ g.p.rest = gone \ {s}
    BY <2>2 DEF Report
  <2>10. \A u \in gone : Stale(p, u) /\ Aim(p, u) = "off"
    BY <1>0 DEF Stale, Aim
  <2>11. \A u \in Session : Stale(p, u) /\ u \notin gone => t[u] = Aim(p, u)
    BY <1>0, <1>2 DEF Stale, Aim
  <2> HIDE DEF g, due, gone
  <2>6. g.sent \in [Session -> Activity] /\ g.sent[s] = "off" /\ \A u \in Session \ {s} : g.sent[u] = t[u]
    BY <2>2, <2>3 DEF Activity
  <2>7. \A u \in Session : Stale(g.p, u) => Stale(p, u) /\ Aim(g.p, u) = Aim(p, u)
    BY <2>5, <2>10 DEF Stale, Aim
  <2>8. \A u \in Session : Stale(p, u) => Stale(g.p, u) \/ g.sent[u] = Aim(p, u)
    <3> SUFFICES ASSUME NEW u \in Session, Stale(p, u), ~Stale(g.p, u) PROVE g.sent[u] = Aim(p, u)
      OBVIOUS
    <3>1. u \notin gone \/ u = s
      BY <2>5 DEF Stale
    <3> QED
      BY <2>3, <2>6, <2>11, <3>1
  <2>9. \E u \in Session :
          /\ Stale(p, u) /\ g.sent = [t EXCEPT ![u] = Aim(p, u)]
          /\ Aim(p, u) = "off" /\ g.calls = <<Release(u, by)>>
    BY <2>2, <2>3
  <2>20. Went(p, t, by, g)
    BY <2>4, <2>6, <2>7, <2>8, <2>9 DEF Went
  <2> QED
    BY <2>20 DEF g
<1>3. CASE due = {} /\ gone = {}
  <2>1. g.p = NoReport /\ g.sent = t /\ g.calls = <<>>
    BY <1>3 DEF GoOn
  <2>2. NoReport \in Report
    BY DEF NoReport, Report, Activity
  <2>3. \A u \in Session : Stale(p, u) => t[u] = Aim(p, u)
    BY <1>0, <1>3 DEF Stale, Aim
  <2>4. \A u \in Session : ~Stale(NoReport, u)
    BY DEF NoReport, Stale
  <2> HIDE DEF g, due, gone
  <2>5. \A u \in Session : Stale(g.p, u) => Stale(p, u) /\ Aim(g.p, u) = Aim(p, u)
    BY <2>1, <2>4
  <2>6. \A u \in Session : Stale(p, u) => Stale(g.p, u) \/ g.sent[u] = Aim(p, u)
    BY <2>1, <2>3
  <2>20. Went(p, t, by, g)
    BY <2>1, <2>2, <2>5, <2>6 DEF Went
  <2> QED
    BY <2>20 DEF g
<1> QED
  BY <1>1, <1>2, <1>3

\* A report says at once what no earlier tab is before.
LEMMA SaysAtOnce ==
  ASSUME NEW p \in Report, p.phase = "holding", NEW t \in [Session -> Activity], NEW by,
         NEW s \in Session, s > p.at, p.wanted[s] \notin {"off", t[s]},
         \A u \in Session : u > p.at /\ u < s => p.wanted[u] \in {"off", t[u]}
  PROVE  GoOn(p, t, by).calls = <<Hold(s, p.wanted[s], by)>>
<1> DEFINE due == {u \in Session : p.phase = "holding" /\ u > p.at /\ p.wanted[u] \notin {"off", t[u]}}
<1>r. p.at \in Session \cup {0}
  BY DEF Report
<1>0. Session \subseteq Nat /\ p.at \in Nat
  <2>1. p.at = 0 \/ p.at \in Session
    BY <1>r
  <2>2. CASE p.at = 0
    BY <2>2, TabsAreNumbers
  <2>3. CASE p.at \in Session
    BY <2>3, TabsAreNumbers
  <2> QED
    BY <2>1, <2>2, <2>3
<1>1. s \in due /\ \A u \in due : s <= u
  BY <1>0
<1>2. First(due) \in due /\ \A u \in due : First(due) <= u
  BY <1>1, FirstIs
<1>3. First(due) = s
  <2>1. First(due) <= s /\ s <= First(due) /\ First(due) \in Nat /\ s \in Nat
    BY <1>0, <1>1, <1>2
  <2> QED
    BY <2>1
<1> QED
  BY <1>1, <1>3 DEF GoOn
--------------------------------------------------------------------------------
(* Calls that are added and handled *)

LEMMA CallIs ==
  ASSUME NEW c \in Call
  PROVE  /\ c.by \in By /\ c.m \in {"hold", "release", "holds", "answer"}
         /\ c.m = "hold" => c \in HoldCall /\ c.s \in Session /\ c.a \in {"idle", "working"}
         /\ c.m = "release" => c.s \in Session
         /\ c.m = "answer" => c.r \in Request /\ c.o \in {"released", "busy"}
BY DEF Call, HoldCall, By, HoldBy, Activity

\* Where the calls are once one more is under way.
LEMMA AppendIs ==
  ASSUME NEW X, NEW q \in Seq(X), NEW c \in X
  PROVE  /\ Append(q, c) \in Seq(X) /\ DOMAIN Append(q, c) = 1 .. Len(q) + 1
         /\ DOMAIN q = 1 .. Len(q) /\ Len(q) \in Nat
         /\ \A i \in DOMAIN q : Append(q, c)[i] = q[i]
         /\ Append(q, c)[Len(q) + 1] = c
OBVIOUS

\* Where they are once the oldest is handled.
LEMMA TailIs ==
  ASSUME NEW X, NEW q \in Seq(X), q # <<>>
  PROVE  /\ Tail(q) \in Seq(X) /\ Head(q) \in X /\ Head(q) = q[1]
         /\ DOMAIN q = 1 .. Len(q) /\ Len(q) \in Nat \ {0}
         /\ DOMAIN Tail(q) = 1 .. Len(q) - 1
         /\ \A i \in DOMAIN Tail(q) : Tail(q)[i] = q[i + 1]
OBVIOUS

\* The same, with names for the length and the rest.
LEMMA TailGives ==
  ASSUME NEW X, NEW q \in Seq(X), q # <<>>
  PROVE  \E n \in Nat \ {0}, r \in Seq(X) :
           /\ r = Tail(q) /\ Head(q) = q[1]
           /\ DOMAIN r = 1 .. n - 1 /\ DOMAIN q = 1 .. n
           /\ \A i \in DOMAIN r : r[i] = q[i + 1]
<1>1. Len(q) \in Nat \ {0} /\ Tail(q) \in Seq(X)
  BY TailIs
<1> WITNESS Len(q) \in Nat \ {0}, Tail(q) \in Seq(X)
<1> QED
  BY TailIs

\* A call says what is kept of its session, and nothing of the others.
LEMMA ComesAppend ==
  ASSUME NEW q \in Seq(Call), NEW c \in Call, NEW s, NEW b, NEW a
  PROVE  /\ About(c, s) => Comes(Append(q, c), s, b, Said(c))
         /\ ~About(c, s) /\ Comes(q, s, b, a) => Comes(Append(q, c), s, b, a)
<1>1a. PICK n, r : n = Len(q) /\ r = Append(q, c)
  OBVIOUS
<1>1. /\ n \in Nat /\ r \in Seq(Call)
      /\ n = Len(q) /\ r = Append(q, c)
      /\ DOMAIN r = 1 .. n + 1 /\ DOMAIN q = 1 .. n
      /\ \A i \in 1 .. n : r[i] = q[i]
      /\ r[n + 1] = c
  BY <1>1a, AppendIs
<1>2. ASSUME About(c, s) PROVE Comes(r, s, b, Said(c))
  <2>1. n + 1 \in DOMAIN r /\ \A j \in DOMAIN r : ~(j > n + 1)
    BY <1>1
  <2> QED
    BY <1>1, <1>2, <2>1 DEF Comes
<1>3. ASSUME ~About(c, s), Comes(q, s, b, a) PROVE Comes(r, s, b, a)
  <2>1. \A j \in DOMAIN r : j = n + 1 \/ (j \in DOMAIN q /\ r[j] = q[j])
    BY <1>1
  <2>2. CASE b = a /\ \A i \in DOMAIN q : ~About(q[i], s)
    BY <1>1, <1>3, <2>1, <2>2 DEF Comes
  <2>3. CASE \E i \in DOMAIN q : /\ About(q[i], s) /\ Said(q[i]) = a
                                 /\ \A j \in DOMAIN q : j > i => ~About(q[j], s)
    <3>1. PICK i \in DOMAIN q : /\ About(q[i], s) /\ Said(q[i]) = a
                                /\ \A j \in DOMAIN q : j > i => ~About(q[j], s)
      BY <2>3
    <3>2. i \in DOMAIN r /\ r[i] = q[i]
      BY <1>1
    <3>3. \A j \in DOMAIN r : j > i => ~About(r[j], s)
      BY <1>1, <1>3, <2>1, <3>1
    <3> QED
      BY <3>1, <3>2, <3>3 DEF Comes
  <2> QED
    BY <1>3, <2>2, <2>3 DEF Comes
<1> QED
  BY <1>1, <1>2, <1>3

\* Handling the oldest call makes what it says of its session the one kept.
LEMMA ComesTail ==
  ASSUME NEW q \in Seq(Call), q # <<>>, NEW s, NEW b, NEW a, Comes(q, s, b, a)
  PROVE  Comes(Tail(q), s, IF About(Head(q), s) THEN Said(Head(q)) ELSE b, a)
<1>1. PICK n \in Nat \ {0}, r \in Seq(Call) :
        /\ r = Tail(q) /\ Head(q) = q[1]
        /\ DOMAIN r = 1 .. n - 1 /\ DOMAIN q = 1 .. n
        /\ \A i \in DOMAIN r : r[i] = q[i + 1]
  BY TailGives
<1>2. \A j \in DOMAIN r : j + 1 \in DOMAIN q /\ r[j] = q[j + 1] /\ j \in Int
  BY <1>1
<1>3. CASE b = a /\ \A i \in DOMAIN q : ~About(q[i], s)
  <2>1. ~About(q[1], s) /\ \A i \in DOMAIN r : ~About(r[i], s)
    BY <1>1, <1>2, <1>3
  <2> QED
    BY <1>1, <1>3, <2>1 DEF Comes
<1>4. CASE \E i \in DOMAIN q : /\ About(q[i], s) /\ Said(q[i]) = a
                               /\ \A j \in DOMAIN q : j > i => ~About(q[j], s)
  <2>1. PICK i \in DOMAIN q : /\ About(q[i], s) /\ Said(q[i]) = a
                              /\ \A j \in DOMAIN q : j > i => ~About(q[j], s)
    BY <1>4
  <2>2. CASE i = 1
    <3>1. \A j \in DOMAIN r : ~About(r[j], s)
      BY <1>1, <1>2, <2>1, <2>2
    <3> QED
      BY <1>1, <2>1, <2>2, <3>1 DEF Comes
  <2>3. CASE i # 1
    <3>1. i - 1 \in DOMAIN r /\ r[i - 1] = q[i] /\ i \in Int
      BY <1>1, <2>3
    <3>2. PICK k \in DOMAIN r : k = i - 1 /\ r[k] = q[i]
      BY <3>1
    <3>3. \A j \in DOMAIN r : j > k => ~About(r[j], s)
      BY <1>2, <2>1, <3>1, <3>2
    <3>4. Comes(r, s, IF About(q[1], s) THEN Said(q[1]) ELSE b, a)
      BY <2>1, <3>2, <3>3 DEF Comes
    <3> QED
      BY <1>1, <3>4
  <2> QED
    BY <2>2, <2>3
<1> QED
  BY <1>3, <1>4 DEF Comes

\* Whatever was kept before, it is what the calls say, or they say nothing.
LEMMA ComesAnyway ==
  ASSUME NEW q, NEW s, NEW b, NEW a, NEW c, Comes(q, s, b, a)
  PROVE  Comes(q, s, c, a) \/ (b = a /\ Comes(q, s, c, c))
BY DEF Comes

\* #converge's list still covers a session that a new call is not about.
LEMMA ListsAppend ==
  ASSUME NEW q \in Seq(Call), NEW x \in Call, NEW c, NEW s, ListsYet(q, c, s), ~About(x, s)
  PROVE  ListsYet(Append(q, x), c, s)
<1>1. CASE c.step # "asked"
  BY <1>1 DEF ListsYet
<1>2. CASE c.step = "asked"
  <2>1a. PICK n, r : n = Len(q) /\ r = Append(q, x)
    OBVIOUS
  <2>1. /\ n \in Nat /\ r \in Seq(Call)
        /\ r = Append(q, x)
        /\ DOMAIN r = 1 .. n + 1 /\ DOMAIN q = 1 .. n
        /\ \A i \in 1 .. n : r[i] = q[i]
        /\ r[n + 1] = x
    BY <2>1a, AppendIs
  <2>2. \A i, j \in DOMAIN q : q[i].m = "holds" /\ q[i].by = <<"converge">> /\ j > i => ~About(q[j], s)
    BY <1>2 DEF ListsYet
  <2>3. \A j \in DOMAIN r : j \in Int /\ (j = n + 1 \/ (j \in DOMAIN q /\ r[j] = q[j]))
    BY <2>1
  <2>4. ASSUME NEW i \in DOMAIN r, NEW j \in DOMAIN r, r[i].m = "holds", r[i].by = <<"converge">>, j > i
        PROVE  ~About(r[j], s)
    <3>1. CASE j = n + 1
      BY <2>1, <3>1
    <3>2. CASE j # n + 1
      <4>1. j \in 1 .. n /\ r[j] = q[j]
        BY <2>1, <2>3, <3>2
      <4>2. i \in DOMAIN q /\ r[i] = q[i]
        BY <2>1, <2>3, <2>4, <4>1
      <4> QED
        BY <2>1, <2>2, <2>4, <4>1, <4>2
    <3> QED
      BY <3>1, <3>2
  <2> QED
    BY <1>2, <2>1, <2>4 DEF ListsYet
<1> QED
  BY <1>1, <1>2

\* What #converge has yet to let go, once the oldest call is handled.
LEMMA ListsTail ==
  ASSUME NEW q \in Seq(Call), q # <<>>, NEW c, NEW s, ListsYet(q, c, s)
  PROVE  ListsYet(Tail(q), c, s)
<1>1. PICK n \in Nat \ {0}, r \in Seq(Call) :
        /\ r = Tail(q)
        /\ DOMAIN r = 1 .. n - 1 /\ DOMAIN q = 1 .. n
        /\ \A i \in DOMAIN r : r[i] = q[i + 1]
  BY TailGives
<1>2. \A j \in DOMAIN r : j + 1 \in DOMAIN q /\ r[j] = q[j + 1] /\ j \in Int
  BY <1>1
<1>3. CASE c.step # "asked"
  BY <1>3 DEF ListsYet
<1>4. CASE c.step = "asked"
  <2>1. \A i, j \in DOMAIN q : q[i].m = "holds" /\ q[i].by = <<"converge">> /\ j > i => ~About(q[j], s)
    BY <1>4 DEF ListsYet
  <2>2. ASSUME NEW i \in DOMAIN r, NEW j \in DOMAIN r, r[i].m = "holds", r[i].by = <<"converge">>, j > i
        PROVE  ~About(r[j], s)
    <3>1. i + 1 \in DOMAIN q /\ j + 1 \in DOMAIN q /\ j + 1 > i + 1
      BY <1>2, <2>2
    <3>2. r[i] = q[i + 1] /\ r[j] = q[j + 1]
      BY <1>2
    <3> QED
      BY <2>1, <2>2, <3>1, <3>2
  <2> QED
    BY <1>1, <1>4, <2>2 DEF ListsYet
<1> QED
  BY <1>3, <1>4

\* Nothing is kept of a session once the list is made, but what it holds.
LEMMA ListMade ==
  ASSUME NEW q \in Seq(Call), q # <<>>, NEW c, NEW s, NEW b,
         q[1].m = "holds", q[1].by = <<"converge">>,
         c.step = "asked", ListsYet(q, c, s)
  PROVE  Comes(Tail(q), s, b, b)
<1>1. PICK n \in Nat \ {0}, r \in Seq(Call) :
        /\ r = Tail(q)
        /\ DOMAIN r = 1 .. n - 1 /\ DOMAIN q = 1 .. n
        /\ \A i \in DOMAIN r : r[i] = q[i + 1]
  BY TailGives
<1>2. 1 \in DOMAIN q /\ \A j \in DOMAIN r : j + 1 \in DOMAIN q /\ r[j] = q[j + 1] /\ j + 1 > 1
  BY <1>1
<1>3. \A j \in DOMAIN q : j > 1 => ~About(q[j], s)
  BY <1>2 DEF ListsYet
<1>4. \A j \in DOMAIN r : ~About(r[j], s)
  BY <1>2, <1>3
<1> QED
  BY <1>1, <1>4 DEF Comes

\* Who waits for a new call is known, and waits for no other.
LEMMA ConvAppend ==
  ASSUME NEW q \in Seq(Call), NEW x \in Call, NEW c, NEW v, ConvBy(q, c),
         v = c \/ \A i \in DOMAIN q : q[i].by # <<"converge">>,
         x.by = <<"converge">> =>
           /\ \A i \in DOMAIN q : q[i].by # <<"converge">>
           /\ (x.m = "holds" /\ v.step = "asked") \/ (x.m = "release" /\ v.step = "waits")
  PROVE  ConvBy(Append(q, x), v)
<1>1. PICK n, z : n = Len(q) /\ z = Append(q, x)
  OBVIOUS
<1>2. /\ n \in Nat /\ z = Append(q, x)
      /\ DOMAIN z = 1 .. n + 1 /\ DOMAIN q = 1 .. n
      /\ \A i \in 1 .. n : z[i] = q[i]
      /\ z[n + 1] = x
  BY <1>1, AppendIs
<1>3. \A i \in DOMAIN z : (i = n + 1 /\ z[i] = x) \/ (i \in DOMAIN q /\ z[i] = q[i])
  BY <1>2
<1>4. ASSUME NEW i \in DOMAIN z, z[i].by = <<"converge">>
      PROVE  /\ (z[i].m = "holds" /\ v.step = "asked") \/ (z[i].m = "release" /\ v.step = "waits")
             /\ \A j \in DOMAIN z : z[j].by = <<"converge">> => j = i
  <2>1. CASE i = n + 1 /\ z[i] = x
    <3>1. /\ \A j \in DOMAIN q : q[j].by # <<"converge">>
          /\ (x.m = "holds" /\ v.step = "asked") \/ (x.m = "release" /\ v.step = "waits")
      BY <1>4, <2>1
    <3>2. \A j \in DOMAIN z : z[j].by = <<"converge">> => j = i
      BY <1>3, <2>1, <3>1
    <3> QED
      BY <2>1, <3>1, <3>2
  <2>2. CASE i \in DOMAIN q /\ z[i] = q[i]
    <3>1. v = c /\ x.by # <<"converge">>
      BY <1>4, <2>2
    <3>2. /\ (q[i].m = "holds" /\ c.step = "asked") \/ (q[i].m = "release" /\ c.step = "waits")
          /\ \A j \in DOMAIN q : q[j].by = <<"converge">> => j = i
      BY <1>4, <2>2 DEF ConvBy
    <3>3. \A j \in DOMAIN z : z[j].by = <<"converge">> => j = i
      BY <1>3, <3>1, <3>2
    <3> QED
      BY <2>2, <3>1, <3>2, <3>3
  <2> QED
    BY <1>3, <2>1, <2>2
<1> QED
  BY <1>2, <1>4 DEF ConvBy

\* Who waits for a call that is handled waits for no other.
LEMMA ConvTail ==
  ASSUME NEW q \in Seq(Call), q # <<>>, NEW c, ConvBy(q, c)
  PROVE  /\ ConvBy(Tail(q), c)
         /\ Head(q).by = <<"converge">> => \A v : ConvBy(Tail(q), v)
<1>1. PICK n \in Nat \ {0}, z \in Seq(Call) :
        /\ z = Tail(q) /\ Head(q) = q[1]
        /\ DOMAIN z = 1 .. n - 1 /\ DOMAIN q = 1 .. n
        /\ \A i \in DOMAIN z : z[i] = q[i + 1]
  BY TailGives
<1>2. 1 \in DOMAIN q /\ \A i \in DOMAIN z : i \in Int /\ i + 1 \in DOMAIN q /\ z[i] = q[i + 1] /\ i + 1 # 1
  BY <1>1
<1>3. ASSUME NEW i \in DOMAIN z, z[i].by = <<"converge">>
      PROVE  /\ (z[i].m = "holds" /\ c.step = "asked") \/ (z[i].m = "release" /\ c.step = "waits")
             /\ \A j \in DOMAIN z : z[j].by = <<"converge">> => j = i
             /\ q[1].by # <<"converge">>
  <2>1. PICK k \in DOMAIN q : k = i + 1 /\ q[k] = z[i] /\ k # 1
    BY <1>2
  <2>2. /\ (q[k].m = "holds" /\ c.step = "asked") \/ (q[k].m = "release" /\ c.step = "waits")
        /\ \A j \in DOMAIN q : q[j].by = <<"converge">> => j = k
    BY <1>3, <2>1 DEF ConvBy
  <2>3. ASSUME NEW j \in DOMAIN z, z[j].by = <<"converge">> PROVE j = i
    <3>1. j + 1 = k
      BY <1>2, <2>2, <2>3
    <3> QED
      BY <1>2, <2>1, <3>1
  <2> QED
    BY <1>2, <2>1, <2>2, <2>3
<1>4. ConvBy(z, c)
  BY <1>3 DEF ConvBy
<1>5. q[1].by = <<"converge">> => \A v : ConvBy(z, v)
  BY <1>3 DEF ConvBy
<1> QED
  BY <1>1, <1>4, <1>5

\* What was answered stands when one more call is under way: a hold of a session
\* that starts comes after it.
LEMMA AnswersAppend ==
  ASSUME NEW d, NEW q \in Seq(Call), NEW x \in Call, NEW w, NEW v, NEW asked, AnswersBy(d, q, w, asked),
         \A r \in Request : asked[r].outcome # "none" => asked[r].s \in Session,
         \A u \in Session : w[u] = "off" => v[u] = "off" \/ (x.m = "hold" /\ x.s = u),
         x.m = "answer" => LET h == asked[x.r]
                           IN h.outcome # "none" /\ (x.o = "released" => v[h.s] = "off")
  PROVE  AnswersBy(d, Append(q, x), v, asked)
<1>1a. PICK n, r : n = Len(q) /\ r = Append(q, x)
  OBVIOUS
<1>1. /\ n \in Nat /\ r \in Seq(Call)
      /\ r = Append(q, x)
      /\ DOMAIN r = 1 .. n + 1 /\ DOMAIN q = 1 .. n
      /\ \A i \in 1 .. n : r[i] = q[i]
      /\ r[n + 1] = x
  BY <1>1a, AppendIs
<1>2. \A i \in DOMAIN r : i \in Int /\ (i = n + 1 \/ (i \in DOMAIN q /\ r[i] = q[i] /\ n + 1 > i))
  BY <1>1
<1>3. n + 1 \in DOMAIN r /\ \A j \in DOMAIN q : j \in DOMAIN r /\ r[j] = q[j]
  BY <1>1
<1>4. ASSUME NEW i \in DOMAIN r, r[i].m = "answer"
      PROVE  LET h == asked[r[i].r]
             IN /\ h.outcome # "none"
                /\ r[i].o = "released" /\ h.outcome = "asked" /\ h.client = d =>
                     \/ v[h.s] = "off"
                     \/ \E j \in DOMAIN r : j > i /\ r[j].m = "hold" /\ r[j].s = h.s
  <2>1. CASE i = n + 1
    BY <1>1, <1>4, <2>1
  <2>2. CASE i # n + 1
    <3>1. i \in DOMAIN q /\ r[i] = q[i] /\ n + 1 > i
      BY <1>2, <2>2
    <3>2. PICK h : h = asked[q[i].r]
      OBVIOUS
    <3>3. /\ h.outcome # "none"
          /\ q[i].o = "released" /\ h.outcome = "asked" /\ h.client = d =>
               \/ w[h.s] = "off"
               \/ \E j \in DOMAIN q : j > i /\ q[j].m = "hold" /\ q[j].s = h.s
      BY <1>4, <3>1, <3>2 DEF AnswersBy
    <3>a. q[i] \in Call
      BY <1>1, <3>1
    <3>b. q[i].r \in Request /\ h.s \in Session
      BY <1>4, <3>1, <3>a, <3>2, <3>3, CallIs
    <3>4. w[h.s] = "off" => v[h.s] = "off" \/ \E j \in DOMAIN r : j > i /\ r[j].m = "hold" /\ r[j].s = h.s
      BY <1>1, <1>3, <3>1, <3>b
    <3>5. (\E j \in DOMAIN q : j > i /\ q[j].m = "hold" /\ q[j].s = h.s)
            => \E j \in DOMAIN r : j > i /\ r[j].m = "hold" /\ r[j].s = h.s
      BY <1>3
    <3> QED
      BY <3>1, <3>2, <3>3, <3>4, <3>5
  <2> QED
    BY <2>1, <2>2
<1>5. AnswersBy(d, r, v, asked)
  BY <1>4 DEF AnswersBy
<1> QED
  BY <1>1, <1>5

\* The answers behind the oldest call, once it is handled.
LEMMA AnswersTail ==
  ASSUME NEW d, NEW q \in Seq(Call), q # <<>>, NEW w, NEW asked, AnswersBy(d, q, w, asked)
  PROVE  AnswersBy(d, Tail(q), w, asked)
<1>1. PICK n \in Nat \ {0}, r \in Seq(Call) :
        /\ r = Tail(q)
        /\ DOMAIN r = 1 .. n - 1 /\ DOMAIN q = 1 .. n
        /\ \A i \in DOMAIN r : r[i] = q[i + 1]
  BY TailGives
<1>2. \A i \in DOMAIN r : i \in Int /\ i + 1 \in DOMAIN q /\ r[i] = q[i + 1]
  BY <1>1
<1>3. ASSUME NEW i \in DOMAIN r, r[i].m = "answer"
      PROVE  LET h == asked[r[i].r]
             IN /\ h.outcome # "none"
                /\ r[i].o = "released" /\ h.outcome = "asked" /\ h.client = d =>
                     \/ w[h.s] = "off"
                     \/ \E j \in DOMAIN r : j > i /\ r[j].m = "hold" /\ r[j].s = h.s
  <2>1. PICK k \in DOMAIN q : k = i + 1 /\ r[i] = q[k]
    BY <1>2
  <2>2. PICK h : h = asked[q[k].r]
    OBVIOUS
  <2>3. /\ h.outcome # "none"
        /\ q[k].o = "released" /\ h.outcome = "asked" /\ h.client = d =>
             \/ w[h.s] = "off"
             \/ \E j \in DOMAIN q : j > k /\ q[j].m = "hold" /\ q[j].s = h.s
    BY <1>3, <2>1, <2>2 DEF AnswersBy
  <2>4. ASSUME NEW j \in DOMAIN q, j > k
        PROVE  j - 1 \in DOMAIN r /\ j - 1 > i /\ r[j - 1] = q[j]
    BY <1>1, <1>2, <2>1, <2>4
  <2> QED
    BY <2>1, <2>2, <2>3, <2>4
<1>4. AnswersBy(d, r, w, asked)
  BY <1>3 DEF AnswersBy
<1> QED
  BY <1>1, <1>4
--------------------------------------------------------------------------------
(* A report goes on *)

\* What it says is a call.
LEMMA SaidIsCall ==
  ASSUME NEW s \in Session, NEW by \in By
  PROVE  /\ by \in HoldBy => \A a \in Activity \ {"off"} :
              /\ Hold(s, a, by) \in Call /\ About(Hold(s, a, by), s) /\ Said(Hold(s, a, by)) = a
              /\ \A u : u # s => ~About(Hold(s, a, by), u)
         /\ Release(s, by) \in Call /\ About(Release(s, by), s) /\ Said(Release(s, by)) = "off"
         /\ \A u : u # s => ~About(Release(s, by), u)
BY DEF Hold, Release, Call, HoldCall, By, About, Said

\* What it says, in g, joins the calls q: the bridge will keep what was said.
SaysOn(q, b, w, c, by, g) ==
  \/ g.calls = <<>> /\ SaidBy(q, b, g.sent, w, c)
  \/ \E x \in Call :
       /\ g.calls = <<x>> /\ x.m \in {"hold", "release"} /\ x.by = by
       /\ x.m = "hold" => x.s \in Session /\ w[x.s] # "off"
       /\ SaidBy(Append(q, x), b, g.sent, w, c) /\ ConvBy(Append(q, x), c)

\* The reports of a window, one of which goes on from p: what they may yet say
\* and what was said is still what its tabs run, and so is what the bridge will
\* keep.
LEMMA WindowGoes ==
  ASSUME NEW q \in Seq(Call), NEW b, NEW c,
         NEW t \in [Session -> Activity], NEW w \in [Session -> Activity],
         NEW P \in [Slot -> Report], NEW k \in Slot, NEW p \in Report, p.phase # "none",
         NEW by \in HoldBy, by # <<"converge">>,
         WantedBy([P EXCEPT ![k] = p], w), ToldBy([P EXCEPT ![k] = p], t, w),
         SaidBy(q, b, t, w, c), ConvBy(q, c),
         NEW g, g = GoOn(p, t, by)
  PROVE  /\ [P EXCEPT ![k] = g.p] \in [Slot -> Report] /\ g.sent \in [Session -> Activity]
         /\ WantedBy([P EXCEPT ![k] = g.p], w) /\ ToldBy([P EXCEPT ![k] = g.p], g.sent, w)
         /\ SaysOn(q, b, w, c, by, g)
<1> USE DEF SaysOn
<1>0. by \in By
  BY DEF By
<1>1. Went(p, t, by, g)
  BY GoesOn
<1>2. PICK P0, P1 : P0 = [P EXCEPT ![k] = p] /\ P1 = [P EXCEPT ![k] = g.p]
  OBVIOUS
<1>3. /\ P0 \in [Slot -> Report] /\ P1 \in [Slot -> Report] /\ P0[k] = p /\ P1[k] = g.p
      /\ \A j \in Slot \ {k} : P1[j] = P0[j]
  BY <1>1, <1>2 DEF Went
<1>4. \A s \in Session : Stale(p, s) => Aim(p, s) = w[s]
  BY <1>2, <1>3 DEF WantedBy
<1>5. WantedBy(P1, w)
  BY <1>1, <1>2, <1>3 DEF WantedBy, Went
<1>6. \A s \in Session : g.sent[s] # t[s] => g.sent[s] = w[s]
  BY <1>1, <1>4 DEF Went
<1>7. ToldBy(P1, g.sent, w)
  <2> SUFFICES ASSUME NEW s \in Session, g.sent[s] # w[s] PROVE \E j \in Slot : Stale(P1[j], s)
    BY DEF ToldBy
  <2>1. t[s] # w[s]
    BY <1>6
  <2>2. PICK j \in Slot : Stale(P0[j], s)
    BY <1>2, <2>1 DEF ToldBy
  <2>3. CASE j = k
    BY <1>1, <1>3, <1>4, <2>2, <2>3 DEF Went
  <2>4. CASE j # k
    BY <1>3, <2>2, <2>4
  <2> QED
    BY <2>3, <2>4
<1>8. CASE g.calls = <<>> /\ g.sent = t
  BY <1>1, <1>2, <1>3, <1>5, <1>7, <1>8
<1>9. CASE \E s \in Session :
             /\ Stale(p, s) /\ g.sent = [t EXCEPT ![s] = Aim(p, s)]
             /\ \/ Aim(p, s) # "off" /\ g.calls = <<Hold(s, Aim(p, s), by)>>
                \/ Aim(p, s) = "off" /\ g.calls = <<Release(s, by)>>
  <2>1. PICK s \in Session :
             /\ Stale(p, s) /\ g.sent = [t EXCEPT ![s] = Aim(p, s)]
             /\ \/ Aim(p, s) # "off" /\ g.calls = <<Hold(s, Aim(p, s), by)>>
                \/ Aim(p, s) = "off" /\ g.calls = <<Release(s, by)>>
    BY <1>9
  <2>2. Aim(p, s) = w[s] /\ w[s] \in Activity
    BY <1>4, <2>1
  <2>3. \E x \in Call :
          /\ g.calls = <<x>> /\ x.m \in {"hold", "release"} /\ x.by = by
          /\ x.m = "hold" => x.s = s /\ w[s] # "off"
          /\ About(x, s) /\ Said(x) = w[s] /\ \A u : u # s => ~About(x, u)
    <3>1. CASE w[s] # "off"
      <4>1. w[s] \in Activity \ {"off"}
        BY <2>2, <3>1
      <4>2. Hold(s, w[s], by).m = "hold" /\ Hold(s, w[s], by).s = s /\ Hold(s, w[s], by).by = by
        BY DEF Hold
      <4> QED
        BY <1>0, <2>1, <2>2, <3>1, <4>1, <4>2, SaidIsCall
    <3>2. CASE w[s] = "off"
      <4>1. Release(s, by).m = "release" /\ Release(s, by).by = by
        BY DEF Release
      <4> QED
        BY <1>0, <2>1, <2>2, <3>2, <4>1, SaidIsCall
    <3> QED
      BY <3>1, <3>2
  <2>4. PICK x \in Call :
          /\ g.calls = <<x>> /\ x.m \in {"hold", "release"} /\ x.by = by
          /\ x.m = "hold" => x.s = s /\ w[s] # "off"
          /\ About(x, s) /\ Said(x) = w[s] /\ \A u : u # s => ~About(x, u)
    BY <2>3
  <2>5. ConvBy(Append(q, x), c)
    BY <2>4, ConvAppend
  <2>6. SaidBy(Append(q, x), b, g.sent, w, c)
    <3>1. g.sent[s] = w[s] /\ \A u \in Session \ {s} : g.sent[u] = t[u]
      BY <2>1, <2>2
    <3>2. Comes(Append(q, x), s, b[s], w[s])
      BY <2>4, ComesAppend
    <3>3. ASSUME NEW u \in Session \ {s}
          PROVE  IF g.sent[u] # "off"
                 THEN Comes(Append(q, x), u, b[u], g.sent[u]) \/ (w[u] = "off" /\ Comes(Append(q, x), u, b[u], "off"))
                 ELSE Comes(Append(q, x), u, b[u], "off") \/ w[u] # "off" \/ ListsYet(Append(q, x), c, u)
      <4>1. IF t[u] # "off"
            THEN Comes(q, u, b[u], t[u]) \/ (w[u] = "off" /\ Comes(q, u, b[u], "off"))
            ELSE Comes(q, u, b[u], "off") \/ w[u] # "off" \/ ListsYet(q, c, u)
        BY DEF SaidBy
      <4>2. ~About(x, u) /\ g.sent[u] = t[u]
        BY <2>4, <3>1
      <4>3. \A a : Comes(q, u, b[u], a) => Comes(Append(q, x), u, b[u], a)
        BY <4>2, ComesAppend
      <4>4. ListsYet(q, c, u) => ListsYet(Append(q, x), c, u)
        BY <4>2, ListsAppend
      <4> QED
        BY <4>1, <4>2, <4>3, <4>4
    <3> QED
      BY <3>1, <3>2, <3>3 DEF SaidBy
  <2> QED
    BY <1>1, <1>2, <1>3, <1>5, <1>7, <2>4, <2>5, <2>6 DEF Went
<1> QED
  BY <1>1, <1>8, <1>9 DEF Went

\* A new report began with what the tabs run.
Begun(w) == [NoReport EXCEPT !.phase = "holding", !.wanted = w]
\* A report that begins has all its tabs before it.
LEMMA BegunIs ==
  ASSUME NEW w \in [Session -> Activity]
  PROVE  /\ Begun(w) \in Report /\ Begun(w).phase = "holding" /\ Begun(w).at = 0 /\ Begun(w).wanted = w
         /\ \A s \in Session : Stale(Begun(w), s) /\ Aim(Begun(w), s) = w[s]
<1>1. PICK n \in Report : n = NoReport /\ n.at = 0
  <2>1. NoReport \in Report /\ NoReport.at = 0
    BY DEF NoReport, Report, Activity
  <2> QED
    BY <2>1
<1>2. PICK p : p = [n EXCEPT !.phase = "holding", !.wanted = w] /\ p = Begun(w)
  BY <1>1 DEF Begun
<1>3. p \in Report /\ p.phase = "holding" /\ p.at = 0 /\ p.wanted = w
  BY <1>1, <1>2 DEF Report
<1>4. \A s \in Session : Stale(p, s) /\ Aim(p, s) = w[s]
  BY <1>3, TabsAreNumbers DEF Stale, Aim
<1> QED
  BY <1>2, <1>3, <1>4
--------------------------------------------------------------------------------
(* Types *)

LetGoType == [step : {"no", "stopping", "waits", "goes"}, s : Session \cup {0}]
ConvType == [step : {"no", "asked", "listed", "waits", "goes"}, left : SUBSET Session]

\* Who waits for an answer.
LEMMA ByIs ==
  ASSUME NEW by \in By
  PROVE  /\ by[1] = "report" => by[2] \in Slot
         /\ by[1] = "letgo" => by[2] \in Reason
         /\ by[1] = "converge" <=> by = <<"converge">>
         /\ by[1] = "letgo" => by = <<"letgo", by[2]>>
BY DEF By, HoldBy

\* What waits for threadForSession is a call.
LEMMA HoldIsCall == HoldCall \subseteq Call
BY DEF Call

\* A call nobody waits for any more is the same call.
LEMMA OrphanedIs ==
  ASSUME NEW q, q \in Seq(Call) \/ q \in Seq(HoldCall)
  PROVE  /\ q \in Seq(Call) => Orphaned(q) \in Seq(Call)
         /\ q \in Seq(HoldCall) => Orphaned(q) \in Seq(HoldCall)
         /\ DOMAIN Orphaned(q) = DOMAIN q
         /\ \A i \in DOMAIN q : /\ Orphaned(q)[i] = [q[i] EXCEPT !.by = <<"nobody">>]
                                /\ Orphaned(q)[i].by = <<"nobody">> /\ Orphaned(q)[i].m = q[i].m
<1>1. \A c \in HoldCall : LET e == [c EXCEPT !.by = <<"nobody">>]
                          IN e \in HoldCall /\ e.by = <<"nobody">> /\ e.m = c.m
  BY DEF HoldCall, HoldBy
<1>2. \A c \in Call : LET e == [c EXCEPT !.by = <<"nobody">>]
                      IN e \in Call /\ e.by = <<"nobody">> /\ e.m = c.m
  BY DEF Call, HoldCall, By, HoldBy
<1>3. DOMAIN q = 1 .. Len(q) /\ Len(q) \in Nat
  OBVIOUS
<1>4. Orphaned(q) = [i \in 1 .. Len(q) |-> [q[i] EXCEPT !.by = <<"nobody">>]]
  BY <1>3 DEF Orphaned
<1>5. CASE q \in Seq(HoldCall)
  <2>1. \A i \in 1 .. Len(q) : q[i] \in HoldCall
    BY <1>5
  <2>2. Orphaned(q) \in Seq(HoldCall)
    BY <1>1, <1>3, <1>4, <2>1
  <2>3. q \in Seq(Call) => Orphaned(q) \in Seq(Call)
    BY <1>2, <1>3, <1>4
  <2>4. DOMAIN Orphaned(q) = DOMAIN q /\ \A i \in DOMAIN q : Orphaned(q)[i] = [q[i] EXCEPT !.by = <<"nobody">>]
    BY <1>3, <1>4
  <2>5. \A i \in DOMAIN q : q[i] \in HoldCall
    BY <1>3, <2>1
  <2>6. ASSUME NEW i \in DOMAIN q PROVE Orphaned(q)[i].by = <<"nobody">> /\ Orphaned(q)[i].m = q[i].m
    <3>1. PICK c \in HoldCall : c = q[i]
      BY <2>5
    <3>2. [c EXCEPT !.by = <<"nobody">>].by = <<"nobody">> /\ [c EXCEPT !.by = <<"nobody">>].m = c.m
      BY <1>1
    <3> QED
      BY <2>4, <3>1, <3>2
  <2> QED
    BY <1>5, <2>2, <2>3, <2>4, <2>6
<1>6. CASE q \in Seq(Call) /\ q \notin Seq(HoldCall)
  <2>1. \A i \in 1 .. Len(q) : q[i] \in Call
    BY <1>6
  <2>2. Orphaned(q) \in Seq(Call)
    BY <1>2, <1>3, <1>4, <2>1
  <2>4. DOMAIN Orphaned(q) = DOMAIN q /\ \A i \in DOMAIN q : Orphaned(q)[i] = [q[i] EXCEPT !.by = <<"nobody">>]
    BY <1>3, <1>4
  <2>5. \A i \in DOMAIN q : q[i] \in Call
    BY <1>3, <2>1
  <2>6. ASSUME NEW i \in DOMAIN q PROVE Orphaned(q)[i].by = <<"nobody">> /\ Orphaned(q)[i].m = q[i].m
    <3>1. PICK c \in Call : c = q[i]
      BY <2>5
    <3>2. [c EXCEPT !.by = <<"nobody">>].by = <<"nobody">> /\ [c EXCEPT !.by = <<"nobody">>].m = c.m
      BY <1>2
    <3> QED
      BY <2>4, <3>1, <3>2
  <2> QED
    BY <1>6, <2>2, <2>4, <2>6
<1> QED
  BY <1>5, <1>6

\* What a report goes on to is a report, and its call a call.
LEMMA GoOnTypes ==
  ASSUME NEW p \in Report, p.phase # "none", NEW t \in [Session -> Activity], NEW by \in HoldBy
  PROVE  /\ GoOn(p, t, by).p \in Report /\ GoOn(p, t, by).sent \in [Session -> Activity]
         /\ GoOn(p, t, by).calls \in Seq(Call)
<1>0. by \in By
  BY DEF By
<1>1. PICK g : g = GoOn(p, t, by) /\ Went(p, t, by, g)
  BY GoesOn
<1>2. g.calls \in Seq(Call)
  <2>1. CASE g.calls = <<>>
    BY <2>1
  <2>2. CASE g.calls # <<>>
    <3>1. PICK s \in Session :
             \/ Aim(p, s) # "off" /\ g.calls = <<Hold(s, Aim(p, s), by)>>
             \/ Aim(p, s) = "off" /\ g.calls = <<Release(s, by)>>
      BY <1>1, <2>2 DEF Went
    <3>2. Aim(p, s) \in Activity
      BY DEF Aim, Report, Activity
    <3>3. \E x \in Call : g.calls = <<x>>
      <4>1. CASE Aim(p, s) # "off"
        <5>1. Aim(p, s) \in Activity \ {"off"}
          BY <3>2, <4>1
        <5> QED
          BY <1>0, <3>1, <4>1, <5>1, SaidIsCall
      <4>2. CASE Aim(p, s) = "off"
        BY <1>0, <3>1, <4>2, SaidIsCall
      <4> QED
        BY <4>1, <4>2
    <3> QED
      BY <3>3
  <2> QED
    BY <2>1, <2>2
<1> QED
  BY <1>1, <1>2 DEF Went

\* How a new report begins, in slot k: what it goes on to there.
Begins(d, w, t, p, before, after, k, g) ==
  /\ g = GoOn(Begun(w), t, <<"report", k>>) /\ p[k].phase = "none"
  /\ report' = [report EXCEPT ![d] = [p EXCEPT ![k] = g.p]]
  /\ sent' = [sent EXCEPT ![d] = g.sent]
  /\ up' = [up EXCEPT ![d] = before \o g.calls \o after]

\* A report begins in the first slot that is free.
LEMMA ReportsAre ==
  ASSUME NEW d, NEW w, NEW t, NEW p, NEW before, NEW after, Reports(d, w, t, p, before, after)
  PROVE  \E k \in Slot : \E g : Begins(d, w, t, p, before, after, k, g)
BY DEF Reports, Begun, Begins

\* Types after a report begins.
LEMMA ReportsTypes ==
  ASSUME TypesInv, NEW d \in Desktop, NEW w \in [Session -> Activity], NEW t \in [Session -> Activity],
         NEW p \in [Slot -> Report], NEW before \in Seq(Call), NEW after \in Seq(Call),
         Reports(d, w, t, p, before, after)
  PROVE  /\ report' \in [Desktop -> [Slot -> Report]] /\ sent' \in [Desktop -> [Session -> Activity]]
         /\ up' \in [Desktop -> Seq(Call)]
<1>0. PICK k \in Slot : \E g : Begins(d, w, t, p, before, after, k, g)
  BY ReportsAre
<1>1. PICK g : Begins(d, w, t, p, before, after, k, g)
  BY <1>0
<1>2. Begun(w) \in Report /\ Begun(w).phase # "none" /\ <<"report", k>> \in HoldBy
  BY BegunIs DEF HoldBy
<1>3. g.p \in Report /\ g.sent \in [Session -> Activity] /\ g.calls \in Seq(Call)
  BY <1>1, <1>2, GoOnTypes DEF Begins
<1>4. before \o g.calls \o after \in Seq(Call)
  BY <1>3
<1> QED
  BY <1>1, <1>3, <1>4 DEF Begins, TypesInv, TypeOK, CallTypes

\* Types after what the tabs run changed.
LEMMA TellsTypes ==
  ASSUME TypesInv, NEW d \in Desktop, NEW w \in [Session -> Activity], NEW t \in [Session -> Activity],
         NEW before \in Seq(Call), Tells(d, w, t, before)
  PROVE  /\ report' \in [Desktop -> [Slot -> Report]] /\ sent' \in [Desktop -> [Session -> Activity]]
         /\ up' \in [Desktop -> Seq(Call)]
<1>1. report[d] \in [Slot -> Report] /\ <<>> \in Seq(Call)
  BY DEF TypesInv, TypeOK
<1> QED
  BY <1>1, ReportsTypes DEF Tells, TypesInv, TypeOK, CallTypes

\* Types after an answer.
LEMMA RepliesTypes ==
  ASSUME TypesInv, NEW d \in Desktop, NEW by \in By, Replies(d, by)
  PROVE  /\ report' \in [Desktop -> [Slot -> Report]] /\ conv' \in [Desktop -> ConvType]
         /\ letgo' \in [Desktop -> [Reason -> LetGoType]]
<1>1. /\ report \in [Desktop -> [Slot -> Report]] /\ conv \in [Desktop -> ConvType]
      /\ letgo \in [Desktop -> [Reason -> LetGoType]]
  BY DEF TypesInv, TypeOK, CallTypes, LetGoType, ConvType
<1>2. report' \in [Desktop -> [Slot -> Report]]
  <2>1. CASE by[1] = "report"
    <3>1. PICK k \in Slot : k = by[2]
      BY <2>1, ByIs
    <3>2. report' = [report EXCEPT ![d][k].waits = FALSE]
      BY <2>1, <3>1 DEF Replies
    <3>a. \A x \in Report : [x EXCEPT !.waits = FALSE] \in Report
      BY DEF Report
    <3>3. [report[d][k] EXCEPT !.waits = FALSE] \in Report
      BY <1>1, <3>a
    <3>4. report' = [report EXCEPT ![d] = [report[d] EXCEPT ![k] = [report[d][k] EXCEPT !.waits = FALSE]]]
      BY <3>2
    <3> QED
      BY <1>1, <3>3, <3>4
  <2>2. CASE by[1] # "report"
    BY <1>1, <2>2 DEF Replies
  <2> QED
    BY <2>1, <2>2
<1>3. conv' \in [Desktop -> ConvType]
  BY <1>1 DEF Replies, ConvType
<1>4. letgo' \in [Desktop -> [Reason -> LetGoType]]
  <2>1. CASE by[1] = "letgo"
    <3>1. PICK r \in Reason : r = by[2]
      BY <2>1, ByIs
    <3>2. letgo' = [letgo EXCEPT ![d][r].step = "goes"]
      BY <2>1, <3>1 DEF Replies
    <3>a. \A x \in LetGoType : [x EXCEPT !.step = "goes"] \in LetGoType
      BY DEF LetGoType
    <3>3. [letgo[d][r] EXCEPT !.step = "goes"] \in LetGoType
      BY <1>1, <3>a
    <3>4. letgo' = [letgo EXCEPT ![d] = [letgo[d] EXCEPT ![r] = [letgo[d][r] EXCEPT !.step = "goes"]]]
      BY <3>2
    <3> QED
      BY <1>1, <3>3, <3>4
  <2>2. CASE by[1] # "letgo"
    BY <1>1, <2>2 DEF Replies
  <2> QED
    BY <2>1, <2>2
<1> QED
  BY <1>2, <1>3, <1>4

\* The types of what a window has, and of its calls.
WindowTypes ==
  /\ run \in [Desktop -> [Session -> Activity]] /\ sent \in [Desktop -> [Session -> Activity]]
  /\ report \in [Desktop -> [Slot -> Report]] /\ letgo \in [Desktop -> [Reason -> LetGoType]]
  /\ conv \in [Desktop -> ConvType] /\ link \in [Desktop -> BOOLEAN]
  /\ up \in [Desktop -> Seq(Call)] /\ asks \in [Desktop -> SUBSET Request]

\* The types of what the bridge has.
BridgeTypes ==
  /\ holds \in [Session -> [client : Desktop \cup {NoOne}, busy : BOOLEAN]]
  /\ \A s \in Session : holds[s].client = NoOne => holds[s] = Free
  /\ pending \in [Request -> [s : Session \cup {0}, client : Desktop \cup {NoOne}, outcome : Outcome]]
  /\ \A r \in Request : pending[r].outcome = "asked" => pending[r].client \in Desktop
  /\ served \in [Desktop -> BOOLEAN]
  /\ looking \in [Desktop -> Seq(HoldCall)]

\* The types, window and bridge apart.
LEMMA TypesAre == TypesInv <=> WindowTypes /\ BridgeTypes /\ LetGoInv
BY DEF TypesInv, TypeOK, CallTypes, WindowTypes, BridgeTypes, LetGoType, ConvType

\* A window that has said nothing.
LEMMA AllOffIs == AllOff \in [Session -> Activity] /\ [k \in Slot |-> NoReport] \in [Slot -> Report]
<1>1. NoReport \in Report
  BY DEF NoReport, Report, Activity
<1>2. AllOff \in [Session -> Activity]
  BY DEF AllOff, Activity
<1> QED
  BY <1>1, <1>2

\* Types after a step of a window.
LEMMA WindowStepTypes ==
  ASSUME TypesInv, NEW d \in Desktop, WindowNext(d)
  PROVE  WindowTypes' /\ BridgeTypes'
<1>1. WindowTypes /\ BridgeTypes /\ LetGoInv
  BY TypesAre
<1>2. BridgeTypes'
  <2>1. UNCHANGED bridge
    BY DEF WindowNext, Change, ReportGoes, ConvergeGoes, ContinueAsChat, HandoffRequested, Stopped, StopFails, LetGo
  <2> QED
    BY <1>1, <2>1 DEF bridge, BridgeTypes
<1> USE DEF WindowTypes
<1>b. \A by \in {<<"converge">>} \cup {<<"letgo", r>> : r \in Reason}, s \in Session : Release(s, by) \in Call
  BY SaidIsCall DEF By
<1>c. /\ \A r \in Request, o \in {"released", "busy"} : Answer(r, o) \in Call
      /\ up[d] \in Seq(Call) /\ \A c \in Call : Append(up[d], c) \in Seq(Call)
  <2>1. up[d] \in Seq(Call)
    BY <1>1
  <2> QED
    BY <2>1 DEF Answer, Call
<1>3. WindowTypes'
  <2>1. ASSUME NEW s \in Session, NEW a \in Activity, Change(d, s, a) PROVE WindowTypes'
    <3>1. run' = [run EXCEPT ![d][s] = a] /\ Tells(d, run'[d], sent[d], up[d])
          /\ UNCHANGED <<asks, link, conv, letgo>>
      BY <2>1 DEF Change
    <3>2. run' \in [Desktop -> [Session -> Activity]]
      BY <1>1, <3>1
    <3>3. PICK w \in [Session -> Activity] : w = run'[d]
      BY <3>2
    <3>4. sent[d] \in [Session -> Activity] /\ up[d] \in Seq(Call)
      BY <1>1
    <3>5. /\ report' \in [Desktop -> [Slot -> Report]] /\ sent' \in [Desktop -> [Session -> Activity]]
          /\ up' \in [Desktop -> Seq(Call)]
      BY <3>1, <3>3, <3>4, TellsTypes
    <3> QED
      BY <1>1, <3>1, <3>2, <3>5
  <2>2. ASSUME NEW k \in Slot, ReportGoes(d, k) PROVE WindowTypes'
    <3>1. PICK g : g = GoOn(report[d][k], sent[d], <<"report", k>>)
      OBVIOUS
    <3>2. /\ report' = [report EXCEPT ![d][k] = g.p] /\ sent' = [sent EXCEPT ![d] = g.sent]
          /\ up' = [up EXCEPT ![d] = up[d] \o g.calls]
          /\ UNCHANGED <<asks, link, run, conv, letgo>> /\ report[d][k].phase # "none"
      BY <2>2, <3>1 DEF ReportGoes
    <3>3. g.p \in Report /\ g.sent \in [Session -> Activity] /\ g.calls \in Seq(Call)
      <4>1. report[d][k] \in Report /\ sent[d] \in [Session -> Activity] /\ <<"report", k>> \in HoldBy
        BY <1>1 DEF HoldBy
      <4> QED
        BY <3>1, <3>2, <4>1, GoOnTypes
    <3>4. up[d] \o g.calls \in Seq(Call)
      BY <1>c, <3>3
    <3> QED
      BY <1>1, <3>2, <3>3, <3>4
  <2>3. CASE ConvergeGoes(d)
    <3>1. /\ \/ conv' = [conv EXCEPT ![d] = NoConv] /\ UNCHANGED up
             \/ \E s \in Session, l \in SUBSET Session :
                  /\ conv' = [conv EXCEPT ![d] = [step |-> "waits", left |-> l]]
                  /\ up' = [up EXCEPT ![d] = Append(up[d], Release(s, <<"converge">>))]
          /\ UNCHANGED <<asks, link, run, sent, report, letgo>>
      <4>1. PICK left : left = IF conv[d].step = "goes" THEN conv[d].left
                               ELSE {s \in conv[d].left : run[d][s] = "off"}
        OBVIOUS
      <4>2. left \subseteq Session
        BY <1>1, <4>1 DEF ConvType
      <4>3. \/ conv' = [conv EXCEPT ![d] = NoConv] /\ UNCHANGED up
            \/ \E s \in {s \in left : sent[d][s] = "off"} :
                 /\ conv' = [conv EXCEPT ![d] = [step |-> "waits", left |-> left \ {s}]]
                 /\ up' = [up EXCEPT ![d] = Append(up[d], Release(s, <<"converge">>))]
        BY <2>3, <4>1 DEF ConvergeGoes
      <4>4. left \in SUBSET Session /\ \A s : left \ {s} \in SUBSET Session
        BY <4>2
      <4> QED
        BY <2>3, <4>3, <4>4 DEF ConvergeGoes
    <3>2. NoConv \in ConvType /\ \A l \in SUBSET Session : [step |-> "waits", left |-> l] \in ConvType
      BY DEF NoConv, ConvType
    <3>3. conv' \in [Desktop -> ConvType] /\ up' \in [Desktop -> Seq(Call)]
      <4>1. CASE conv' = [conv EXCEPT ![d] = NoConv] /\ UNCHANGED up
        BY <1>1, <3>2, <4>1
      <4>2. ASSUME NEW s \in Session, NEW l \in SUBSET Session,
                   conv' = [conv EXCEPT ![d] = [step |-> "waits", left |-> l]],
                   up' = [up EXCEPT ![d] = Append(up[d], Release(s, <<"converge">>))]
            PROVE  conv' \in [Desktop -> ConvType] /\ up' \in [Desktop -> Seq(Call)]
        <5>1. PICK c \in ConvType : conv' = [conv EXCEPT ![d] = c]
          BY <3>2, <4>2
        <5>2. PICK q \in Seq(Call) : up' = [up EXCEPT ![d] = q]
          BY <1>b, <1>c, <4>2
        <5> QED
          BY <1>1, <5>1, <5>2
      <4> QED
        BY <3>1, <4>1, <4>2
    <3> QED
      BY <1>1, <3>1, <3>3
  <2>4. ASSUME NEW s \in Session, ContinueAsChat(d, s) PROVE WindowTypes'
    <3>1. letgo' = [letgo EXCEPT ![d][Chat] = [step |-> "stopping", s |-> s]]
          /\ UNCHANGED <<up, asks, link, run, sent, report, conv>>
      BY <2>4 DEF ContinueAsChat, LetsGo
    <3>2. Chat \in Reason /\ [step |-> "stopping", s |-> s] \in LetGoType
      BY DEF Reason, LetGoType
    <3> QED
      BY <1>1, <3>1, <3>2
  <2>5. ASSUME NEW r \in Request, HandoffRequested(d, r) PROVE WindowTypes'
    <3>1. /\ asks' = [asks EXCEPT ![d] = @ \ {r}]
          /\ \/ UNCHANGED letgo /\ \E o \in {"released", "busy"} : up' = [up EXCEPT ![d] = Append(up[d], Answer(r, o))]
             \/ letgo' = [letgo EXCEPT ![d][r] = [step |-> "stopping", s |-> pending[r].s]] /\ UNCHANGED up
          /\ UNCHANGED <<link, run, sent, report, conv>>
      BY <2>5 DEF HandoffRequested, Says, LetsGo
    <3>2. r \in Reason /\ [step |-> "stopping", s |-> pending[r].s] \in LetGoType
      BY <1>1 DEF Reason, LetGoType, BridgeTypes
    <3>3. letgo' \in [Desktop -> [Reason -> LetGoType]]
      <4>1. PICK x \in LetGoType : x = [step |-> "stopping", s |-> pending[r].s]
        BY <3>2
      <4>2. CASE letgo' = [letgo EXCEPT ![d][r] = [step |-> "stopping", s |-> pending[r].s]]
        <5>1. letgo' = [letgo EXCEPT ![d] = [letgo[d] EXCEPT ![r] = x]]
          BY <4>1, <4>2
        <5> QED
          BY <1>1, <3>2, <5>1
      <4>3. CASE UNCHANGED letgo
        BY <1>1, <4>3
      <4> QED
        BY <3>1, <4>2, <4>3
    <3>4. up' \in [Desktop -> Seq(Call)]
      <4>1. ASSUME NEW o \in {"released", "busy"}, up' = [up EXCEPT ![d] = Append(up[d], Answer(r, o))], r \in Request
            PROVE  up' \in [Desktop -> Seq(Call)]
        <5>1. PICK q \in Seq(Call) : up' = [up EXCEPT ![d] = q]
          BY <1>c, <4>1
        <5> QED
          BY <1>1, <5>1
      <4>2. CASE UNCHANGED up
        BY <1>1, <4>2
      <4> QED
        BY <3>1, <4>1, <4>2
    <3> QED
      BY <1>1, <3>1, <3>3, <3>4
  <2>6. ASSUME NEW r \in Reason, Stopped(d, r) PROVE WindowTypes'
    <3>1. PICK s, off : s = letgo[d][r].s /\ off = [run[d] EXCEPT ![s] = "off"]
      OBVIOUS
    <3>2. /\ run' = [run EXCEPT ![d] = off]
          /\ letgo' = [letgo EXCEPT ![d][r] = IF link[d] THEN [@ EXCEPT !.step = "waits"] ELSE NotLettingGo]
          /\ Tells(d, off, [sent[d] EXCEPT ![s] = "off"], Append(up[d], Release(s, <<"letgo", r>>)))
          /\ UNCHANGED <<asks, link, conv>>
      BY <2>6, <3>1 DEF Stopped
    <3>3. off \in [Session -> Activity] /\ [sent[d] EXCEPT ![s] = "off"] \in [Session -> Activity]
      BY <1>1, <3>1 DEF Activity
    <3>4. s \in Session
      BY <1>1, <2>6, <3>1 DEF LetGoInv, Stopped
    <3>5. letgo' \in [Desktop -> [Reason -> LetGoType]]
      <4>1. \A x \in LetGoType : [x EXCEPT !.step = "waits"] \in LetGoType
        BY DEF LetGoType
      <4>2. NotLettingGo \in LetGoType
        BY DEF LetGoType, NotLettingGo
      <4>3. PICK x \in LetGoType : letgo' = [letgo EXCEPT ![d] = [letgo[d] EXCEPT ![r] = x]]
        BY <1>1, <3>2, <4>1, <4>2
      <4> QED
        BY <1>1, <4>3
    <3>6. /\ report' \in [Desktop -> [Slot -> Report]] /\ sent' \in [Desktop -> [Session -> Activity]]
          /\ up' \in [Desktop -> Seq(Call)]
      <4>1. CASE link[d]
        <5>1. Append(up[d], Release(s, <<"letgo", r>>)) \in Seq(Call)
          BY <1>b, <1>c, <3>4
        <5> QED
          BY <3>2, <3>3, <5>1, TellsTypes
      <4>2. CASE ~link[d]
        BY <1>1, <3>2, <3>3, <4>2 DEF Tells
      <4> QED
        BY <4>1, <4>2
    <3> QED
      BY <1>1, <3>2, <3>3, <3>5, <3>6
  <2>7. ASSUME NEW r \in Reason, StopFails(d, r) \/ LetGo(d, r) PROVE WindowTypes'
    <3>1. /\ letgo' = [letgo EXCEPT ![d][r] = NotLettingGo]
          /\ \/ UNCHANGED up
             \/ r \in Request /\ \E o \in {"released", "busy"} : up' = [up EXCEPT ![d] = Append(up[d], Answer(r, o))]
          /\ UNCHANGED <<asks, link, run, sent, report, conv>>
      BY <2>7 DEF StopFails, LetGo, Says
    <3>2. letgo' \in [Desktop -> [Reason -> LetGoType]]
      <4>1. NotLettingGo \in LetGoType
        BY DEF LetGoType, NotLettingGo
      <4> QED
        BY <1>1, <3>1, <4>1
    <3>4. up' \in [Desktop -> Seq(Call)]
      <4>1. ASSUME NEW o \in {"released", "busy"}, up' = [up EXCEPT ![d] = Append(up[d], Answer(r, o))], r \in Request
            PROVE  up' \in [Desktop -> Seq(Call)]
        <5>1. PICK q \in Seq(Call) : up' = [up EXCEPT ![d] = q]
          BY <1>c, <4>1
        <5> QED
          BY <1>1, <5>1
      <4>2. CASE UNCHANGED up
        BY <1>1, <4>2
      <4> QED
        BY <3>1, <4>1, <4>2
    <3> QED
      BY <1>1, <3>1, <3>2, <3>4
  <2> QED
    BY <2>1, <2>2, <2>3, <2>4, <2>5, <2>6, <2>7 DEF WindowNext
<1> QED
  BY <1>2, <1>3

\* Whose calls they are stays known when a call is made or handled.
LEMMA LetGoAppend ==
  ASSUME NEW q \in Seq(Call), NEW x \in Call, NEW l, NEW v, LetGoBy(q, l),
         \A r \in Reason : l[r].step = "waits" => v[r].step = "waits",
         \A r \in Reason : x.by = <<"letgo", r>> => l[r].step # "waits" /\ v[r].step = "waits"
  PROVE  LetGoBy(Append(q, x), v)
<1>1. PICK n, z : n = Len(q) /\ z = Append(q, x)
  OBVIOUS
<1>2. /\ n \in Nat /\ z = Append(q, x)
      /\ DOMAIN z = 1 .. n + 1 /\ DOMAIN q = 1 .. n
      /\ \A i \in 1 .. n : z[i] = q[i]
      /\ z[n + 1] = x
  BY <1>1, AppendIs
<1>3. \A i \in DOMAIN z : (i = n + 1 /\ z[i] = x) \/ (i \in DOMAIN q /\ z[i] = q[i])
  BY <1>2
<1>4. ASSUME NEW i \in DOMAIN z, NEW r \in Reason, z[i].by = <<"letgo", r>>
      PROVE  v[r].step = "waits" /\ \A j \in DOMAIN z : z[j].by = <<"letgo", r>> => j = i
  BY <1>3, <1>4 DEF LetGoBy
<1> QED
  BY <1>2, <1>4 DEF LetGoBy

\* A call no hand-off waits for.
LEMMA LetGoMore ==
  ASSUME NEW q \in Seq(Call), NEW x \in Call, NEW l, LetGoBy(q, l), \A r \in Reason : x.by # <<"letgo", r>>
  PROVE  LetGoBy(Append(q, x), l)
<1> QED
  BY LetGoAppend

\* The oldest call is handled, and who waited for it goes on.
LEMMA LetGoTail ==
  ASSUME NEW q \in Seq(Call), q # <<>>, NEW l, NEW v, LetGoBy(q, l),
         \A r \in Reason : v[r] = l[r] \/ Head(q).by = <<"letgo", r>>
  PROVE  LetGoBy(Tail(q), v)
<1>1. PICK n \in Nat \ {0}, z \in Seq(Call) :
        /\ z = Tail(q) /\ Head(q) = q[1]
        /\ DOMAIN z = 1 .. n - 1 /\ DOMAIN q = 1 .. n
        /\ \A i \in DOMAIN z : z[i] = q[i + 1]
  BY TailGives
<1>2. 1 \in DOMAIN q /\ \A i \in DOMAIN z : i \in Int /\ i + 1 \in DOMAIN q /\ z[i] = q[i + 1] /\ i + 1 # 1
  BY <1>1
<1>4. ASSUME NEW i \in DOMAIN z, NEW r \in Reason, z[i].by = <<"letgo", r>>
      PROVE  v[r].step = "waits" /\ \A j \in DOMAIN z : z[j].by = <<"letgo", r>> => j = i
  <2>1. PICK k \in DOMAIN q : k = i + 1 /\ q[k].by = <<"letgo", r>> /\ k # 1
    BY <1>2, <1>4
  <2>2. l[r].step = "waits" /\ \A j \in DOMAIN q : q[j].by = <<"letgo", r>> => j = k
    BY <2>1 DEF LetGoBy
  <2>3. q[1].by # <<"letgo", r>>
    BY <1>2, <2>1, <2>2
  <2>4. ASSUME NEW j \in DOMAIN z, z[j].by = <<"letgo", r>> PROVE j = i
    <3>1. j + 1 = k
      BY <1>2, <2>2, <2>4
    <3> QED
      BY <1>2, <2>1, <3>1
  <2> QED
    BY <1>1, <2>2, <2>3, <2>4
<1> QED
  BY <1>1, <1>4 DEF LetGoBy

\* Calls nobody waits for wait for nothing.
LEMMA LetGoNone ==
  ASSUME NEW q, NEW v, \A i \in DOMAIN q : \A r \in Reason : q[i].by # <<"letgo", r>>
  PROVE  LetGoBy(q, v)
BY DEF LetGoBy

\* Hand-offs that waited go on waiting.
LEMMA LetGoKept ==
  ASSUME NEW q, NEW l, NEW v, LetGoBy(q, l), \A r \in Reason : l[r].step = "waits" => v[r].step = "waits"
  PROVE  LetGoBy(q, v)
BY DEF LetGoBy

\* What a step leaves of LetGoInv.
LEMMA LetGoFrame ==
  ASSUME LetGoInv,
         \A r \in Request :
           \/ pending'[r] = pending[r]
           \/ /\ pending'[r].outcome # "none" /\ pending'[r].s \in Session
              /\ pending[r].outcome = "none" \/ pending'[r].s = pending[r].s,
         \A e \in Desktop : \A r \in asks'[e] :
           /\ r \in Request
           /\ r \in asks[e] \/ (pending'[r].outcome # "none" /\ letgo'[e][r].step = "no"),
         \A e \in Desktop, r \in Reason : letgo'[e][r].step # "no" =>
           \/ letgo[e][r].step # "no" /\ letgo'[e][r].s = letgo[e][r].s
           \/ /\ r \notin asks'[e] /\ letgo'[e][r].s \in Session
              /\ r \in Request => pending[r].outcome # "none" /\ letgo'[e][r].s = pending[r].s,
         \A e \in Desktop : LetGoBy(up'[e], letgo'[e])
  PROVE  LetGoInv'
<1>1. \A r \in Request : pending[r].outcome # "none" => pending'[r].outcome # "none" /\ pending'[r].s = pending[r].s
  OBVIOUS
<1>2. \A r \in Request : IF pending'[r].outcome = "none" THEN pending'[r] = Unasked ELSE pending'[r].s \in Session
  BY DEF LetGoInv
<1>3. \A e \in Desktop : \A r \in asks'[e] : pending'[r].outcome # "none" /\ letgo'[e][r].step = "no"
  BY <1>1 DEF LetGoInv, Reason
<1>4. \A e \in Desktop, r \in Reason : letgo'[e][r].step # "no" =>
       /\ letgo'[e][r].s \in Session
       /\ r \in Request => pending'[r].outcome # "none" /\ letgo'[e][r].s = pending'[r].s
  BY <1>1 DEF LetGoInv
<1> QED
  BY <1>2, <1>3, <1>4 DEF LetGoInv

\* A desktop's requests, calls and what it lets go become S, q and v, and nothing
\* else of LetGoInv changes.
LetGoStep(d, S, q, v) ==
  /\ UNCHANGED pending
  /\ S \subseteq asks[d] /\ asks' = [asks EXCEPT ![d] = S]
  /\ up' = [up EXCEPT ![d] = q] /\ letgo' = [letgo EXCEPT ![d] = v]
  /\ \A r \in Reason : v[r].step # "no" =>
       \/ letgo[d][r].step # "no" /\ v[r].s = letgo[d][r].s
       \/ /\ r \notin S /\ v[r].s \in Session
          /\ r \in Request => pending[r].outcome # "none" /\ v[r].s = pending[r].s
  /\ LetGoBy(q, v)

\* A step of one desktop's hand-offs.
LEMMA LetGoOf ==
  ASSUME TypesInv, NEW d \in Desktop, NEW S, NEW q, NEW v, LetGoStep(d, S, q, v)
  PROVE  LetGoInv'
<1> USE DEF LetGoStep
<1>1. /\ LetGoInv /\ up \in [Desktop -> Seq(Call)] /\ letgo \in [Desktop -> [Reason -> LetGoType]]
      /\ asks \in [Desktop -> SUBSET Request]
  BY TypesAre DEF WindowTypes
<1>2. \A e \in Desktop : LetGoBy(up[e], letgo[e])
  BY <1>1 DEF LetGoInv
<1>3. \A e \in Desktop : LetGoBy(up'[e], letgo'[e])
  <2> SUFFICES ASSUME NEW e \in Desktop PROVE LetGoBy(up'[e], letgo'[e])
    OBVIOUS
  <2>1. CASE e = d
    <3>1. up'[d] = q /\ letgo'[d] = v
      BY <1>1
    <3> QED
      BY <2>1, <3>1
  <2>2. CASE e # d
    <3>1. up'[e] = up[e] /\ letgo'[e] = letgo[e]
      BY <1>1, <2>2
    <3> QED
      BY <1>2, <3>1
  <2> QED
    BY <2>1, <2>2
<1>4. \A e \in Desktop, r \in Reason : letgo'[e][r].step # "no" =>
           \/ letgo[e][r].step # "no" /\ letgo'[e][r].s = letgo[e][r].s
           \/ /\ r \notin asks'[e] /\ letgo'[e][r].s \in Session
              /\ r \in Request => pending[r].outcome # "none" /\ letgo'[e][r].s = pending[r].s
  <2> SUFFICES ASSUME NEW e \in Desktop, NEW r \in Reason, letgo'[e][r].step # "no"
               PROVE  \/ letgo[e][r].step # "no" /\ letgo'[e][r].s = letgo[e][r].s
                      \/ /\ r \notin asks'[e] /\ letgo'[e][r].s \in Session
                         /\ r \in Request => pending[r].outcome # "none" /\ letgo'[e][r].s = pending[r].s
    OBVIOUS
  <2>1. CASE e = d
    <3>1. letgo'[d] = v /\ asks'[d] = S
      BY <1>1
    <3> QED
      BY <2>1, <3>1
  <2>2. CASE e # d
    <3>1. letgo'[e] = letgo[e]
      BY <1>1, <2>2
    <3> QED
      BY <3>1
  <2> QED
    BY <2>1, <2>2
<1>5. \A e \in Desktop : \A r \in asks'[e] : r \in Request /\ r \in asks[e]
  BY <1>1
<1> QED
  BY <1>1, <1>3, <1>4, <1>5, LetGoFrame

\* A hold is made by a report, or by nobody who still waits.
LEMMA HoldByIs == \A by \in HoldBy : by \in By /\ by # <<"converge">> /\ \A r : by # <<"letgo", r>>
BY DEF By, HoldBy

\* What a report says is one call, which it waits for, or none.
SaysOne(g, by) == g.calls = <<>> \/ \E x \in Call : g.calls = <<x>> /\ x.by = by
\* A report makes at most one call at a time.
LEMMA GoOnSays ==
  ASSUME NEW p \in Report, p.phase # "none", NEW t \in [Session -> Activity], NEW by \in HoldBy,
         NEW g, g = GoOn(p, t, by)
  PROVE  SaysOne(g, by)
<1> USE DEF SaysOne
<1>0. by \in By
  BY DEF By
<1>1. Went(p, t, by, g)
  BY GoesOn
<1>2. CASE g.calls # <<>>
  <2>1. PICK s \in Session :
           \/ Aim(p, s) # "off" /\ g.calls = <<Hold(s, Aim(p, s), by)>>
           \/ Aim(p, s) = "off" /\ g.calls = <<Release(s, by)>>
    BY <1>1, <1>2 DEF Went
  <2>2. Aim(p, s) \in Activity
    BY DEF Aim, Report, Activity
  <2>3. CASE Aim(p, s) # "off"
    <3>1. Aim(p, s) \in Activity \ {"off"}
      BY <2>2, <2>3
    <3>2. Hold(s, Aim(p, s), by) \in Call /\ Hold(s, Aim(p, s), by).by = by
      BY <1>0, <3>1, SaidIsCall DEF Hold
    <3> QED
      BY <2>1, <2>3, <3>2
  <2>4. CASE Aim(p, s) = "off"
    <3>1. Release(s, by) \in Call /\ Release(s, by).by = by
      BY <1>0, SaidIsCall DEF Release
    <3> QED
      BY <2>1, <2>4, <3>1
  <2> QED
    BY <2>3, <2>4
<1> QED
  BY <1>2

\* One call more, or none.
LEMMA OneMore ==
  ASSUME NEW q \in Seq(Call), NEW z, z = <<>> \/ \E x \in Call : z = <<x>>
  PROVE  /\ q \o z = q \/ \E x \in Call : z = <<x>> /\ q \o z = Append(q, x)
         /\ z = <<>> => q \o z = q /\ <<>> \o z = <<>>
         /\ \A x : z = <<x>> => q \o z = Append(q, x)
         /\ z \in Seq(Call) /\ q \o z \in Seq(Call) /\ (q \o z) \o <<>> = q \o z
<1>1. \A x \in Call : q \o <<x>> = Append(q, x) /\ <<x>> \in Seq(Call)
  OBVIOUS
<1>2. q \o <<>> = q /\ <<>> \in Seq(Call)
  OBVIOUS
<1>3. z \in Seq(Call)
  BY <1>1, <1>2
<1>4. (q \o z) \in Seq(Call) /\ (q \o z) \o <<>> = q \o z
  BY <1>3
<1>5. \A x : z = <<x>> => x \in Call
  <2> SUFFICES ASSUME NEW x, z = <<x>> PROVE x \in Call
    OBVIOUS
  <2>1. PICK y \in Call : z = <<y>>
    OBVIOUS
  <2>2. z[1] = x /\ z[1] = y
    BY <2>1
  <2> QED
    BY <2>2
<1>6. \A x : z = <<x>> => q \o z = Append(q, x)
  BY <1>1, <1>5
<1> QED
  BY <1>1, <1>2, <1>3, <1>4, <1>5, <1>6

UpBecomes(d, before, z, after) ==
  /\ up' = [up EXCEPT ![d] = before \o z \o after]
  /\ z = <<>> \/ \E x \in Call : z = <<x>> /\ x.by \in HoldBy
\* A report that begins makes at most one call.
LEMMA ReportsSay ==
  ASSUME NEW d, NEW w \in [Session -> Activity], NEW t \in [Session -> Activity],
         NEW p \in [Slot -> Report], NEW before \in Seq(Call), NEW after,
         Reports(d, w, t, p, before, after)
  PROVE  \E z : UpBecomes(d, before, z, after)
<1>1. PICK k \in Slot : \E g : Begins(d, w, t, p, before, after, k, g)
  BY ReportsAre
<1>2. PICK g : Begins(d, w, t, p, before, after, k, g)
  BY <1>1
<1>3. Begun(w) \in Report /\ Begun(w).phase # "none" /\ <<"report", k>> \in HoldBy
  BY BegunIs DEF HoldBy
<1>4. g = GoOn(Begun(w), t, <<"report", k>>) /\ up' = [up EXCEPT ![d] = before \o g.calls \o after]
  BY <1>2 DEF Begins
<1>5. SaysOne(g, <<"report", k>>)
  BY <1>3, <1>4, GoOnSays
<1>6. UpBecomes(d, before, g.calls, after)
  BY <1>3, <1>4, <1>5 DEF SaysOne, UpBecomes
<1> QED
  BY <1>6

\* A report that begins leaves who waits for a release as it was.
LEMMA TellsLetGo ==
  ASSUME TypesInv, NEW d \in Desktop, NEW w \in [Session -> Activity], NEW t \in [Session -> Activity],
         NEW q \in Seq(Call), NEW v, LetGoBy(q, v), link[d], Tells(d, w, t, q)
  PROVE  \E r : up' = [up EXCEPT ![d] = r] /\ LetGoBy(r, v)
<1>1. report[d] \in [Slot -> Report]
  BY DEF TypesInv, TypeOK
<1>0. Reports(d, w, t, report[d], q, <<>>)
  BY DEF Tells
<1>a. PICK z : UpBecomes(d, q, z, <<>>)
  BY <1>0, <1>1, ReportsSay
<1>2. /\ up' = [up EXCEPT ![d] = q \o z \o <<>>]
      /\ z = <<>> \/ \E x \in Call : z = <<x>> /\ x.by \in HoldBy
  BY <1>a DEF UpBecomes
<1>3. up' = [up EXCEPT ![d] = q \o z]
  BY <1>2, OneMore
<1>4. CASE z = <<>>
  <2>1. q \o z = q
    BY <1>4, OneMore
  <2> QED
    BY <1>3, <2>1
<1>5. CASE z # <<>>
  <2>1. PICK x \in Call : z = <<x>> /\ x.by \in HoldBy
    BY <1>2, <1>5
  <2>2. q \o z = Append(q, x)
    BY <2>1
  <2>3. LetGoBy(Append(q, x), v)
    BY <2>1, HoldByIs, LetGoMore
  <2> QED
    BY <1>3, <2>2, <2>3
<1> QED
  BY <1>4, <1>5

\* A window's step keeps who waits for what.
LEMMA WindowLetGo ==
  ASSUME TypesInv, NEW d \in Desktop, WindowNext(d)
  PROVE  LetGoInv'
<1>1. WindowTypes /\ BridgeTypes /\ LetGoInv
  BY TypesAre
<1>2. up[d] \in Seq(Call) /\ LetGoBy(up[d], letgo[d])
  BY <1>1 DEF WindowTypes, LetGoInv
<1>3. up = [up EXCEPT ![d] = up[d]] /\ letgo = [letgo EXCEPT ![d] = letgo[d]]
      /\ asks = [asks EXCEPT ![d] = asks[d]]
  BY <1>1 DEF WindowTypes
<1>4. pending' = pending
  BY DEF WindowNext, Change, ReportGoes, ConvergeGoes, ContinueAsChat, HandoffRequested, Stopped, StopFails, LetGo, bridge
<1>5. sent[d] \in [Session -> Activity] /\ run[d] \in [Session -> Activity] /\ report[d] \in [Slot -> Report]
      /\ letgo[d] \in [Reason -> LetGoType]
  BY <1>1 DEF WindowTypes
<1>6. ASSUME NEW s \in Session, NEW a \in Activity, Change(d, s, a) PROVE LetGoInv'
  <2>1. CASE link[d]
    <3>1. PICK w \in [Session -> Activity] : w = run'[d]
      <4>1. run' = [run EXCEPT ![d][s] = a]
        BY <1>6 DEF Change
      <4>2. run'[d] = [run[d] EXCEPT ![s] = a]
        BY <1>1, <4>1 DEF WindowTypes
      <4> QED
        BY <1>5, <4>2
    <3>2. PICK r : up' = [up EXCEPT ![d] = r] /\ LetGoBy(r, letgo[d])
      BY <1>2, <1>5, <1>6, <2>1, <3>1, TellsLetGo DEF Change
    <3>z. LetGoStep(d, asks[d], r, letgo[d])
      BY <1>3, <1>4, <1>6, <3>2 DEF Change, LetGoStep
    <3> QED
      BY <3>z, LetGoOf
  <2>2. CASE ~link[d]
    <3>z. LetGoStep(d, asks[d], up[d], letgo[d])
      BY <1>2, <1>3, <1>4, <1>6, <2>2 DEF Change, Tells, LetGoStep
    <3> QED
      BY <3>z, LetGoOf
  <2> QED
    BY <2>1, <2>2
<1>7. ASSUME NEW k \in Slot, ReportGoes(d, k) PROVE LetGoInv'
  <2>1. PICK g : g = GoOn(report[d][k], sent[d], <<"report", k>>)
    OBVIOUS
  <2>2. up' = [up EXCEPT ![d] = up[d] \o g.calls] /\ UNCHANGED <<asks, letgo>> /\ report[d][k].phase # "none"
    BY <1>7, <2>1 DEF ReportGoes
  <2>3. <<"report", k>> \in HoldBy /\ report[d][k] \in Report
    BY <1>5 DEF HoldBy
  <2>4. g.calls = <<>> \/ \E x \in Call : g.calls = <<x>> /\ x.by = <<"report", k>>
    BY <1>5, <2>1, <2>2, <2>3, GoOnSays DEF SaysOne
  <2>5. LetGoBy(up[d] \o g.calls, letgo[d])
    <3>1. CASE g.calls = <<>>
      <4>1. up[d] \o g.calls = up[d]
        BY <1>2, <3>1, OneMore
      <4> QED
        BY <1>2, <4>1
    <3>2. CASE g.calls # <<>>
      <4>1. PICK x \in Call : g.calls = <<x>> /\ x.by = <<"report", k>>
        BY <2>4, <3>2
      <4>2. up[d] \o g.calls = Append(up[d], x)
        BY <1>2, <4>1
      <4>3. \A r : x.by # <<"letgo", r>>
        BY <2>3, <4>1, HoldByIs
      <4>4. LetGoBy(Append(up[d], x), letgo[d])
        BY <1>2, <4>3, LetGoMore
      <4> QED
        BY <4>2, <4>4
    <3> QED
      BY <3>1, <3>2
  <2>z. LetGoStep(d, asks[d], up[d] \o g.calls, letgo[d])
    BY <1>3, <1>4, <2>2, <2>5 DEF LetGoStep
  <2> QED
    BY <2>z, LetGoOf
<1>8. CASE ConvergeGoes(d)
  <2>1. UNCHANGED <<asks, letgo>> /\ (UNCHANGED up \/ \E s : s \in Session /\ up' = [up EXCEPT ![d] = Append(up[d], Release(s, <<"converge">>))])
    <3>1. PICK left : left = IF conv[d].step = "goes" THEN conv[d].left
                             ELSE {s \in conv[d].left : run[d][s] = "off"}
      OBVIOUS
    <3>2. left \subseteq Session
      BY <1>1, <3>1 DEF ConvType, WindowTypes
    <3>3. UNCHANGED up \/ \E s \in {s \in left : sent[d][s] = "off"} :
             up' = [up EXCEPT ![d] = Append(up[d], Release(s, <<"converge">>))]
      BY <1>8, <3>1 DEF ConvergeGoes
    <3> QED
      BY <1>8, <3>2, <3>3 DEF ConvergeGoes
  <2>2. CASE UNCHANGED up
    <3>1. LetGoStep(d, asks[d], up[d], letgo[d])
      BY <1>2, <1>3, <1>4, <2>1, <2>2 DEF LetGoStep
    <3> QED
      BY <3>1, LetGoOf
  <2>3. ASSUME NEW s \in Session, up' = [up EXCEPT ![d] = Append(up[d], Release(s, <<"converge">>))]
        PROVE  LetGoInv'
    <3>1. Release(s, <<"converge">>) \in Call
      BY SaidIsCall DEF By
    <3>2. \A r : Release(s, <<"converge">>).by # <<"letgo", r>>
      BY DEF Release
    <3>3. LetGoBy(Append(up[d], Release(s, <<"converge">>)), letgo[d])
      BY <1>2, <3>1, <3>2, LetGoMore
    <3>z. LetGoStep(d, asks[d], Append(up[d], Release(s, <<"converge">>)), letgo[d])
      BY <1>3, <1>4, <2>1, <2>3, <3>3 DEF LetGoStep
    <3> QED
      BY <3>z, LetGoOf
  <2> QED
    BY <2>1, <2>2, <2>3
<1>9. ASSUME NEW s \in Session, ContinueAsChat(d, s) PROVE LetGoInv'
  <2>1. /\ letgo[d][Chat].step = "no" /\ letgo' = [letgo EXCEPT ![d][Chat] = [step |-> "stopping", s |-> s]]
        /\ UNCHANGED <<up, asks>>
    BY <1>9 DEF ContinueAsChat, LetsGo
  <2>2. Chat \in Reason /\ Chat \notin Request
    BY HoldsAssumption DEF Reason
  <2>3. PICK v : v = [letgo[d] EXCEPT ![Chat] = [step |-> "stopping", s |-> s]] /\ letgo' = [letgo EXCEPT ![d] = v]
    BY <2>1
  <2>4. v[Chat].step = "stopping" /\ v[Chat].s = s /\ \A r \in Reason \ {Chat} : v[r] = letgo[d][r]
    BY <1>5, <2>2, <2>3
  <2>5. \A r \in Reason : letgo[d][r].step = "waits" => v[r].step = "waits"
    BY <2>1, <2>4
  <2>6. LetGoBy(up[d], v)
    BY <1>2, <2>5, LetGoKept
  <2>7. Chat \notin asks[d]
    BY <1>1, <2>2 DEF WindowTypes
  <2>z. LetGoStep(d, asks[d], up[d], v)
    BY <1>3, <1>4, <2>1, <2>2, <2>3, <2>4, <2>6, <2>7 DEF LetGoStep
  <2> QED
    BY <2>z, LetGoOf
<1>10. ASSUME NEW r \in Request, HandoffRequested(d, r) PROVE LetGoInv'
  <2>1. /\ asks' = [asks EXCEPT ![d] = asks[d] \ {r}] /\ r \in asks[d]
        /\ \/ UNCHANGED letgo /\ \E o \in {"released", "busy"} : up' = [up EXCEPT ![d] = Append(up[d], Answer(r, o))]
           \/ letgo' = [letgo EXCEPT ![d][r] = [step |-> "stopping", s |-> pending[r].s]] /\ UNCHANGED up
    BY <1>10 DEF HandoffRequested, Says, LetsGo
  <2>2. pending[r].outcome # "none" /\ pending[r].s \in Session
    BY <1>1, <2>1 DEF LetGoInv
  <2>a. r \in Reason
    BY DEF Reason
  <2>3. ASSUME UNCHANGED letgo, NEW o \in {"released", "busy"}, up' = [up EXCEPT ![d] = Append(up[d], Answer(r, o))]
        PROVE  LetGoInv'
    <3>1. Answer(r, o) \in Call /\ \A u : Answer(r, o).by # <<"letgo", u>>
      BY DEF Answer, Call
    <3>2. LetGoBy(Append(up[d], Answer(r, o)), letgo[d])
      BY <1>2, <3>1, LetGoMore
    <3>z. LetGoStep(d, asks[d] \ {r}, Append(up[d], Answer(r, o)), letgo[d])
      BY <1>3, <1>4, <2>1, <2>3, <3>2 DEF LetGoStep
    <3> QED
      BY <3>z, LetGoOf
  <2>4. ASSUME UNCHANGED up, letgo' = [letgo EXCEPT ![d][r] = [step |-> "stopping", s |-> pending[r].s]]
        PROVE  LetGoInv'
    <3>1. PICK v : v = [letgo[d] EXCEPT ![r] = [step |-> "stopping", s |-> pending[r].s]] /\ letgo' = [letgo EXCEPT ![d] = v]
      BY <2>4
    <3>2. v[r].step = "stopping" /\ v[r].s = pending[r].s /\ \A u \in Reason \ {r} : v[u] = letgo[d][u]
      BY <1>5, <2>a, <3>1
    <3>3. letgo[d][r].step # "waits" => LetGoBy(up[d], v)
      BY <1>2, <3>2, LetGoKept
    <3>4. letgo[d][r].step # "waits"
      BY <1>1, <2>1 DEF LetGoInv
    <3>5. r \notin asks'[d]
      BY <1>1, <2>1 DEF WindowTypes
    <3>z. LetGoStep(d, asks[d] \ {r}, up[d], v)
      BY <1>3, <1>4, <2>1, <2>2, <2>4, <3>1, <3>2, <3>3, <3>4, <3>5 DEF LetGoStep
    <3> QED
      BY <3>z, LetGoOf
  <2> QED
    BY <2>1, <2>3, <2>4
<1>11. ASSUME NEW r \in Reason, Stopped(d, r) PROVE LetGoInv'
  <2>1. PICK s, off : s = letgo[d][r].s /\ off = [run[d] EXCEPT ![s] = "off"]
    OBVIOUS
  <2>2. /\ letgo[d][r].step = "stopping" /\ UNCHANGED asks
        /\ letgo' = [letgo EXCEPT ![d][r] = IF link[d] THEN [@ EXCEPT !.step = "waits"] ELSE NotLettingGo]
        /\ Tells(d, off, [sent[d] EXCEPT ![s] = "off"], Append(up[d], Release(s, <<"letgo", r>>)))
    BY <1>11, <2>1 DEF Stopped
  <2>3. s \in Session
    BY <1>1, <2>1, <2>2 DEF LetGoInv
  <2>4. off \in [Session -> Activity] /\ [sent[d] EXCEPT ![s] = "off"] \in [Session -> Activity]
    BY <1>5, <2>1 DEF Activity
  <2>a. letgo[d][r] \in LetGoType
    BY <1>5
  <2>b. \A x \in LetGoType : [x EXCEPT !.step = "waits"].step = "waits" /\ [x EXCEPT !.step = "waits"].s = x.s
    BY DEF LetGoType
  <2>5. CASE link[d]
    <3>1. PICK v : v = [letgo[d] EXCEPT ![r] = [letgo[d][r] EXCEPT !.step = "waits"]] /\ letgo' = [letgo EXCEPT ![d] = v]
      BY <2>2, <2>5
    <3>2. v[r].step = "waits" /\ v[r].s = s /\ \A u \in Reason \ {r} : v[u] = letgo[d][u]
      BY <1>5, <2>1, <2>a, <2>b, <3>1
    <3>3. Release(s, <<"letgo", r>>) \in Call /\ Release(s, <<"letgo", r>>).by = <<"letgo", r>>
      <4>1. <<"letgo", r>> \in By
        BY DEF By
      <4> QED
        BY <2>3, <4>1, SaidIsCall DEF Release
    <3>4. \A u \in Reason : <<"letgo", r>> = <<"letgo", u>> => u = r
      OBVIOUS
    <3>5. LetGoBy(Append(up[d], Release(s, <<"letgo", r>>)), v)
      BY <1>2, <2>2, <3>2, <3>3, <3>4, LetGoAppend
    <3>6. Append(up[d], Release(s, <<"letgo", r>>)) \in Seq(Call)
      BY <1>2, <3>3
    <3>7. PICK q : up' = [up EXCEPT ![d] = q] /\ LetGoBy(q, v)
      BY <2>2, <2>4, <2>5, <3>5, <3>6, TellsLetGo
    <3>z. LetGoStep(d, asks[d], q, v)
      BY <1>3, <1>4, <2>1, <2>2, <3>1, <3>2, <3>7 DEF LetGoStep
    <3> QED
      BY <3>z, LetGoOf
  <2>6. CASE ~link[d]
    <3>1. PICK v : v = [letgo[d] EXCEPT ![r] = NotLettingGo] /\ letgo' = [letgo EXCEPT ![d] = v] /\ up' = up
      BY <2>2, <2>6 DEF Tells
    <3>2. v[r].step = "no" /\ \A u \in Reason \ {r} : v[u] = letgo[d][u]
      BY <1>5, <3>1 DEF NotLettingGo
    <3>3. LetGoBy(up[d], v)
      BY <1>2, <2>2, <3>2, LetGoKept
    <3>z. LetGoStep(d, asks[d], up[d], v)
      BY <1>3, <1>4, <2>1, <2>2, <3>1, <3>2, <3>3 DEF LetGoStep
    <3> QED
      BY <3>z, LetGoOf
  <2> QED
    BY <2>5, <2>6
<1>12. ASSUME NEW r \in Reason, StopFails(d, r) \/ LetGo(d, r) PROVE LetGoInv'
  <2>1. /\ letgo' = [letgo EXCEPT ![d][r] = NotLettingGo] /\ letgo[d][r].step \in {"stopping", "goes"}
        /\ UNCHANGED asks
        /\ \/ UNCHANGED up
           \/ r \in Request /\ \E o \in {"released", "busy"} : up' = [up EXCEPT ![d] = Append(up[d], Answer(r, o))]
    BY <1>12 DEF StopFails, LetGo, Says
  <2>2. PICK v : v = [letgo[d] EXCEPT ![r] = NotLettingGo] /\ letgo' = [letgo EXCEPT ![d] = v]
    BY <2>1
  <2>3. v[r].step = "no" /\ \A u \in Reason \ {r} : v[u] = letgo[d][u]
    BY <1>5, <2>2 DEF NotLettingGo
  <2>4. LetGoBy(up[d], v)
    BY <1>2, <2>1, <2>3, LetGoKept
  <2>5. ASSUME r \in Request, NEW o \in {"released", "busy"}, up' = [up EXCEPT ![d] = Append(up[d], Answer(r, o))]
        PROVE  LetGoInv'
    <3>1. Answer(r, o) \in Call /\ \A u : Answer(r, o).by # <<"letgo", u>>
      BY <2>5 DEF Answer, Call
    <3>2. LetGoBy(Append(up[d], Answer(r, o)), v)
      BY <1>2, <2>1, <2>3, <3>1, LetGoAppend
    <3>z. LetGoStep(d, asks[d], Append(up[d], Answer(r, o)), v)
      BY <1>3, <1>4, <2>1, <2>2, <2>3, <2>5, <3>2 DEF LetGoStep
    <3> QED
      BY <3>z, LetGoOf
  <2>6. CASE UNCHANGED up
    <3>z. LetGoStep(d, asks[d], up[d], v)
      BY <1>3, <1>4, <2>1, <2>2, <2>3, <2>4, <2>6 DEF LetGoStep
    <3> QED
      BY <3>z, LetGoOf
  <2> QED
    BY <2>1, <2>5, <2>6
<1> QED
  BY <1>6, <1>7, <1>8, <1>9, <1>10, <1>11, <1>12 DEF WindowNext

\* A call that is handled leaves the desktop's queue, and who waits goes on.
LEMMA HandlesTypes ==
  ASSUME TypesInv, NEW d \in Desktop, NEW m, Handles(d, m)
  PROVE  /\ up[d] \in Seq(Call) /\ up[d] # <<>> /\ up' = [up EXCEPT ![d] = Tail(up[d])]
         /\ Head(up[d]) \in Call /\ Head(up[d]).m = m /\ Tail(up[d]) \in Seq(Call)
         /\ up' \in [Desktop -> Seq(Call)]
<1>1. up \in [Desktop -> Seq(Call)]
  BY DEF TypesInv, CallTypes
<1>2. up[d] \in Seq(Call) /\ up[d] # <<>> /\ up' = [up EXCEPT ![d] = Tail(up[d])] /\ Head(up[d]).m = m
  BY <1>1 DEF Handles
<1>3. Head(up[d]) \in Call /\ Tail(up[d]) \in Seq(Call)
  BY <1>2, TailIs
<1> QED
  BY <1>1, <1>2, <1>3

\* What Replies makes of letgo.
LEMMA RepliesLetGo ==
  ASSUME TypesInv, NEW d \in Desktop, NEW by \in By, Replies(d, by)
  PROVE  \E v : /\ letgo' = [letgo EXCEPT ![d] = v]
                /\ \A r \in Reason : v[r] = letgo[d][r] \/ (by = <<"letgo", r>> /\ v[r].step = "goes" /\ v[r].s = letgo[d][r].s)
<1>1. letgo \in [Desktop -> [Reason -> LetGoType]]
  BY TypesAre DEF WindowTypes
<1>2. CASE by[1] = "letgo"
  <2>1. PICK r \in Reason : r = by[2] /\ by = <<"letgo", r>>
    BY <1>2, ByIs
  <2>2. letgo' = [letgo EXCEPT ![d][r].step = "goes"]
    BY <1>2, <2>1 DEF Replies
  <2>3. PICK x : x = letgo[d][r] /\ x \in LetGoType
    BY <1>1
  <2>a. \A z \in LetGoType : [z EXCEPT !.step = "goes"].step = "goes" /\ [z EXCEPT !.step = "goes"].s = z.s
    BY DEF LetGoType
  <2>4. PICK y : y = [x EXCEPT !.step = "goes"] /\ y.step = "goes" /\ y.s = x.s
    BY <2>3, <2>a
  <2>5. PICK v : v = [letgo[d] EXCEPT ![r] = y]
    OBVIOUS
  <2>6. letgo' = [letgo EXCEPT ![d] = v]
    BY <2>2, <2>3, <2>4, <2>5
  <2>7. v[r] = y /\ \A u \in Reason \ {r} : v[u] = letgo[d][u]
    BY <1>1, <2>5
  <2>8. \A u \in Reason : v[u] = letgo[d][u] \/ (by = <<"letgo", u>> /\ v[u].step = "goes" /\ v[u].s = letgo[d][u].s)
    BY <2>1, <2>3, <2>4, <2>7
  <2> QED
    BY <2>6, <2>8
<1>3. CASE by[1] # "letgo"
  <2>1. letgo' = [letgo EXCEPT ![d] = letgo[d]]
    BY <1>1, <1>3 DEF Replies
  <2> QED
    BY <2>1
<1> QED
  BY <1>2, <1>3

\* The bridge handles the head of a desktop's calls.
LEMMA HandledLetGo ==
  ASSUME TypesInv, NEW d \in Desktop, NEW m, Handles(d, m), UNCHANGED <<pending, asks>>,
         Replies(d, Head(up[d]).by)
  PROVE  LetGoInv'
<1>1. /\ up[d] \in Seq(Call) /\ up[d] # <<>> /\ up' = [up EXCEPT ![d] = Tail(up[d])]
      /\ Head(up[d]) \in Call
  BY HandlesTypes
<1>2. Head(up[d]).by \in By
  BY <1>1, CallIs
<1>3. PICK v : /\ letgo' = [letgo EXCEPT ![d] = v]
               /\ \A r \in Reason : v[r] = letgo[d][r] \/ (Head(up[d]).by = <<"letgo", r>> /\ v[r].step = "goes" /\ v[r].s = letgo[d][r].s)
  BY <1>2, RepliesLetGo
<1>4. LetGoBy(up[d], letgo[d]) /\ LetGoInv
  BY DEF TypesInv, LetGoInv
<1>a. \A r \in Reason : v[r] = letgo[d][r] \/ Head(up[d]).by = <<"letgo", r>>
  BY <1>3
<1>5. LetGoBy(Tail(up[d]), v)
  BY <1>1, <1>a, <1>4, LetGoTail
<1>6. 1 \in DOMAIN up[d] /\ Head(up[d]) = up[d][1]
  BY <1>1, TailIs
<1>7. \A r \in Reason : Head(up[d]).by = <<"letgo", r>> => letgo[d][r].step = "waits"
  BY <1>4, <1>6 DEF LetGoBy
<1>8. asks = [asks EXCEPT ![d] = asks[d]]
  BY TypesAre DEF WindowTypes
<1>9. LetGoStep(d, asks[d], Tail(up[d]), v)
  <2>1. \A r \in Reason : v[r].step # "no" => letgo[d][r].step # "no" /\ v[r].s = letgo[d][r].s
    BY <1>3, <1>7
  <2> QED
    BY <1>1, <1>3, <1>5, <1>8, <2>1 DEF LetGoStep
<1> QED
  BY <1>9, LetGoOf

\* A call that is handled and that nobody waits for there.
LEMMA HandledOnly ==
  ASSUME TypesInv, NEW d \in Desktop, NEW m, Handles(d, m), UNCHANGED <<asks, letgo>>,
         \A r \in Request :
           \/ pending'[r] = pending[r]
           \/ pending[r].outcome # "none" /\ pending'[r].outcome # "none" /\ pending'[r].s = pending[r].s
  PROVE  LetGoInv'
<1>1. /\ up \in [Desktop -> Seq(Call)] /\ up[d] # <<>> /\ up' = [up EXCEPT ![d] = Tail(up[d])]
      /\ LetGoInv /\ asks \in [Desktop -> SUBSET Request]
  BY HandlesTypes, TypesAre DEF WindowTypes
<1>2. ASSUME NEW e \in Desktop PROVE LetGoBy(up'[e], letgo'[e])
  <2>1. LetGoBy(up[e], letgo[e]) /\ up[e] \in Seq(Call) /\ up[d] \in Seq(Call)
    BY <1>1 DEF LetGoInv
  <2>2. CASE e = d
    <3>1. up'[d] = Tail(up[d])
      BY <1>1
    <3>2. LetGoBy(Tail(up[d]), letgo[d])
      BY <1>1, <2>1, <2>2, LetGoTail
    <3> QED
      BY <2>2, <3>1, <3>2
  <2>3. CASE e # d
    BY <1>1, <2>1, <2>3
  <2> QED
    BY <2>2, <2>3
<1>3. \A r \in Request : pending[r].outcome # "none" => pending[r].s \in Session
  BY <1>1 DEF LetGoInv
<1>4. \A r \in Request :
           \/ pending'[r] = pending[r]
           \/ /\ pending'[r].outcome # "none" /\ pending'[r].s \in Session
              /\ pending[r].outcome = "none" \/ pending'[r].s = pending[r].s
  BY <1>3
<1>5. \A e \in Desktop : \A r \in asks'[e] : r \in Request /\ r \in asks[e]
  BY <1>1
<1> QED
  BY <1>1, <1>2, <1>4, <1>5, LetGoFrame

\* A request comes to an end.
LEMMA SettleTypes ==
  ASSUME BridgeTypes, NEW r \in Request, pending[r].outcome # "none", NEW o \in Outcome \ {"none", "asked"}, Settle(r, o)
  PROVE  /\ pending' \in [Request -> [s : Session \cup {0}, client : Desktop \cup {NoOne}, outcome : Outcome]]
         /\ \A u \in Request : pending'[u].outcome = "asked" => pending'[u] = pending[u]
         /\ \A u \in Request :
              \/ pending'[u] = pending[u]
              \/ /\ pending[u].outcome # "none" /\ pending'[u].outcome # "none"
                 /\ pending'[u].s = pending[u].s /\ pending'[u].client = pending[u].client
<1> DEFINE Pending == [s : Session \cup {0}, client : Desktop \cup {NoOne}, outcome : Outcome]
<1>1. pending \in [Request -> Pending]
  BY DEF BridgeTypes
<1>2. PICK h : h = pending[r] /\ h \in Pending
  BY <1>1
<1>3. PICK z : z = [h EXCEPT !.outcome = o]
  OBVIOUS
<1>4. z \in Pending /\ z.outcome = o /\ z.s = h.s /\ z.client = h.client
  BY <1>2, <1>3
<1>5. pending' = [pending EXCEPT ![r] = z]
  BY <1>2, <1>3 DEF Settle
<1> HIDE DEF Pending
<1>6. pending' \in [Request -> Pending] /\ pending'[r] = z /\ \A u \in Request \ {r} : pending'[u] = pending[u]
  BY <1>1, <1>4, <1>5
<1>7. pending' \in [Request -> [s : Session \cup {0}, client : Desktop \cup {NoOne}, outcome : Outcome]]
  BY <1>6 DEF Pending
<1> QED
  BY <1>2, <1>4, <1>6, <1>7

\* Types after a step of the bridge.
LEMMA BridgeStepTypes ==
  ASSUME TypesInv, NEW d \in Desktop, BridgeNext(d)
  PROVE  TypesInv'
<1>1. WindowTypes /\ BridgeTypes /\ LetGoInv
  BY TypesAre
<1>b. Free \in [client : Desktop \cup {NoOne}, busy : BOOLEAN] /\ d # NoOne
  BY HoldsAssumption DEF Free
<1> DEFINE HoldType == [client : Desktop \cup {NoOne}, busy : BOOLEAN]
<1>2. CASE HoldCalled(d)
  <2>1. Handles(d, "hold") /\ looking' = [looking EXCEPT ![d] = Append(looking[d], Head(up[d]))]
        /\ UNCHANGED <<holds, pending, served, asks, link, window>>
    BY <1>2 DEF HoldCalled
  <2>2. /\ up' \in [Desktop -> Seq(Call)] /\ Head(up[d]) \in HoldCall
    BY <2>1, HandlesTypes, CallIs
  <2>3. looking' \in [Desktop -> Seq(HoldCall)]
    <3>1. looking[d] \in Seq(HoldCall)
      BY <1>1 DEF BridgeTypes
    <3>a. PICK x \in HoldCall : x = Head(up[d])
      BY <2>2
    <3>b. \A z \in Seq(HoldCall) : Append(z, x) \in Seq(HoldCall)
      OBVIOUS
    <3>2. PICK q \in Seq(HoldCall) : q = Append(looking[d], Head(up[d]))
      BY <3>1, <3>a, <3>b
    <3> QED
      BY <1>1, <2>1, <3>2 DEF BridgeTypes
  <2>4. WindowTypes' /\ BridgeTypes'
    BY <1>1, <2>1, <2>2, <2>3 DEF WindowTypes, BridgeTypes, window
  <2>5. LetGoInv'
    BY <2>1, HandledOnly DEF window
  <2> QED
    BY <2>4, <2>5, TypesAre, PTL
<1>3. CASE Held(d)
  <2>1. PICK c : c = Head(looking[d])
    OBVIOUS
  <2>2. /\ looking[d] # <<>> /\ holds' = [holds EXCEPT ![c.s] = [client |-> d, busy |-> c.a = "working"]]
        /\ Replies(d, c.by) /\ looking' = [looking EXCEPT ![d] = Tail(looking[d])]
        /\ UNCHANGED <<pending, served, up, asks, link, run, sent>>
    BY <1>3, <2>1 DEF Held
  <2>3. looking[d] \in Seq(HoldCall)
    BY <1>1 DEF BridgeTypes
  <2>4. c \in HoldCall /\ Tail(looking[d]) \in Seq(HoldCall)
    BY <2>1, <2>2, <2>3, TailIs
  <2>5. c \in Call /\ c.s \in Session /\ c.by \in By /\ c.by \in HoldBy /\ c.m = "hold"
    <3>1. c \in Call /\ c.m = "hold" /\ c.by \in HoldBy
      BY <2>4, HoldIsCall DEF HoldCall
    <3> QED
      BY <3>1, CallIs
  <2>6. /\ report' \in [Desktop -> [Slot -> Report]] /\ conv' \in [Desktop -> ConvType]
        /\ letgo' \in [Desktop -> [Reason -> LetGoType]]
    BY <2>2, <2>5, RepliesTypes
  <2>7. looking' \in [Desktop -> Seq(HoldCall)]
    BY <1>1, <2>2, <2>4 DEF BridgeTypes
  <2>8. holds' \in [Session -> HoldType] /\ \A s \in Session : holds'[s].client = NoOne => holds'[s] = Free
    <3>1. [client |-> d, busy |-> c.a = "working"] \in HoldType
      OBVIOUS
    <3>2. PICK h \in HoldType : h = [client |-> d, busy |-> c.a = "working"] /\ h.client = d
      BY <3>1
    <3>3. holds' = [holds EXCEPT ![c.s] = h] /\ holds \in [Session -> HoldType]
      BY <1>1, <2>2, <3>2 DEF BridgeTypes
    <3> HIDE DEF HoldType
    <3>4. holds' \in [Session -> HoldType] /\ holds'[c.s] = h /\ \A s \in Session \ {c.s} : holds'[s] = holds[s]
      BY <2>5, <3>3
    <3> QED
      BY <1>1, <1>b, <3>2, <3>4 DEF BridgeTypes
  <2>9. WindowTypes' /\ BridgeTypes'
    BY <1>1, <2>2, <2>6, <2>7, <2>8 DEF WindowTypes, BridgeTypes
  <2>10. letgo' = letgo
    <3>1. \A r : c.by # <<"letgo", r>>
      BY <2>5, HoldByIs
    <3> QED
      BY <2>2, <2>5, <3>1, ByIs DEF Replies
  <2>11. LetGoInv'
    BY <1>1, <2>2, <2>10 DEF LetGoInv
  <2> QED
    BY <2>9, <2>11, TypesAre, PTL
<1>4. CASE Released(d)
  <2>1. PICK c : c = Head(up[d])
    OBVIOUS
  <2>2. /\ Handles(d, "release") /\ Replies(d, c.by)
        /\ holds' = IF holds[c.s].client = d THEN [holds EXCEPT ![c.s] = Free] ELSE holds
        /\ UNCHANGED <<pending, served, looking, asks, link, run, sent>>
    BY <1>4, <2>1 DEF Released
  <2>3. up' \in [Desktop -> Seq(Call)] /\ c \in Call /\ c.m = "release"
    BY <2>1, <2>2, HandlesTypes
  <2>4. c.by \in By /\ c.s \in Session
    BY <2>3, CallIs
  <2>5. /\ report' \in [Desktop -> [Slot -> Report]] /\ conv' \in [Desktop -> ConvType]
        /\ letgo' \in [Desktop -> [Reason -> LetGoType]]
    BY <2>2, <2>4, RepliesTypes
  <2>6. holds' \in [Session -> HoldType] /\ \A s \in Session : holds'[s].client = NoOne => holds'[s] = Free
    BY <1>1, <1>b, <2>2, <2>4 DEF BridgeTypes
  <2>7. WindowTypes' /\ BridgeTypes'
    BY <1>1, <2>2, <2>3, <2>5, <2>6 DEF WindowTypes, BridgeTypes
  <2>8. LetGoInv'
    BY <2>1, <2>2, HandledLetGo
  <2> QED
    BY <2>7, <2>8, TypesAre, PTL
<1>5. CASE Listed(d)
  <2>1. /\ Handles(d, "holds") /\ UNCHANGED <<bridge, asks, link, run, sent, report, letgo>>
        /\ conv' = IF Head(up[d]).by = <<"converge">>
                   THEN [conv EXCEPT ![d] = [step |-> "listed", left |-> {s \in Session : holds[s] # Free}]]
                   ELSE conv
    BY <1>5 DEF Listed
  <2>2. up' \in [Desktop -> Seq(Call)]
    BY <2>1, HandlesTypes
  <2>3. conv' \in [Desktop -> ConvType]
    <3>1. PICK x \in ConvType : x = [step |-> "listed", left |-> {s \in Session : holds[s] # Free}]
      <4>1. {s \in Session : holds[s] # Free} \in SUBSET Session
        OBVIOUS
      <4> QED
        BY <4>1 DEF ConvType
    <3>2. conv' = [conv EXCEPT ![d] = x] \/ conv' = conv
      BY <2>1, <3>1
    <3> QED
      BY <1>1, <3>2 DEF WindowTypes
  <2>4. WindowTypes' /\ BridgeTypes'
    BY <1>1, <2>1, <2>2, <2>3 DEF WindowTypes, BridgeTypes, bridge
  <2>5. LetGoInv'
    BY <2>1, HandledOnly DEF bridge
  <2> QED
    BY <2>4, <2>5, TypesAre, PTL
<1>6. CASE Answered(d)
  <2>1. PICK c : c = Head(up[d])
    OBVIOUS
  <2>2. Handles(d, "answer") /\ UNCHANGED <<served, looking, asks, link, window>>
    BY <1>6 DEF Answered
  <2>3. up' \in [Desktop -> Seq(Call)] /\ c \in Call /\ c.m = "answer"
    BY <2>1, <2>2, HandlesTypes
  <2>4. c.r \in Request /\ c.o \in Outcome \ {"none", "asked"}
    BY <2>3, CallIs DEF Outcome
  <2>5. CASE UNCHANGED <<pending, holds>>
    <3>1. WindowTypes' /\ BridgeTypes'
      BY <1>1, <2>2, <2>3, <2>5 DEF WindowTypes, BridgeTypes, window
    <3>2. LetGoInv'
      BY <2>2, <2>5, HandledOnly DEF window
    <3> QED
      BY <3>1, <3>2, TypesAre, PTL
  <2>6. CASE /\ pending[c.r].outcome = "asked" /\ Settle(c.r, c.o)
             /\ holds' = holds \/ holds' = [holds EXCEPT ![pending[c.r].s] = Free]
    <3>1. /\ pending' \in [Request -> [s : Session \cup {0}, client : Desktop \cup {NoOne}, outcome : Outcome]]
          /\ \A u \in Request : pending'[u].outcome = "asked" => pending'[u] = pending[u]
          /\ \A u \in Request :
               \/ pending'[u] = pending[u]
               \/ /\ pending[u].outcome # "none" /\ pending'[u].outcome # "none"
                  /\ pending'[u].s = pending[u].s /\ pending'[u].client = pending[u].client
      BY <1>1, <2>4, <2>6, SettleTypes
    <3>2. holds' \in [Session -> HoldType] /\ \A s \in Session : holds'[s].client = NoOne => holds'[s] = Free
      <4>1. PICK s \in Session : s = pending[c.r].s
        BY <1>1, <2>4, <2>6 DEF LetGoInv
      <4>2. holds' = holds \/ holds' = [holds EXCEPT ![s] = Free]
        BY <2>6, <4>1
      <4>3. CASE holds' = holds
        BY <1>1, <4>3 DEF BridgeTypes
      <4>4. CASE holds' = [holds EXCEPT ![s] = Free]
        BY <1>1, <1>b, <4>4 DEF BridgeTypes
      <4> QED
        BY <4>2, <4>3, <4>4
    <3>3. \A r \in Request : pending'[r].outcome = "asked" => pending'[r].client \in Desktop
      BY <1>1, <3>1 DEF BridgeTypes
    <3>4. WindowTypes' /\ BridgeTypes'
      BY <1>1, <2>2, <2>3, <3>1, <3>2, <3>3 DEF WindowTypes, BridgeTypes, window
    <3>5. LetGoInv'
      BY <2>2, <3>1, HandledOnly DEF window
    <3> QED
      BY <3>4, <3>5, TypesAre, PTL
  <2> QED
    BY <1>6, <2>1, <2>5, <2>6 DEF Answered
<1>7. CASE Noticed(d)
  <2>1. /\ served' = [served EXCEPT ![d] = FALSE] /\ holds' = FreedAll(d) /\ pending' = Unreached(d)
        /\ up' = [up EXCEPT ![d] = <<>>] /\ UNCHANGED <<looking, asks, link, window>>
    BY <1>7 DEF Noticed
  <2>2. holds' \in [Session -> HoldType] /\ \A s \in Session : holds'[s].client = NoOne => holds'[s] = Free
    <3>1. holds' = [s \in Session |-> IF holds[s].client = d THEN Free ELSE holds[s]]
      BY <2>1 DEF FreedAll
    <3>2. holds \in [Session -> HoldType]
      BY <1>1 DEF BridgeTypes
    <3> HIDE DEF HoldType
    <3>3. holds' \in [Session -> HoldType] /\ \A s \in Session : holds'[s] = Free \/ holds'[s] = holds[s]
      BY <1>b, <3>1, <3>2 DEF HoldType
    <3> QED
      BY <1>1, <3>3 DEF BridgeTypes
  <2>3. up' \in [Desktop -> Seq(Call)] /\ \A e \in Desktop : up'[e] = <<>> \/ up'[e] = up[e]
    <3>1. <<>> \in Seq(Call) /\ up \in [Desktop -> Seq(Call)]
      BY <1>1 DEF WindowTypes
    <3> QED
      BY <2>1, <3>1
  <2>4. /\ pending' \in [Request -> [s : Session \cup {0}, client : Desktop \cup {NoOne}, outcome : Outcome]]
        /\ \A u \in Request : pending'[u].outcome = "asked" => pending'[u] = pending[u]
        /\ \A u \in Request :
             \/ pending'[u] = pending[u]
             \/ /\ pending[u].outcome # "none" /\ pending'[u].outcome # "none"
                /\ pending'[u].s = pending[u].s /\ pending'[u].client = pending[u].client
    <3> DEFINE Pending == [s : Session \cup {0}, client : Desktop \cup {NoOne}, outcome : Outcome]
    <3>1. \A h \in Pending : LET z == [h EXCEPT !.outcome = "unreachable"]
                             IN z \in Pending /\ z.outcome = "unreachable" /\ z.s = h.s /\ z.client = h.client
      BY DEF Outcome
    <3>2. pending \in [Request -> Pending]
      BY <1>1 DEF BridgeTypes
    <3>3. pending' = [r \in Request |-> IF pending[r].outcome = "asked" /\ pending[r].client = d
                                        THEN [pending[r] EXCEPT !.outcome = "unreachable"] ELSE pending[r]]
      BY <2>1 DEF Unreached
    <3> HIDE DEF Pending
    <3>4. pending' \in [Request -> Pending]
      BY <3>1, <3>2, <3>3
    <3>5. ASSUME NEW u \in Request
          PROVE  \/ pending'[u] = pending[u]
                 \/ /\ pending[u].outcome # "none" /\ pending'[u].outcome = "unreachable"
                    /\ pending'[u].s = pending[u].s /\ pending'[u].client = pending[u].client
      <4>1. PICK h \in Pending : h = pending[u]
        BY <3>2
      <4>2. pending'[u] = IF h.outcome = "asked" /\ h.client = d THEN [h EXCEPT !.outcome = "unreachable"] ELSE h
        BY <3>3, <4>1
      <4> QED
        BY <3>1, <4>1, <4>2
    <3>6. pending' \in [Request -> [s : Session \cup {0}, client : Desktop \cup {NoOne}, outcome : Outcome]]
      BY <3>4 DEF Pending
    <3> QED
      BY <3>5, <3>6
  <2>5. \A r \in Request : pending'[r].outcome = "asked" => pending'[r].client \in Desktop
    BY <1>1, <2>4 DEF BridgeTypes
  <2>6. served' \in [Desktop -> BOOLEAN]
    BY <1>1, <2>1 DEF BridgeTypes
  <2>7. WindowTypes' /\ BridgeTypes'
    BY <1>1, <2>1, <2>2, <2>3, <2>4, <2>5, <2>6 DEF WindowTypes, BridgeTypes, window
  <2>8. LetGoInv'
    <3>1. \A e \in Desktop : LetGoBy(up'[e], letgo'[e])
      <4>1. \A v : LetGoBy(<<>>, v)
        BY DEF LetGoBy
      <4>2. \A e \in Desktop : LetGoBy(up[e], letgo[e])
        BY <1>1 DEF LetGoInv
      <4>3. letgo' = letgo
        BY <2>1 DEF window
      <4> QED
        BY <2>3, <4>1, <4>2, <4>3
    <3>2. \A r \in Request : pending[r].outcome # "none" => pending[r].s \in Session
      BY <1>1 DEF LetGoInv
    <3>3. \A e \in Desktop : \A r \in asks[e] : r \in Request
      BY <1>1 DEF WindowTypes
    <3>4. letgo' = letgo /\ asks' = asks
      BY <2>1 DEF window
    <3>5. \A r \in Request :
           \/ pending'[r] = pending[r]
           \/ /\ pending'[r].outcome # "none" /\ pending'[r].s \in Session
              /\ pending[r].outcome = "none" \/ pending'[r].s = pending[r].s
      BY <2>4, <3>2
    <3> QED
      BY <1>1, <3>1, <3>3, <3>4, <3>5, LetGoFrame
  <2> QED
    BY <2>7, <2>8, TypesAre, PTL
<1> QED
  BY <1>2, <1>3, <1>4, <1>5, <1>6, <1>7 DEF BridgeNext

\* What a break leaves of one desktop's calls and what it lets go.
LEMMA BrokenLetGo ==
  ASSUME TypesInv, NEW d \in Desktop, UNCHANGED pending,
         NEW S, S \subseteq asks[d], asks' = [asks EXCEPT ![d] = S],
         NEW q, up' = [up EXCEPT ![d] = q],
         NEW v, letgo' = [letgo EXCEPT ![d] = v], LetGoBy(q, v),
         \A r \in Reason : v[r] = letgo[d][r] \/ v[r] = NotLettingGo
  PROVE  LetGoInv'
<1>1. \A r \in Reason : v[r].step # "no" => letgo[d][r].step # "no" /\ v[r].s = letgo[d][r].s
  BY DEF NotLettingGo
<1>2. LetGoStep(d, S, q, v)
  BY <1>1 DEF LetGoStep
<1> QED
  BY <1>2, LetGoOf

\* Calls nobody waits for any more keep nothing waiting.
LEMMA OrphanedLetGo ==
  ASSUME NEW q \in Seq(Call), NEW v
  PROVE  LetGoBy(Orphaned(q), v)
<1>1. \A i \in DOMAIN Orphaned(q) : Orphaned(q)[i].by = <<"nobody">>
  BY OrphanedIs
<1>2. PICK z : z = Orphaned(q)
  OBVIOUS
<1>3. \A i \in DOMAIN z : \A r \in Reason : z[i].by # <<"letgo", r>>
  BY <1>1, <1>2
<1> QED
  BY <1>2, <1>3, LetGoNone

\* Types after a window's calls failed.
LEMMA FailsTypes ==
  ASSUME WindowTypes, NEW D, Fails(D)
  PROVE  /\ sent' \in [Desktop -> [Session -> Activity]] /\ report' \in [Desktop -> [Slot -> Report]]
         /\ conv' \in [Desktop -> ConvType]
<1>1. NoConv \in ConvType
  BY DEF NoConv, ConvType
<1>2. PICK R : R = [k \in Slot |-> NoReport] /\ R \in [Slot -> Report]
  BY AllOffIs
<1>3. sent' = [d \in Desktop |-> IF d \in D THEN AllOff ELSE sent[d]]
  BY DEF Fails
<1>4. report' = [d \in Desktop |-> IF d \in D THEN R ELSE report[d]]
  BY <1>2 DEF Fails
<1>5. conv' = [d \in Desktop |-> IF d \in D THEN NoConv ELSE conv[d]]
  BY DEF Fails
<1>6. sent' \in [Desktop -> [Session -> Activity]]
  BY <1>3, AllOffIs DEF WindowTypes
<1>7. report' \in [Desktop -> [Slot -> Report]]
  BY <1>2, <1>4 DEF WindowTypes
<1>8. conv' \in [Desktop -> ConvType]
  BY <1>1, <1>5 DEF WindowTypes
<1> QED
  BY <1>6, <1>7, <1>8

\* Types of the hand-offs that outlive a connection.
LEMMA StoppingTypes ==
  ASSUME NEW l \in [Reason -> LetGoType]
  PROVE  /\ [r \in Reason |-> IF l[r].step = "stopping" THEN l[r] ELSE NotLettingGo] \in [Reason -> LetGoType]
         /\ [r \in Reason |-> NotLettingGo] \in [Reason -> LetGoType]
<1>1. NotLettingGo \in LetGoType
  BY DEF LetGoType, NotLettingGo
<1> QED
  BY <1>1

\* What a window says first.
LEMMA SaysAllTypes ==
  ASSUME TypesInv, NEW d \in Desktop, NEW w \in [Session -> Activity], NEW q \in Seq(Call),
         SaysAll(d, w, q)
  PROVE  /\ report' \in [Desktop -> [Slot -> Report]] /\ sent' \in [Desktop -> [Session -> Activity]]
         /\ up' \in [Desktop -> Seq(Call)] /\ conv' \in [Desktop -> ConvType]
         /\ \A v : LetGoBy(q, v) => \E r : up' = [up EXCEPT ![d] = r] /\ LetGoBy(r, v)
<1>0. PICK c : c = List(<<"converge">>) /\ c \in Call /\ c.by = <<"converge">> /\ \A r : c.by # <<"letgo", r>>
  <2>1. <<"converge">> \in By
    BY DEF By
  <2>2. \A by \in By : List(by) \in Call /\ List(by).by = by
    BY DEF List, Call
  <2>3. \A r : <<"converge">> # <<"letgo", r>>
    OBVIOUS
  <2> QED
    BY <2>1, <2>2, <2>3
<1>1. PICK after \in Seq(Call) : after = <<c>> /\ after = <<List(<<"converge">>)>>
  <2>1. <<c>> \in Seq(Call)
    BY <1>0
  <2> QED
    BY <1>0, <2>1
<1>2. PICK P \in [Slot -> Report] : P = [k \in Slot |-> NoReport]
  BY AllOffIs
<1>3. Reports(d, w, AllOff, P, q, after)
  BY <1>1, <1>2 DEF SaysAll
<1>4. /\ report' \in [Desktop -> [Slot -> Report]] /\ sent' \in [Desktop -> [Session -> Activity]]
      /\ up' \in [Desktop -> Seq(Call)]
  BY <1>3, AllOffIs, ReportsTypes
<1>5. conv' \in [Desktop -> ConvType]
  <2>1. conv \in [Desktop -> ConvType] /\ [step |-> "asked", left |-> {}] \in ConvType
    BY TypesAre DEF WindowTypes, ConvType
  <2> QED
    BY <2>1 DEF SaysAll
<1>6. ASSUME NEW v, LetGoBy(q, v) PROVE \E r : up' = [up EXCEPT ![d] = r] /\ LetGoBy(r, v)
  <2>1. PICK z : UpBecomes(d, q, z, after)
    BY <1>3, AllOffIs, ReportsSay
  <2>2. /\ up' = [up EXCEPT ![d] = q \o z \o after]
        /\ z = <<>> \/ \E x \in Call : z = <<x>> /\ x.by \in HoldBy
    BY <2>1 DEF UpBecomes
  <2>3. q \o z \in Seq(Call)
    BY <2>2, OneMore
  <2>4. LetGoBy(q \o z, v)
    <3>1. CASE z = <<>>
      <4>1. q \o z = q
        BY <3>1, OneMore
      <4> QED
        BY <1>6, <4>1
    <3>2. CASE z # <<>>
      <4>1. PICK x \in Call : z = <<x>> /\ x.by \in HoldBy
        BY <2>2, <3>2
      <4>2. q \o z = Append(q, x)
        BY <4>1
      <4>3. LetGoBy(Append(q, x), v)
        BY <1>6, <4>1, HoldByIs, LetGoMore
      <4> QED
        BY <4>2, <4>3
    <3> QED
      BY <3>1, <3>2
  <2>5. PICK qz \in Seq(Call) : qz = q \o z
    BY <2>3
  <2>6. (q \o z) \o after = Append(qz, c)
    BY <1>0, <1>1, <2>5
  <2>7. LetGoBy(Append(qz, c), v)
    BY <1>0, <2>4, <2>5, LetGoMore
  <2> QED
    BY <2>2, <2>6, <2>7
<1> QED
  BY <1>4, <1>5, <1>6

\* Types after a connection dropped, or the app ended.
LEMMA DropTypes ==
  ASSUME TypesInv, NEW d \in Desktop, Drop(d) \/ Quit(d)
  PROVE  TypesInv'
<1>1. WindowTypes /\ BridgeTypes /\ LetGoInv
  BY TypesAre
<1>2. PICK v, w, S : /\ v = (IF Drop(d) THEN [r \in Reason |-> IF letgo[d][r].step = "stopping" THEN letgo[d][r] ELSE NotLettingGo]
                             ELSE [r \in Reason |-> NotLettingGo])
                     /\ w = (IF Drop(d) THEN run[d] ELSE AllOff)
                     /\ S = (IF Drop(d) THEN asks[d] ELSE {})
  OBVIOUS
<1>3. /\ letgo' = [letgo EXCEPT ![d] = v] /\ run' = [run EXCEPT ![d] = w] /\ asks' = [asks EXCEPT ![d] = S]
      /\ link' = [link EXCEPT ![d] = FALSE] /\ Fails({d})
      /\ up' = [up EXCEPT ![d] = Orphaned(up[d])] /\ looking' = [looking EXCEPT ![d] = Orphaned(looking[d])]
      /\ UNCHANGED <<holds, pending, served>>
  <2>1. CASE Drop(d)
    BY <1>1, <1>2, <2>1 DEF Drop, WindowTypes
  <2>2. CASE ~Drop(d)
    BY <1>1, <1>2, <2>2 DEF Quit, WindowTypes
  <2> QED
    BY <2>1, <2>2
<1>4. up[d] \in Seq(Call) /\ looking[d] \in Seq(HoldCall) /\ letgo[d] \in [Reason -> LetGoType]
  BY <1>1 DEF WindowTypes, BridgeTypes
<1>5. Orphaned(up[d]) \in Seq(Call) /\ Orphaned(looking[d]) \in Seq(HoldCall)
  BY <1>4, OrphanedIs
<1>6. v \in [Reason -> LetGoType] /\ \A r \in Reason : v[r] = letgo[d][r] \/ v[r] = NotLettingGo
  BY <1>2, <1>4, StoppingTypes
<1>7. w \in [Session -> Activity] /\ S \subseteq asks[d] /\ S \in SUBSET Request
  BY <1>1, <1>2, AllOffIs DEF WindowTypes
<1>8. LetGoInv'
  <2>1. LetGoBy(Orphaned(up[d]), v)
    BY <1>4, OrphanedLetGo
  <2> QED
    BY <1>3, <1>6, <1>7, <2>1, BrokenLetGo
<1>9. /\ sent' \in [Desktop -> [Session -> Activity]] /\ report' \in [Desktop -> [Slot -> Report]]
      /\ conv' \in [Desktop -> ConvType]
  BY <1>1, <1>3, FailsTypes
<1>10. WindowTypes'
  BY <1>1, <1>3, <1>5, <1>6, <1>7, <1>9 DEF WindowTypes
<1>11. BridgeTypes'
  BY <1>1, <1>3, <1>5 DEF BridgeTypes
<1> QED
  BY <1>8, <1>10, <1>11, TypesAre, PTL

\* Types after a window was loaded again.
LEMMA ReloadTypes ==
  ASSUME TypesInv, NEW d \in Desktop, Reload(d)
  PROVE  TypesInv'
<1>1. WindowTypes /\ BridgeTypes /\ LetGoInv
  BY TypesAre
<1>2. PICK shown \in SUBSET Session : run' = [run EXCEPT ![d] = [s \in Session |-> IF s \in shown THEN run[d][s] ELSE "off"]]
  BY DEF Reload
<1>3. PICK S \in SUBSET asks[d] : asks' = [asks EXCEPT ![d] = S]
  BY DEF Reload
<1>4. /\ letgo' = [letgo EXCEPT ![d] = [r \in Reason |-> NotLettingGo]]
      /\ looking' = [looking EXCEPT ![d] = Orphaned(looking[d])]
      /\ SaysAll(d, run'[d], Orphaned(up[d])) /\ UNCHANGED <<holds, pending, served, link>>
  BY DEF Reload
<1>5. PICK w : w = [s \in Session |-> IF s \in shown THEN run[d][s] ELSE "off"]
  OBVIOUS
<1>6. w \in [Session -> Activity] /\ run' = [run EXCEPT ![d] = w]
  <2>1. run[d] \in [Session -> Activity] /\ "off" \in Activity
    BY <1>1 DEF WindowTypes, Activity
  <2> QED
    BY <1>2, <1>5, <2>1
<1>7. run' \in [Desktop -> [Session -> Activity]] /\ run'[d] = w
  BY <1>1, <1>6 DEF WindowTypes
<1>8. PICK v \in [Reason -> LetGoType] : v = [r \in Reason |-> NotLettingGo] /\ \A r \in Reason : v[r] = NotLettingGo
  <2>1. letgo[d] \in [Reason -> LetGoType]
    BY <1>1 DEF WindowTypes
  <2> QED
    BY <2>1, StoppingTypes
<1>9. Orphaned(up[d]) \in Seq(Call) /\ Orphaned(looking[d]) \in Seq(HoldCall) /\ LetGoBy(Orphaned(up[d]), v)
  BY <1>1, OrphanedIs, OrphanedLetGo DEF WindowTypes, BridgeTypes
<1>10. /\ report' \in [Desktop -> [Slot -> Report]] /\ sent' \in [Desktop -> [Session -> Activity]]
       /\ up' \in [Desktop -> Seq(Call)] /\ conv' \in [Desktop -> ConvType]
       /\ \E r : up' = [up EXCEPT ![d] = r] /\ LetGoBy(r, v)
  BY <1>4, <1>6, <1>7, <1>9, SaysAllTypes
<1>11. LetGoInv'
  <2>1. PICK q : up' = [up EXCEPT ![d] = q] /\ LetGoBy(q, v)
    BY <1>10
  <2>2. LetGoStep(d, S, q, v)
    BY <1>3, <1>4, <1>8, <2>1 DEF LetGoStep, NotLettingGo
  <2> QED
    BY <2>2, LetGoOf
<1>12. WindowTypes'
  BY <1>1, <1>3, <1>4, <1>7, <1>8, <1>10 DEF WindowTypes
<1>13. BridgeTypes'
  BY <1>1, <1>4, <1>9 DEF BridgeTypes
<1> QED
  BY <1>11, <1>12, <1>13, TypesAre, PTL

\* Types after a connection.
LEMMA ConnectTypes ==
  ASSUME TypesInv, NEW d \in Desktop, Connect(d)
  PROVE  TypesInv'
<1>1. WindowTypes /\ BridgeTypes /\ LetGoInv
  BY TypesAre
<1>2. /\ link' = [link EXCEPT ![d] = TRUE] /\ served' = [served EXCEPT ![d] = TRUE]
      /\ SaysAll(d, run[d], <<>>) /\ UNCHANGED <<holds, pending, looking, asks, run, letgo>>
  BY DEF Connect
<1>3. run[d] \in [Session -> Activity] /\ <<>> \in Seq(Call) /\ LetGoBy(<<>>, letgo[d])
  BY <1>1 DEF WindowTypes, LetGoBy
<1>4. /\ report' \in [Desktop -> [Slot -> Report]] /\ sent' \in [Desktop -> [Session -> Activity]]
      /\ up' \in [Desktop -> Seq(Call)] /\ conv' \in [Desktop -> ConvType]
      /\ \E r : up' = [up EXCEPT ![d] = r] /\ LetGoBy(r, letgo[d])
  BY <1>2, <1>3, SaysAllTypes
<1>5. LetGoInv'
  <2>1. PICK q : up' = [up EXCEPT ![d] = q] /\ LetGoBy(q, letgo[d])
    BY <1>4
  <2>2. asks' = [asks EXCEPT ![d] = asks[d]] /\ letgo' = [letgo EXCEPT ![d] = letgo[d]]
    BY <1>1, <1>2 DEF WindowTypes
  <2> QED
    BY <1>2, <2>1, <2>2, BrokenLetGo
<1>6. WindowTypes'
  BY <1>1, <1>2, <1>4 DEF WindowTypes
<1>7. BridgeTypes'
  BY <1>1, <1>2 DEF BridgeTypes
<1> QED
  BY <1>5, <1>6, <1>7, TypesAre, PTL

\* Types after a request.
LEMMA RequestTypes ==
  ASSUME TypesInv, NEW r \in Request, NEW s \in Session, RequestHandoff(r, s)
  PROVE  TypesInv'
<1>1. WindowTypes /\ BridgeTypes /\ LetGoInv
  BY TypesAre
<1>2. PICK h, o : h = holds[s] /\ o = Asked(holds[s])
  OBVIOUS
<1>3. /\ pending[r] = Unasked /\ pending' = [pending EXCEPT ![r] = [s |-> s, client |-> h.client, outcome |-> o]]
      /\ asks' = IF o \in {"asked", "unreachable"} THEN [asks EXCEPT ![h.client] = @ \cup {r}] ELSE asks
      /\ UNCHANGED <<holds, served, looking, up, link, window>>
  BY <1>2 DEF RequestHandoff
<1>4. /\ o \in {"notHeld", "busy", "asked", "unreachable"} /\ h.client \in Desktop \cup {NoOne}
      /\ o # "notHeld" => h.client \in Desktop
  <2>1. h \in [client : Desktop \cup {NoOne}, busy : BOOLEAN] /\ (h.client = NoOne => h = Free)
    BY <1>1, <1>2 DEF BridgeTypes
  <2> QED
    BY <1>2, <2>1 DEF Asked
<1>5. PICK z : z = [s |-> s, client |-> h.client, outcome |-> o]
  OBVIOUS
<1> DEFINE Pending == [s : Session \cup {0}, client : Desktop \cup {NoOne}, outcome : Outcome]
<1>6. z \in Pending /\ z.s = s /\ z.client = h.client /\ z.outcome = o
  BY <1>4, <1>5 DEF Outcome
<1>7. pending \in [Request -> Pending]
  BY <1>1 DEF BridgeTypes
<1> HIDE DEF Pending
<1>8. pending' \in [Request -> Pending] /\ pending'[r] = z /\ \A u \in Request \ {r} : pending'[u] = pending[u]
  BY <1>3, <1>5, <1>6, <1>7
<1>9. \A u \in Request : pending'[u].outcome = "asked" => pending'[u].client \in Desktop
  BY <1>1, <1>4, <1>6, <1>8 DEF BridgeTypes
<1>10. BridgeTypes'
  BY <1>1, <1>3, <1>8, <1>9 DEF BridgeTypes, Pending
<1>11. asks' \in [Desktop -> SUBSET Request] /\ \A e \in Desktop : \A u \in asks'[e] : u \in asks[e] \/ u = r
  <2>1. asks \in [Desktop -> SUBSET Request]
    BY <1>1 DEF WindowTypes
  <2>2. CASE o \in {"asked", "unreachable"}
    <3>1. PICK e \in Desktop : e = h.client
      BY <1>4, <2>2
    <3>2. asks' = [asks EXCEPT ![e] = asks[e] \cup {r}]
      BY <1>3, <2>2, <3>1
    <3> QED
      BY <2>1, <3>2
  <2>3. CASE o \notin {"asked", "unreachable"}
    BY <1>3, <2>1, <2>3
  <2> QED
    BY <2>2, <2>3
<1>12. WindowTypes'
  BY <1>1, <1>3, <1>11 DEF WindowTypes, window
<1>13. LetGoInv'
  <2>1. letgo' = letgo /\ up' = up
    BY <1>3 DEF window
  <2>2. pending[r].outcome = "none"
    BY <1>3 DEF Unasked
  <2>3. \A u \in Request :
           \/ pending'[u] = pending[u]
           \/ /\ pending'[u].outcome # "none" /\ pending'[u].s \in Session
              /\ pending[u].outcome = "none" \/ pending'[u].s = pending[u].s
    BY <1>4, <1>6, <1>8, <2>2
  <2>4. \A e \in Desktop : letgo[e][r].step = "no"
    BY <1>1, <2>2 DEF LetGoInv, Reason
  <2>5. pending'[r].outcome # "none"
    BY <1>4, <1>6, <1>8
  <2>6. \A e \in Desktop : \A u \in asks'[e] : /\ u \in Request
                                               /\ u \in asks[e] \/ (pending'[u].outcome # "none" /\ letgo'[e][u].step = "no")
    BY <1>11, <2>1, <2>4, <2>5
  <2>7. \A e \in Desktop : LetGoBy(up'[e], letgo'[e])
    BY <1>1, <2>1 DEF LetGoInv
  <2> QED
    BY <1>1, <2>1, <2>3, <2>6, <2>7, LetGoFrame
<1> QED
  BY <1>10, <1>12, <1>13, TypesAre, PTL

\* Types after a request timed out.
LEMMA TimesOutTypes ==
  ASSUME TypesInv, NEW r \in Request, TimesOut(r)
  PROVE  TypesInv'
<1>1. WindowTypes /\ BridgeTypes /\ LetGoInv
  BY TypesAre
<1>2. /\ pending[r].outcome = "asked" /\ Settle(r, "unreachable")
      /\ UNCHANGED <<holds, served, looking, up, asks, link, window>>
  BY DEF TimesOut
<1>3. /\ pending' \in [Request -> [s : Session \cup {0}, client : Desktop \cup {NoOne}, outcome : Outcome]]
      /\ \A u \in Request : pending'[u].outcome = "asked" => pending'[u] = pending[u]
      /\ \A u \in Request :
           \/ pending'[u] = pending[u]
           \/ /\ pending[u].outcome # "none" /\ pending'[u].outcome # "none"
              /\ pending'[u].s = pending[u].s /\ pending'[u].client = pending[u].client
  BY <1>1, <1>2, SettleTypes DEF Outcome
<1>4. \A u \in Request : pending'[u].outcome = "asked" => pending'[u].client \in Desktop
  BY <1>1, <1>3 DEF BridgeTypes
<1>5. BridgeTypes'
  BY <1>1, <1>2, <1>3, <1>4 DEF BridgeTypes
<1>6. WindowTypes'
  BY <1>1, <1>2 DEF WindowTypes, window
<1>7. LetGoInv'
  <2>1. \A u \in Request : pending[u].outcome # "none" => pending[u].s \in Session
    BY <1>1 DEF LetGoInv
  <2>2. letgo' = letgo /\ up' = up /\ asks' = asks
    BY <1>2 DEF window
  <2>3. \A e \in Desktop : \A u \in asks[e] : u \in Request
    BY <1>1 DEF WindowTypes
  <2>4. \A e \in Desktop : LetGoBy(up'[e], letgo'[e])
    BY <1>1, <2>2 DEF LetGoInv
  <2>5. \A u \in Request :
           \/ pending'[u] = pending[u]
           \/ /\ pending'[u].outcome # "none" /\ pending'[u].s \in Session
              /\ pending[u].outcome = "none" \/ pending'[u].s = pending[u].s
    BY <1>3, <2>1
  <2> QED
    BY <1>1, <2>2, <2>3, <2>4, <2>5, LetGoFrame
<1> QED
  BY <1>5, <1>6, <1>7, TypesAre, PTL

\* Types after the bridge restarted.
LEMMA RestartTypes ==
  ASSUME TypesInv, BridgeRestart
  PROVE  TypesInv'
<1>1. WindowTypes /\ BridgeTypes /\ LetGoInv
  BY TypesAre
<1>2. /\ holds' = [s \in Session |-> Free]
      /\ pending' = [r \in Request |-> IF pending[r].outcome = "asked" THEN [pending[r] EXCEPT !.outcome = "lost"] ELSE pending[r]]
      /\ served' = [d \in Desktop |-> FALSE] /\ looking' = [d \in Desktop |-> <<>>]
      /\ up' = [d \in Desktop |-> <<>>] /\ asks' = [d \in Desktop |-> {}]
      /\ link' = [d \in Desktop |-> FALSE] /\ Fails(Desktop) /\ run' = run
      /\ letgo' = [d \in Desktop |-> [r \in Reason |->
                     IF letgo[d][r].step = "stopping" THEN letgo[d][r] ELSE NotLettingGo]]
  BY DEF BridgeRestart
<1> DEFINE Pending == [s : Session \cup {0}, client : Desktop \cup {NoOne}, outcome : Outcome]
<1>3. \A h \in Pending : LET z == [h EXCEPT !.outcome = "lost"]
                         IN z \in Pending /\ z.outcome = "lost" /\ z.s = h.s /\ z.client = h.client
  BY DEF Outcome
<1>4. pending \in [Request -> Pending]
  BY <1>1 DEF BridgeTypes
<1> HIDE DEF Pending
<1>5. pending' \in [Request -> Pending]
  BY <1>2, <1>3, <1>4
<1>6. ASSUME NEW u \in Request
      PROVE  /\ pending'[u].outcome # "asked"
             /\ \/ pending'[u] = pending[u]
                \/ pending[u].outcome # "none" /\ pending'[u].outcome # "none" /\ pending'[u].s = pending[u].s
  <2>1. PICK h \in Pending : h = pending[u]
    BY <1>4
  <2>2. pending'[u] = IF h.outcome = "asked" THEN [h EXCEPT !.outcome = "lost"] ELSE h
    BY <1>2, <2>1
  <2> QED
    BY <1>3, <2>1, <2>2
<1>7. Free \in [client : Desktop \cup {NoOne}, busy : BOOLEAN]
  BY DEF Free
<1>8. BridgeTypes'
  <2>1. holds' \in [Session -> [client : Desktop \cup {NoOne}, busy : BOOLEAN]]
    BY <1>2, <1>7
  <2>2. \A s \in Session : holds'[s] = Free
    BY <1>2
  <2>3. looking' \in [Desktop -> Seq(HoldCall)] /\ served' \in [Desktop -> BOOLEAN]
    BY <1>2
  <2> QED
    BY <1>5, <1>6, <2>1, <2>2, <2>3 DEF BridgeTypes, Pending
<1>9. letgo' \in [Desktop -> [Reason -> LetGoType]]
  <2>1. NotLettingGo \in LetGoType
    BY DEF LetGoType, NotLettingGo
  <2>2. letgo \in [Desktop -> [Reason -> LetGoType]]
    BY <1>1 DEF WindowTypes
  <2> QED
    BY <1>2, <2>1, <2>2
<1>10. /\ sent' \in [Desktop -> [Session -> Activity]] /\ report' \in [Desktop -> [Slot -> Report]]
       /\ conv' \in [Desktop -> ConvType]
  BY <1>1, <1>2, FailsTypes
<1>11. up' \in [Desktop -> Seq(Call)] /\ asks' \in [Desktop -> SUBSET Request] /\ link' \in [Desktop -> BOOLEAN]
  BY <1>2
<1>12. WindowTypes'
  BY <1>1, <1>2, <1>9, <1>10, <1>11 DEF WindowTypes
<1>13. LetGoInv'
  <2>1. \A e \in Desktop : LetGoBy(up'[e], letgo'[e])
    BY <1>2 DEF LetGoBy
  <2>2. \A e \in Desktop : \A u \in asks'[e] : FALSE
    BY <1>2
  <2>3. \A u \in Request : pending[u].outcome # "none" => pending[u].s \in Session
    BY <1>1 DEF LetGoInv
  <2>4. ASSUME NEW e \in Desktop, NEW r \in Reason, letgo'[e][r].step # "no"
        PROVE  letgo[e][r].step # "no" /\ letgo'[e][r].s = letgo[e][r].s
    <3>1. letgo'[e][r] = IF letgo[e][r].step = "stopping" THEN letgo[e][r] ELSE NotLettingGo
      BY <1>2
    <3> QED
      BY <2>4, <3>1 DEF NotLettingGo
  <2>5. \A u \in Request :
           \/ pending'[u] = pending[u]
           \/ /\ pending'[u].outcome # "none" /\ pending'[u].s \in Session
              /\ pending[u].outcome = "none" \/ pending'[u].s = pending[u].s
    BY <1>6, <2>3
  <2> QED
    BY <1>1, <2>1, <2>2, <2>4, <2>5, LetGoFrame
<1> QED
  BY <1>8, <1>12, <1>13, TypesAre, PTL

\* Types at first.
LEMMA InitTypes == Init => TypesInv
<1> SUFFICES ASSUME Init PROVE TypesInv
  OBVIOUS
<1>1. Free \in [client : Desktop \cup {NoOne}, busy : BOOLEAN] /\ Unasked \in [s : Session \cup {0}, client : Desktop \cup {NoOne}, outcome : Outcome]
  BY DEF Free, Unasked, Outcome
<1>2. BridgeTypes
  BY <1>1 DEF Init, BridgeTypes, Unasked
<1>3. NotLettingGo \in LetGoType /\ NoConv \in ConvType
  BY DEF NotLettingGo, LetGoType, NoConv, ConvType
<1>4. PICK R \in [Slot -> Report] : R = [k \in Slot |-> NoReport]
  BY AllOffIs
<1>5. WindowTypes
  <2>1. report = [d \in Desktop |-> R]
    BY <1>4 DEF Init
  <2>2. report \in [Desktop -> [Slot -> Report]]
    BY <2>1
  <2>3. letgo \in [Desktop -> [Reason -> LetGoType]]
    BY <1>3 DEF Init
  <2> QED
    BY <1>3, <2>2, <2>3, AllOffIs DEF Init, WindowTypes
<1>6. LetGoInv
  <2>1. \A d \in Desktop, r \in Reason : letgo[d][r].step = "no"
    BY DEF Init, NotLettingGo
  <2>2. \A d \in Desktop : LetGoBy(up[d], letgo[d])
    BY DEF Init, LetGoBy
  <2> QED
    BY <2>1, <2>2 DEF Init, LetGoInv, Unasked
<1> QED
  BY <1>2, <1>5, <1>6, TypesAre

\* Every step keeps the types.
LEMMA NextTypes == TypesInv /\ [Next]_vars => TypesInv'
<1> SUFFICES ASSUME TypesInv, [Next]_vars PROVE TypesInv'
  OBVIOUS
<1>1. ASSUME NEW d \in Desktop, WindowNext(d) PROVE TypesInv'
  BY <1>1, WindowStepTypes, WindowLetGo, TypesAre, PTL
<1>2. CASE UNCHANGED vars
  BY <1>2 DEF vars, bridge, window, TypesInv, TypeOK, CallTypes, LetGoInv
<1> QED
  BY <1>1, <1>2, BridgeStepTypes, DropTypes, ReloadTypes, ConnectTypes, RequestTypes, TimesOutTypes, RestartTypes DEF Next

\* Whatever breaks and whichever schedule is taken, what the bridge keeps is of a
\* desktop's session, a request that is open was asked of one, and what a window
\* has under way is of its own tabs.
THEOREM TypeCorrect == Spec => []TypeOK
<1>1. Spec => []TypesInv
  BY InitTypes, NextTypes, PTL DEF Spec
<1>2. TypesInv => TypeOK
  BY DEF TypesInv
<1> QED
  BY <1>1, <1>2, PTL
--------------------------------------------------------------------------------
(* Calls of a desktop, as the bridge has them *)

LEMMA NothingBefore == \A q \in Seq(Call) : <<>> \o q = q
OBVIOUS

\* What waits for threadForSession is older than what is on its way.
LEMMA HandledFirst ==
  ASSUME NEW l \in Seq(HoldCall), l # <<>>, NEW u \in Seq(Call)
  PROVE  /\ l \o u \in Seq(Call) /\ l \o u # <<>> /\ Head(l \o u) = Head(l)
         /\ Tail(l \o u) = Tail(l) \o u
<1>1. l \in Seq(Call)
  BY HoldIsCall
<1>2. l \o u \in Seq(Call)
  BY <1>1
<1>3. Len(l) \in Nat \ {0} /\ Len(u) \in Nat /\ Len(l \o u) = Len(l) + Len(u)
  BY <1>1
<1>4. l \o u # <<>> /\ Head(l \o u) = Head(l)
  BY <1>1, <1>2, <1>3
<1>5. Tail(l \o u) = Tail(l) \o u
  <2>1. Tail(l \o u) \in Seq(Call) /\ Tail(l) \o u \in Seq(Call) /\ Tail(l) \in Seq(Call)
    BY <1>1, <1>2, <1>4
  <2>2. Len(Tail(l \o u)) = Len(l) + Len(u) - 1 /\ Len(Tail(l) \o u) = Len(l) + Len(u) - 1 /\ Len(Tail(l)) = Len(l) - 1
    BY <1>1, <1>2, <1>3, <1>4
  <2>3. \A i \in 1 .. Len(l) + Len(u) - 1 : Tail(l \o u)[i] = (Tail(l) \o u)[i]
    BY <1>1, <1>2, <1>3, <1>4, <2>1, <2>2
  <2> QED
    BY <2>1, <2>2, <2>3, SeqEqual
<1> QED
  BY <1>2, <1>4, <1>5

\* A call that reaches its handler is as old as it was.
LEMMA CalledFirst ==
  ASSUME NEW u \in Seq(Call), u # <<>>
  PROVE  Append(<<>>, Head(u)) \o Tail(u) = u
<1>1. Head(u) \in Call /\ Tail(u) \in Seq(Call) /\ Len(Tail(u)) = Len(u) - 1 /\ Len(u) \in Nat \ {0} /\ Head(u) = u[1]
  OBVIOUS
<1>2. PICK h \in Call, r \in Seq(Call) : h = Head(u) /\ r = Tail(u)
  BY <1>1
<1>3. Append(<<>>, h) = <<h>> /\ <<h>> \in Seq(Call) /\ Len(<<h>>) = 1 /\ <<h>>[1] = h
  OBVIOUS
<1>4. <<h>> \o r \in Seq(Call) /\ Len(<<h>> \o r) = Len(u)
  BY <1>1, <1>2, <1>3
<1>5. \A i \in 1 .. Len(u) : (<<h>> \o r)[i] = u[i]
  BY <1>1, <1>2, <1>3
<1> QED
  BY <1>2, <1>3, <1>4, <1>5, SeqEqual

\* A call that is made is the youngest.
LEMMA SaidLast ==
  ASSUME NEW l \in Seq(HoldCall), NEW u \in Seq(Call)
  PROVE  /\ l \o u \in Seq(Call)
         /\ \A x \in Call : l \o Append(u, x) = Append(l \o u, x)
<1>1. l \in Seq(Call)
  BY HoldIsCall
<1>2. l \o u \in Seq(Call)
  BY <1>1
<1>3. ASSUME NEW x \in Call PROVE l \o Append(u, x) = Append(l \o u, x)
  <2>1. Append(u, x) \in Seq(Call) /\ Len(Append(u, x)) = Len(u) + 1 /\ Len(u) \in Nat /\ Len(l) \in Nat
    BY <1>1
  <2>2. l \o Append(u, x) \in Seq(Call) /\ Append(l \o u, x) \in Seq(Call)
    BY <1>1, <1>2, <2>1
  <2>3. Len(l \o Append(u, x)) = Len(l) + Len(u) + 1 /\ Len(Append(l \o u, x)) = Len(l) + Len(u) + 1
    BY <1>1, <1>2, <2>1
  <2>4. \A i \in 1 .. Len(l) + Len(u) + 1 : (l \o Append(u, x))[i] = Append(l \o u, x)[i]
    BY <1>1, <1>2, <2>1, <2>2, <2>3
  <2> QED
    BY <2>2, <2>3, <2>4, SeqEqual
<1> QED
  BY <1>2, <1>3

\* The calls of a window that was loaded again, and those of before.
LEMMA OrphanedCalls ==
  ASSUME NEW l \in Seq(HoldCall), NEW u \in Seq(Call)
  PROVE  /\ Orphaned(l) \o Orphaned(u) \in Seq(Call) /\ l \o u \in Seq(Call)
         /\ DOMAIN (Orphaned(l) \o Orphaned(u)) = DOMAIN (l \o u)
         /\ \A i \in DOMAIN (l \o u) :
              (Orphaned(l) \o Orphaned(u))[i] = [(l \o u)[i] EXCEPT !.by = <<"nobody">>]
<1>1. l \in Seq(Call) /\ Orphaned(l) \in Seq(Call) /\ Orphaned(u) \in Seq(Call)
  BY HoldIsCall, OrphanedIs
<1>2. PICK lo \in Seq(Call), uo \in Seq(Call) : lo = Orphaned(l) /\ uo = Orphaned(u)
  BY <1>1
<1>3. /\ DOMAIN lo = DOMAIN l /\ DOMAIN uo = DOMAIN u
      /\ \A i \in DOMAIN l : lo[i] = [l[i] EXCEPT !.by = <<"nobody">>]
      /\ \A i \in DOMAIN u : uo[i] = [u[i] EXCEPT !.by = <<"nobody">>]
  BY <1>2, OrphanedIs
<1>4. Len(lo) = Len(l) /\ Len(uo) = Len(u) /\ Len(l) \in Nat /\ Len(u) \in Nat
  BY <1>1, <1>3
<1>5. lo \o uo \in Seq(Call) /\ l \o u \in Seq(Call)
  BY <1>1
<1>6. DOMAIN (lo \o uo) = 1 .. Len(l) + Len(u) /\ DOMAIN (l \o u) = 1 .. Len(l) + Len(u)
  <2>1. Len(lo \o uo) = Len(l) + Len(u) /\ Len(l \o u) = Len(l) + Len(u)
    <3>1. \A y, z \in Seq(Call) : Len(y \o z) = Len(y) + Len(z)
      OBVIOUS
    <3> QED
      BY <1>1, <1>2, <1>4, <3>1
  <2>2. \A z \in Seq(Call) : DOMAIN z = 1 .. Len(z)
    OBVIOUS
  <2> QED
    BY <1>5, <2>1, <2>2
<1>7. ASSUME NEW i \in 1 .. Len(l) + Len(u) PROVE (lo \o uo)[i] = [(l \o u)[i] EXCEPT !.by = <<"nobody">>]
  <2>1. CASE i <= Len(l)
    <3>1. i \in DOMAIN l /\ (lo \o uo)[i] = lo[i] /\ (l \o u)[i] = l[i]
      BY <1>1, <1>4, <2>1
    <3> QED
      BY <1>3, <3>1
  <2>2. CASE i > Len(l)
    <3>1. i - Len(l) \in DOMAIN u /\ (lo \o uo)[i] = uo[i - Len(l)] /\ (l \o u)[i] = u[i - Len(l)]
      BY <1>1, <1>4, <2>2
    <3> QED
      BY <1>3, <3>1
  <2> QED
    BY <1>4, <2>1, <2>2
<1> QED
  BY <1>2, <1>5, <1>6, <1>7
--------------------------------------------------------------------------------
(* What a step leaves of SayInv *)

\* A request that is open was opened by this step, or was open as it is.
PendingMild ==
  \A r \in Request : pending[r].outcome # "none" =>
    /\ pending'[r].outcome # "none" /\ pending'[r].s = pending[r].s
    /\ pending'[r].outcome = "asked" => pending'[r] = pending[r]

\* Answers under way, of requests that were settled or opened meanwhile.
LEMMA AnswersMild ==
  ASSUME NEW d, NEW q \in Seq(Call), NEW w, AnswersBy(d, q, w, pending), PendingMild
  PROVE  AnswersBy(d, q, w, pending')
<1>1. ASSUME NEW i \in DOMAIN q, q[i].m = "answer"
      PROVE  LET h == pending'[q[i].r]
             IN /\ h.outcome # "none"
                /\ q[i].o = "released" /\ h.outcome = "asked" /\ h.client = d =>
                     \/ w[h.s] = "off"
                     \/ \E j \in DOMAIN q : j > i /\ q[j].m = "hold" /\ q[j].s = h.s
  <2>1. q[i] \in Call
    OBVIOUS
  <2>2. PICK r \in Request : r = q[i].r
    BY <1>1, <2>1, CallIs
  <2>3. PICK h, g : h = pending[r] /\ g = pending'[r]
    OBVIOUS
  <2>4. /\ h.outcome # "none"
        /\ q[i].o = "released" /\ h.outcome = "asked" /\ h.client = d =>
             \/ w[h.s] = "off"
             \/ \E j \in DOMAIN q : j > i /\ q[j].m = "hold" /\ q[j].s = h.s
    BY <1>1, <2>2, <2>3 DEF AnswersBy
  <2>5. g.outcome # "none" /\ g.s = h.s /\ (g.outcome = "asked" => g = h)
    BY <2>3, <2>4 DEF PendingMild
  <2> QED
    BY <2>2, <2>3, <2>4, <2>5
<1> QED
  BY <1>1 DEF AnswersBy

\* A session that runs no more is as well released as before.
LEMMA AnswersFewer ==
  ASSUME NEW d, NEW q \in Seq(Call), NEW w, NEW v, NEW asked, AnswersBy(d, q, w, asked),
         \A r \in Request : asked[r].outcome # "none" => asked[r].s \in Session,
         \A u \in Session : w[u] = "off" => v[u] = "off"
  PROVE  AnswersBy(d, q, v, asked)
<1>1. ASSUME NEW i \in DOMAIN q, q[i].m = "answer"
      PROVE  LET h == asked[q[i].r]
             IN /\ h.outcome # "none"
                /\ q[i].o = "released" /\ h.outcome = "asked" /\ h.client = d =>
                     \/ v[h.s] = "off"
                     \/ \E j \in DOMAIN q : j > i /\ q[j].m = "hold" /\ q[j].s = h.s
  <2>1. q[i] \in Call
    OBVIOUS
  <2>2. PICK r \in Request : r = q[i].r
    BY <1>1, <2>1, CallIs
  <2>3. PICK h : h = asked[r]
    OBVIOUS
  <2>4. /\ h.outcome # "none"
        /\ q[i].o = "released" /\ h.outcome = "asked" /\ h.client = d =>
             \/ w[h.s] = "off"
             \/ \E j \in DOMAIN q : j > i /\ q[j].m = "hold" /\ q[j].s = h.s
    BY <1>1, <2>2, <2>3 DEF AnswersBy
  <2> QED
    BY <2>2, <2>3, <2>4
<1> QED
  BY <1>1 DEF AnswersBy

\* What the bridge keeps for a desktop that the step is not about.
LEMMA KeepsStays ==
  ASSUME NEW e,
         \A s \in Session : holds'[s] = holds[s] \/ (holds[s].client # e /\ holds'[s].client # e)
  PROVE  Keeps(e)' = Keeps(e)
<1>1. \A s \in Session :
        (IF holds'[s].client # e THEN "off" ELSE IF holds'[s].busy THEN "working" ELSE "idle")
          = (IF holds[s].client # e THEN "off" ELSE IF holds[s].busy THEN "working" ELSE "idle")
  OBVIOUS
<1> QED
  BY <1>1 DEF Keeps

\* A step of one desktop, or of the bridge about it.
LEMMA LinkedFrame ==
  ASSUME TypesInv, LinkedInv, PendingMild, NEW d \in Desktop,
         \A e \in Desktop \ {d} : link'[e] =>
           /\ link[e] /\ report'[e] = report[e] /\ sent'[e] = sent[e] /\ run'[e] = run[e]
           /\ up'[e] = up[e] /\ looking'[e] = looking[e] /\ conv'[e] = conv[e],
         \A e \in Desktop \ {d}, s \in Session :
           holds'[s] = holds[s] \/ (holds[s].client # e /\ holds'[s].client # e),
         link'[d] => DeskBy(d, report'[d], sent'[d], run'[d], Calls(d)', Keeps(d)', conv'[d], pending')
  PROVE  LinkedInv'
<1>1. ASSUME NEW e \in Desktop, link'[e]
      PROVE  DeskBy(e, report'[e], sent'[e], run'[e], Calls(e)', Keeps(e)', conv'[e], pending')
  <2>1. CASE e = d
    BY <1>1, <2>1
  <2>2. CASE e # d
    <3>1. /\ link[e] /\ report'[e] = report[e] /\ sent'[e] = sent[e] /\ run'[e] = run[e]
          /\ up'[e] = up[e] /\ looking'[e] = looking[e] /\ conv'[e] = conv[e]
      BY <1>1, <2>2
    <3>2. Calls(e)' = Calls(e)
      BY <3>1 DEF Calls
    <3>3. Keeps(e)' = Keeps(e)
      BY <2>2, KeepsStays
    <3>4. DeskBy(e, report[e], sent[e], run[e], Calls(e), Keeps(e), conv[e], pending)
      BY <3>1 DEF LinkedInv
    <3>5. looking[e] \in Seq(HoldCall) /\ up[e] \in Seq(Call)
      BY DEF TypesInv, CallTypes
    <3>6. Calls(e) \in Seq(Call)
      BY <3>5, SaidLast DEF Calls
    <3>7. AnswersBy(e, Calls(e), run[e], pending')
      BY <3>4, <3>6, AnswersMild DEF DeskBy
    <3>8. DeskBy(e, report[e], sent[e], run[e], Calls(e), Keeps(e), conv[e], pending')
      BY <3>4, <3>7 DEF DeskBy
    <3> QED
      BY <3>1, <3>2, <3>3, <3>8
  <2> QED
    BY <2>1, <2>2
<1> QED
  BY <1>1 DEF LinkedInv

\* A step after which a desktop writes only what it wrote.
LEMMA WriterFrame ==
  ASSUME WriterInv,
         \A e \in Desktop, s \in Session : Writes(e, s)' => Writes(e, s),
         \A r \in Request : pending'[r].outcome = "asked" => pending'[r] = pending[r]
  PROVE  WriterInv'
<1>1. \A d, e \in Desktop, s \in Session : Writes(d, s)' /\ Writes(e, s)' => d = e
  BY DEF WriterInv
<1>2. \A r \in Request, s \in Session : pending'[r].outcome = "asked" /\ pending'[r].s = s =>
       \A e \in Desktop \ {pending'[r].client} : ~Writes(e, s)'
  BY DEF WriterInv
<1> QED
  BY <1>1, <1>2 DEF WriterInv

\* Holds under way, after one more call or one less.
LEMMA HoldsInIs ==
  ASSUME NEW q \in Seq(Call), NEW s
  PROVE  /\ \A x \in Call : HoldsIn(Append(q, x), s) => HoldsIn(q, s) \/ (x.m = "hold" /\ x.s = s)
         /\ q # <<>> => (HoldsIn(Tail(q), s) => HoldsIn(q, s))
<1>1. ASSUME NEW x \in Call, HoldsIn(Append(q, x), s) PROVE HoldsIn(q, s) \/ (x.m = "hold" /\ x.s = s)
  <2>1. PICK n, z : n = Len(q) /\ z = Append(q, x)
    OBVIOUS
  <2>2. /\ DOMAIN z = 1 .. n + 1 /\ DOMAIN q = 1 .. n /\ n \in Nat
        /\ \A i \in 1 .. n : z[i] = q[i]
        /\ z[n + 1] = x
    BY <2>1, AppendIs
  <2>3. \A i \in DOMAIN z : z[i] = x \/ (i \in DOMAIN q /\ z[i] = q[i])
    BY <2>2
  <2> QED
    BY <1>1, <2>1, <2>3 DEF HoldsIn
<1>2. ASSUME q # <<>>, HoldsIn(Tail(q), s) PROVE HoldsIn(q, s)
  <2>1. PICK n \in Nat \ {0}, r \in Seq(Call) :
          /\ r = Tail(q)
          /\ DOMAIN r = 1 .. n - 1 /\ DOMAIN q = 1 .. n
          /\ \A i \in DOMAIN r : r[i] = q[i + 1]
    BY <1>2, TailGives
  <2>2. \A i \in DOMAIN r : i + 1 \in DOMAIN q /\ r[i] = q[i + 1]
    BY <2>1
  <2> QED
    BY <1>2, <2>1, <2>2 DEF HoldsIn
<1> QED
  BY <1>1, <1>2
--------------------------------------------------------------------------------
(* A window's steps *)

\* Before and after a report goes on from p, of what the tabs w run since they ran
\* v: desktop d has calls l and u under way, then l and u with those of the report.
GoesFrom(d, l, u, b, c, asked, t, w, v, P, k, p, by, g) ==
  /\ l \in Seq(HoldCall) /\ u \in Seq(Call)
  /\ t \in [Session -> Activity] /\ w \in [Session -> Activity]
  /\ P \in [Slot -> Report] /\ k \in Slot /\ p \in Report /\ p.phase # "none" /\ by \in HoldBy
  /\ WantedBy([P EXCEPT ![k] = p], w) /\ ToldBy([P EXCEPT ![k] = p], t, w)
  /\ SaidBy(l \o u, b, t, w, c) /\ ConvBy(l \o u, c) /\ AnswersBy(d, l \o u, v, asked)
  /\ \A r \in Request : asked[r].outcome # "none" => asked[r].s \in Session
  /\ g = GoOn(p, t, by)
  /\ \A y \in Session : v[y] = "off" => w[y] = "off" \/ g.calls = <<Hold(y, w[y], by)>>
GoesTo(d, l, u, b, c, asked, w, P, k, g) ==
  /\ DeskBy(d, [P EXCEPT ![k] = g.p], g.sent, w, l \o (u \o g.calls), b, c, asked)
  /\ \A s \in Session : HoldsIn(l \o (u \o g.calls), s) => HoldsIn(l \o u, s) \/ w[s] # "off"

\* A report that goes on says what it was to say, and no more.
LEMMA ReportDesk ==
  ASSUME NEW d, NEW l, NEW u, NEW b, NEW c, NEW asked, NEW t, NEW w, NEW v, NEW P, NEW k, NEW p, NEW by,
         NEW g, GoesFrom(d, l, u, b, c, asked, t, w, v, P, k, p, by, g)
  PROVE  GoesTo(d, l, u, b, c, asked, w, P, k, g)
<1> USE DEF GoesFrom, GoesTo
<1>1. by # <<"converge">>
  BY HoldByIs
<1>2. PICK q \in Seq(Call) : q = l \o u
  BY SaidLast
<1>3. SaidBy(q, b, t, w, c) /\ ConvBy(q, c) /\ AnswersBy(d, q, v, asked)
  BY <1>2
<1>4. /\ WantedBy([P EXCEPT ![k] = g.p], w) /\ ToldBy([P EXCEPT ![k] = g.p], g.sent, w)
      /\ SaysOn(q, b, w, c, by, g)
  BY <1>1, <1>3, WindowGoes
<1>5. CASE g.calls = <<>>
  <2>1. SaidBy(q, b, g.sent, w, c)
    BY <1>4, <1>5 DEF SaysOn
  <2>2. \A y \in Session : v[y] = "off" => w[y] = "off"
    BY <1>5
  <2>3. AnswersBy(d, q, w, asked)
    BY <1>3, <2>2, AnswersFewer
  <2>4. l \o (u \o g.calls) = q
    BY <1>2, <1>5, OneMore
  <2>5. DeskBy(d, [P EXCEPT ![k] = g.p], g.sent, w, q, b, c, asked)
    BY <1>3, <1>4, <2>1, <2>3 DEF DeskBy
  <2> QED
    BY <1>2, <2>4, <2>5
<1>6. CASE g.calls # <<>>
  <2>1. PICK x \in Call :
              /\ g.calls = <<x>> /\ x.m \in {"hold", "release"}
              /\ x.m = "hold" => x.s \in Session /\ w[x.s] # "off"
              /\ SaidBy(Append(q, x), b, g.sent, w, c) /\ ConvBy(Append(q, x), c)
    BY <1>4, <1>6 DEF SaysOn
  <2>2. l \o (u \o g.calls) = Append(q, x)
    <3>1. u \o g.calls = Append(u, x)
      BY <2>1, OneMore
    <3> QED
      BY <1>2, <3>1, SaidLast
  <2>3. \A y \in Session : v[y] = "off" => w[y] = "off" \/ (x.m = "hold" /\ x.s = y)
    <3>1. \A y \in Session : <<x>> = <<Hold(y, w[y], by)>> => x.m = "hold" /\ x.s = y
      BY DEF Hold
    <3> QED
      BY <2>1, <3>1
  <2>4. x.m # "answer"
    BY <2>1
  <2>5. AnswersBy(d, Append(q, x), w, asked)
    BY <1>3, <2>3, <2>4, AnswersAppend
  <2>6. DeskBy(d, [P EXCEPT ![k] = g.p], g.sent, w, Append(q, x), b, c, asked)
    BY <1>4, <2>1, <2>5 DEF DeskBy
  <2>7. \A s \in Session : HoldsIn(Append(q, x), s) => HoldsIn(q, s) \/ w[s] # "off"
    BY <2>1, HoldsInIs
  <2> QED
    BY <1>2, <2>2, <2>6, <2>7
<1> QED
  BY <1>5, <1>6

\* A step of one window: it has P, said t, runs w, has calls u under way and c of
\* #converge.
Windowed(d, P, t, w, u, c) ==
  /\ UNCHANGED <<holds, pending, looking, link>>
  /\ report' = [report EXCEPT ![d] = P] /\ sent' = [sent EXCEPT ![d] = t]
  /\ run' = [run EXCEPT ![d] = w] /\ up' = [up EXCEPT ![d] = u] /\ conv' = [conv EXCEPT ![d] = c]
  /\ link[d] => DeskBy(d, P, t, w, looking[d] \o u, Keeps(d), c, pending)

\* A step of one window, for all of them.
LEMMA WindowLinked ==
  ASSUME TypesInv, LinkedInv, NEW d \in Desktop, NEW P, NEW t, NEW w, NEW u, NEW c,
         Windowed(d, P, t, w, u, c)
  PROVE  LinkedInv'
<1>1. WindowTypes
  BY TypesAre
<1>2. PendingMild
  BY DEF Windowed, PendingMild
<1>3. \A e \in Desktop \ {d} : link'[e] =>
        /\ link[e] /\ report'[e] = report[e] /\ sent'[e] = sent[e] /\ run'[e] = run[e]
        /\ up'[e] = up[e] /\ looking'[e] = looking[e] /\ conv'[e] = conv[e]
  BY DEF Windowed
<1>4. /\ report'[d] = P /\ sent'[d] = t /\ run'[d] = w /\ up'[d] = u /\ conv'[d] = c
      /\ looking'[d] = looking[d] /\ pending' = pending /\ link'[d] = link[d]
  BY <1>1 DEF Windowed, WindowTypes
<1>5. Calls(d)' = looking[d] \o u
  BY <1>4 DEF Calls
<1>6. \A e \in Desktop, s \in Session : holds'[s] = holds[s] \/ (holds[s].client # e /\ holds'[s].client # e)
  BY DEF Windowed
<1>7. Keeps(d)' = Keeps(d)
  BY <1>6, KeepsStays
<1>8. link'[d] => DeskBy(d, report'[d], sent'[d], run'[d], Calls(d)', Keeps(d)', conv'[d], pending')
  BY <1>4, <1>5, <1>7 DEF Windowed
<1> QED
  BY <1>2, <1>3, <1>6, <1>8, LinkedFrame

\* A window that says only what it runs writes what it wrote.
LEMMA WindowWriter ==
  ASSUME TypesInv, WriterInv, NEW d \in Desktop, NEW P, NEW t, NEW w, NEW u, NEW c,
         Windowed(d, P, t, w, u, c),
         \A s \in Session : w[s] # "off" \/ HoldsIn(looking[d] \o u, s) => Writes(d, s)
  PROVE  WriterInv'
<1>1. WindowTypes
  BY TypesAre
<1>2. ASSUME NEW e \in Desktop, NEW s \in Session, Writes(e, s)' PROVE Writes(e, s)
  <2>1. holds' = holds /\ looking' = looking
    BY DEF Windowed
  <2>2. run'[e][s] # "off" \/ holds[s].client = e \/ HoldsIn(looking[e] \o up'[e], s)
    BY <1>2, <2>1 DEF Writes, Calls
  <2>3. CASE e = d
    <3>1. run'[d] = w /\ up'[d] = u
      BY <1>1 DEF Windowed, WindowTypes
    <3>2. w[s] # "off" \/ holds[s].client = d \/ HoldsIn(looking[d] \o u, s)
      BY <2>2, <2>3, <3>1
    <3> QED
      BY <2>3, <3>2 DEF Writes
  <2>4. CASE e # d
    <3>1. run'[e] = run[e] /\ up'[e] = up[e]
      BY <2>4 DEF Windowed
    <3> QED
      BY <2>2, <3>1 DEF Writes, Calls
  <2> QED
    BY <2>3, <2>4
<1>3. pending' = pending
  BY DEF Windowed
<1> QED
  BY <1>2, <1>3, WriterFrame

\* What is let go stays let go.
LEMMA StoppedFrame ==
  ASSUME StoppedInv,
         \A d \in Desktop, r \in Reason : letgo'[d][r].step \in {"waits", "goes"} =>
           \/ letgo[d][r].step \in {"waits", "goes"} /\ letgo'[d][r].s = letgo[d][r].s
              /\ (run[d][letgo[d][r].s] = "off" => run'[d][letgo[d][r].s] = "off")
           \/ run'[d][letgo'[d][r].s] = "off"
  PROVE  StoppedInv'
BY DEF StoppedInv

\* Before a new report of what the tabs w run since they ran v.
BeginsFrom(d, l, u, b, c, t, w, v, P, k, g) ==
  /\ l \in Seq(HoldCall) /\ u \in Seq(Call)
  /\ t \in [Session -> Activity] /\ w \in [Session -> Activity] /\ P \in [Slot -> Report]
  /\ \E after : Begins(d, w, t, P, u, after, k, g)
  /\ WantedBy(P, w) /\ SaidBy(l \o u, b, t, w, c) /\ ConvBy(l \o u, c) /\ AnswersBy(d, l \o u, v, pending)
  /\ \A r \in Request : pending[r].outcome # "none" => pending[r].s \in Session
  /\ \A y \in Session : v[y] = "off" => w[y] = "off" \/ g.calls = <<Hold(y, w[y], <<"report", k>>)>>

\* A new report begins, of what the tabs w run since they ran v.
LEMMA BeginsDesk ==
  ASSUME NEW d, NEW l, NEW u, NEW b, NEW c, NEW t, NEW w, NEW v, NEW P, NEW k \in Slot, NEW g,
         BeginsFrom(d, l, u, b, c, t, w, v, P, k, g)
  PROVE  /\ GoesTo(d, l, u, b, c, pending, w, P, k, g)
         /\ SaysOne(g, <<"report", k>>) /\ <<"report", k>> \in HoldBy
<1> USE DEF BeginsFrom
<1>1. PICK p \in Report : /\ p = Begun(w) /\ p.phase # "none"
                          /\ \A s \in Session : Stale(p, s) /\ Aim(p, s) = w[s]
  BY BegunIs
<1>2. PICK by \in HoldBy : by = <<"report", k>>
  BY DEF HoldBy
<1>3. g = GoOn(p, t, by)
  BY <1>1, <1>2 DEF Begins
<1>4. PICK P1 \in [Slot -> Report] : P1 = [P EXCEPT ![k] = p] /\ P1[k] = p /\ \A j \in Slot \ {k} : P1[j] = P[j]
  <2>1. \A x \in Report : [P EXCEPT ![k] = x] \in [Slot -> Report] /\ [P EXCEPT ![k] = x][k] = x
    OBVIOUS
  <2>2. \A x : \A j \in Slot \ {k} : [P EXCEPT ![k] = x][j] = P[j]
    OBVIOUS
  <2>3. p \in Report
    BY <1>1
  <2> QED
    BY <2>1, <2>2, <2>3
<1>5. WantedBy(P1, w) /\ ToldBy(P1, t, w)
  BY <1>1, <1>4 DEF WantedBy, ToldBy
<1>6. \A y \in Session : v[y] = "off" => w[y] = "off" \/ g.calls = <<Hold(y, w[y], by)>>
  BY <1>2
<1>7. WantedBy([P EXCEPT ![k] = p], w) /\ ToldBy([P EXCEPT ![k] = p], t, w)
  BY <1>4, <1>5
<1>8. GoesTo(d, l, u, b, c, pending, w, P, k, g)
  <2>1. GoesFrom(d, l, u, b, c, pending, t, w, v, P, k, p, by, g)
    BY <1>1, <1>2, <1>3, <1>6, <1>7 DEF GoesFrom
  <2> QED
    BY <2>1, ReportDesk
<1>9. SaysOne(g, by)
  BY <1>1, <1>3, GoOnSays
<1> QED
  BY <1>2, <1>8, <1>9

\* What Tells leaves of a desktop that is connected: it has P, said t and has calls
\* u under way.
Told1(d, w, q, P, t, u) ==
  /\ report' = [report EXCEPT ![d] = P] /\ sent' = [sent EXCEPT ![d] = t] /\ up' = [up EXCEPT ![d] = u]
  /\ DeskBy(d, P, t, w, looking[d] \o u, Keeps(d), conv[d], pending)
  /\ \A s \in Session : HoldsIn(looking[d] \o u, s) => HoldsIn(looking[d] \o q, s) \/ w[s] # "off"

\* What changed in the tabs is reported.
LEMMA TellsDesk ==
  ASSUME TypesInv, NEW d \in Desktop, link[d], NEW u \in Seq(Call),
         NEW t \in [Session -> Activity], NEW w \in [Session -> Activity], NEW v, Tells(d, w, t, u),
         WantedBy(report[d], w),
         SaidBy(looking[d] \o u, Keeps(d), t, w, conv[d]), ConvBy(looking[d] \o u, conv[d]),
         AnswersBy(d, looking[d] \o u, v, pending),
         \A y \in Session : v[y] = "off" =>
           w[y] = "off" \/ \A k : GoOn(Begun(w), t, <<"report", k>>).calls = <<Hold(y, w[y], <<"report", k>>)>>
  PROVE  \E P : \E t2 : \E u2 : Told1(d, w, u, P, t2, u2)
<1>1. report[d] \in [Slot -> Report] /\ looking[d] \in Seq(HoldCall)
  BY TypesAre DEF WindowTypes, BridgeTypes
<1>2. \A r \in Request : pending[r].outcome # "none" => pending[r].s \in Session
  BY TypesAre DEF LetGoInv
<1>3. Reports(d, w, t, report[d], u, <<>>)
  BY DEF Tells
<1>4. PICK k \in Slot : \E g : Begins(d, w, t, report[d], u, <<>>, k, g)
  BY <1>3, ReportsAre
<1>5. PICK g : Begins(d, w, t, report[d], u, <<>>, k, g)
  BY <1>4
<1>6. g = GoOn(Begun(w), t, <<"report", k>>)
  BY <1>5 DEF Begins
<1>7. \A y \in Session : v[y] = "off" => w[y] = "off" \/ g.calls = <<Hold(y, w[y], <<"report", k>>)>>
  BY <1>6
<1>8. GoesTo(d, looking[d], u, Keeps(d), conv[d], pending, w, report[d], k, g) /\ SaysOne(g, <<"report", k>>)
  <2>1. BeginsFrom(d, looking[d], u, Keeps(d), conv[d], t, w, v, report[d], k, g)
    BY <1>1, <1>2, <1>5, <1>7 DEF BeginsFrom
  <2> QED
    BY <1>4, <2>1, BeginsDesk
<1>9. (u \o g.calls) \o <<>> = u \o g.calls
  BY <1>8, OneMore DEF SaysOne
<1>10. /\ report' = [report EXCEPT ![d] = [report[d] EXCEPT ![k] = g.p]] /\ sent' = [sent EXCEPT ![d] = g.sent]
       /\ up' = [up EXCEPT ![d] = u \o g.calls]
  BY <1>5, <1>9 DEF Begins
<1>11. Told1(d, w, u, [report[d] EXCEPT ![k] = g.p], g.sent, u \o g.calls)
  BY <1>8, <1>10 DEF Told1, GoesTo
<1> QED
  BY <1>11

\* What a tab waits for before it changes, in the terms of SayInv.
LEMMA StaleIs ==
  ASSUME NEW d, NEW s
  PROVE  StaleOf(d, s) <=> \E k \in Slot : Stale(report[d][k], s)
BY DEF StaleOf, Stale

\* An agent starts, works or exits in a tab: what it starts, it reports at once.
LEMMA ChangeSays ==
  ASSUME TypesInv, SayInv, Closed, NEW d \in Desktop, NEW s \in Session, NEW a \in Activity, Change(d, s, a)
  PROVE  SayInv'
<1>1. WindowTypes /\ BridgeTypes /\ LetGoInv /\ LinkedInv /\ StoppedInv /\ WriterInv
  BY TypesAre DEF SayInv
<1>2. /\ <<run[d][s], a>> \in {<<"off", "idle">>, <<"idle", "working">>, <<"working", "idle">>,
                               <<"idle", "off">>, <<"working", "off">>}
      /\ run[d][s] = "off" => ~LettingGo(d, s) /\ Alone(d, s)
      /\ ~StaleOf(d, s)
      /\ run' = [run EXCEPT ![d][s] = a] /\ Tells(d, run'[d], sent[d], up[d])
      /\ UNCHANGED <<holds, pending, served, looking, asks, link, conv, letgo>>
  BY DEF Change, Closed, Open, Starts, bridge
<1>3. PICK w \in [Session -> Activity] : w = [run[d] EXCEPT ![s] = a]
  BY <1>1 DEF WindowTypes
<1>4. /\ run' = [run EXCEPT ![d] = w] /\ run'[d] = w /\ w[s] = a /\ \A y \in Session \ {s} : w[y] = run[d][y]
      /\ conv' = [conv EXCEPT ![d] = conv[d]]
  BY <1>1, <1>2, <1>3 DEF WindowTypes
<1>5. /\ run[d] \in [Session -> Activity] /\ sent[d] \in [Session -> Activity] /\ report[d] \in [Slot -> Report]
      /\ up[d] \in Seq(Call) /\ looking[d] \in Seq(HoldCall)
  BY <1>1 DEF WindowTypes, BridgeTypes
<1>a. <<run[d][s], a>> = <<"off", "idle">> \/ (run[d][s] # "off" /\ a \in Activity)
  BY <1>2
<1>6. \E P : \E t : \E u : /\ Windowed(d, P, t, w, u, conv[d])
                           /\ \A y \in Session : HoldsIn(looking[d] \o u, y) => HoldsIn(looking[d] \o up[d], y) \/ w[y] # "off"
  <2>1. CASE link[d]
    <3>1. DeskBy(d, report[d], sent[d], run[d], looking[d] \o up[d], Keeps(d), conv[d], pending)
      BY <1>1, <2>1 DEF LinkedInv, Calls
    <3>2. \A k \in Slot : ~Stale(report[d][k], s)
      BY <1>2, StaleIs
    <3>3. WantedBy(report[d], w)
      BY <1>4, <3>1, <3>2 DEF WantedBy, DeskBy
    <3>4. sent[d][s] = run[d][s]
      BY <3>1, <3>2 DEF ToldBy, DeskBy
    <3>5. SaidBy(looking[d] \o up[d], Keeps(d), sent[d], w, conv[d])
      <4>1. PICK q : q = looking[d] \o up[d]
        OBVIOUS
      <4>2. ASSUME NEW y \in Session
            PROVE  IF sent[d][y] # "off"
                   THEN Comes(q, y, Keeps(d)[y], sent[d][y]) \/ (w[y] = "off" /\ Comes(q, y, Keeps(d)[y], "off"))
                   ELSE Comes(q, y, Keeps(d)[y], "off") \/ w[y] # "off" \/ ListsYet(q, conv[d], y)
        <5>1. IF sent[d][y] # "off"
              THEN Comes(q, y, Keeps(d)[y], sent[d][y]) \/ (run[d][y] = "off" /\ Comes(q, y, Keeps(d)[y], "off"))
              ELSE Comes(q, y, Keeps(d)[y], "off") \/ run[d][y] # "off" \/ ListsYet(q, conv[d], y)
          BY <3>1, <4>1 DEF DeskBy, SaidBy
        <5>2. CASE y = s
          BY <1>a, <1>4, <3>4, <5>1, <5>2
        <5>3. CASE y # s
          <6>1. w[y] = run[d][y]
            BY <1>4, <5>3
          <6> QED
            BY <5>1, <6>1
        <5> QED
          BY <5>2, <5>3
      <4> QED
        BY <4>1, <4>2 DEF SaidBy
    <3>6. \A y \in Session : run[d][y] = "off" =>
            w[y] = "off" \/ \A k : GoOn(Begun(w), sent[d], <<"report", k>>).calls = <<Hold(y, w[y], <<"report", k>>)>>
      <4> SUFFICES ASSUME NEW y \in Session, run[d][y] = "off", w[y] # "off", NEW k
                   PROVE  GoOn(Begun(w), sent[d], <<"report", k>>).calls = <<Hold(y, w[y], <<"report", k>>)>>
        OBVIOUS
      <4>1. y = s
        BY <1>4
      <4>2. PICK p \in Report : p = Begun(w) /\ p.phase = "holding" /\ p.at = 0 /\ p.wanted = w
        BY BegunIs
      <4>3. s > p.at /\ p.wanted[s] \notin {"off", sent[d][s]}
        BY <3>4, <4>1, <4>2, TabsAreNumbers
      <4>4. ASSUME NEW z \in Session, z < s, w[z] \notin {"off", sent[d][z]} PROVE FALSE
        <5>1. z # s /\ s \in Nat /\ z \in Nat
          BY <4>4, TabsAreNumbers
        <5>2. w[z] = run[d][z] /\ sent[d][z] # run[d][z]
          BY <1>4, <4>4, <5>1
        <5>3. PICK j \in Slot : Stale(report[d][j], z)
          BY <3>1, <5>2 DEF DeskBy, ToldBy
        <5>4. PICK r \in Report : r = report[d][j]
          BY <1>5
        <5>5. Aim(r, z) # "off"
          BY <3>1, <4>4, <5>2, <5>3, <5>4 DEF DeskBy, WantedBy
        <5>6. r.phase = "holding" /\ z > r.at
          BY <5>3, <5>4, <5>5 DEF Aim, Stale
        <5>7. r.at \in Nat
          <6>1. r.at = 0 \/ r.at \in Session
            BY DEF Report
          <6>2. r.at = 0 => r.at \in Nat
            OBVIOUS
          <6>3. r.at \in Session => r.at \in Nat
            BY TabsAreNumbers
          <6> QED
            BY <6>1, <6>2, <6>3
        <5>8. s > r.at
          BY <4>4, <5>1, <5>6, <5>7
        <5>9. Stale(r, s)
          BY <5>6, <5>8 DEF Stale
        <5> QED
          BY <3>2, <5>4, <5>9
      <4>5. \A z \in Session : z > p.at /\ z < s => p.wanted[z] \in {"off", sent[d][z]}
        BY <4>2, <4>4
      <4>6. GoOn(p, sent[d], <<"report", k>>).calls = <<Hold(s, p.wanted[s], <<"report", k>>)>>
        BY <1>5, <4>2, <4>3, <4>5, SaysAtOnce
      <4> QED
        BY <4>1, <4>2, <4>6
    <3>7. ConvBy(looking[d] \o up[d], conv[d]) /\ AnswersBy(d, looking[d] \o up[d], run[d], pending)
      BY <3>1 DEF DeskBy
    <3>8. Tells(d, w, sent[d], up[d])
      BY <1>2, <1>4
    <3>9. \E P : \E t : \E u : Told1(d, w, up[d], P, t, u)
      BY <1>5, <2>1, <3>3, <3>5, <3>6, <3>7, <3>8, TellsDesk
    <3>10. PICK P : \E t : \E u : Told1(d, w, up[d], P, t, u)
      BY <3>9
    <3>11. PICK t : \E u : Told1(d, w, up[d], P, t, u)
      BY <3>10
    <3>12. PICK u : Told1(d, w, up[d], P, t, u)
      BY <3>11
    <3>13. Windowed(d, P, t, w, u, conv[d])
      BY <1>2, <1>4, <3>12 DEF Windowed, Told1
    <3> QED
      BY <3>12, <3>13 DEF Told1
  <2>2. CASE ~link[d]
    <3>1. UNCHANGED <<sent, report, up>>
      BY <1>1, <1>2, <2>2 DEF Tells, WindowTypes
    <3>2. Windowed(d, report[d], sent[d], w, up[d], conv[d])
      BY <1>1, <1>2, <1>4, <2>2, <3>1 DEF Windowed, WindowTypes
    <3> QED
      BY <3>2
  <2> QED
    BY <2>1, <2>2
<1>7. PICK P : \E t : \E u : /\ Windowed(d, P, t, w, u, conv[d])
                             /\ \A y \in Session : HoldsIn(looking[d] \o u, y) => HoldsIn(looking[d] \o up[d], y) \/ w[y] # "off"
  BY <1>6
<1>8. PICK t : \E u : /\ Windowed(d, P, t, w, u, conv[d])
                      /\ \A y \in Session : HoldsIn(looking[d] \o u, y) => HoldsIn(looking[d] \o up[d], y) \/ w[y] # "off"
  BY <1>7
<1>9. PICK u : /\ Windowed(d, P, t, w, u, conv[d])
               /\ \A y \in Session : HoldsIn(looking[d] \o u, y) => HoldsIn(looking[d] \o up[d], y) \/ w[y] # "off"
  BY <1>8
<1>10. LinkedInv'
  BY <1>1, <1>9, WindowLinked
<1>11. WriterInv'
  <2>1. CASE run[d][s] # "off"
    <3>1. \A y \in Session : w[y] # "off" => run[d][y] # "off"
      BY <1>4, <2>1
    <3>2. \A y \in Session : w[y] # "off" \/ HoldsIn(looking[d] \o u, y) => Writes(d, y)
      BY <1>9, <3>1 DEF Writes, Calls
    <3> QED
      BY <1>1, <1>9, <3>2, WindowWriter
  <2>2. CASE run[d][s] = "off"
    <3>1. Alone(d, s)
      BY <1>2, <2>2
    <3>2. \A e \in Desktop \ {d} : ~Writes(e, s)
      <4> SUFFICES ASSUME NEW e \in Desktop \ {d}, Writes(e, s) PROVE FALSE
        OBVIOUS
      <4>1. holds[s].client # e /\ run[e][s] = "off" /\ ~Concerns(up[e], s) /\ ~Concerns(looking[e], s)
        BY <3>1, HoldsAssumption DEF Alone
      <4>2. HoldsIn(looking[e] \o up[e], s)
        BY <4>1 DEF Writes, Calls
      <4>3. looking[e] \in Seq(Call) /\ up[e] \in Seq(Call)
        BY <1>1, HoldIsCall DEF WindowTypes, BridgeTypes
      <4>4. PICK l \in Seq(Call), q \in Seq(Call) : l = looking[e] /\ q = up[e]
        BY <4>3
      <4>5. PICK i \in DOMAIN (l \o q) : (l \o q)[i].m = "hold" /\ (l \o q)[i].s = s
        BY <4>2, <4>4 DEF HoldsIn
      <4>6. (\E j \in DOMAIN l : (l \o q)[i] = l[j]) \/ (\E j \in DOMAIN q : (l \o q)[i] = q[j])
        <5>1. Len(l) \in Nat /\ Len(q) \in Nat /\ DOMAIN l = 1 .. Len(l) /\ DOMAIN q = 1 .. Len(q) /\ i \in 1 .. Len(l) + Len(q)
          OBVIOUS
        <5>2. CASE i <= Len(l)
          BY <5>1, <5>2
        <5>3. CASE i > Len(l)
          <6>1. i - Len(l) \in DOMAIN q /\ (l \o q)[i] = q[i - Len(l)]
            BY <5>1, <5>3
          <6> QED
            BY <6>1
        <5> QED
          BY <5>1, <5>2, <5>3
      <4> QED
        BY <4>1, <4>4, <4>5, <4>6 DEF Concerns
    <3>3. ASSUME NEW e \in Desktop, NEW y \in Session, Writes(e, y)' PROVE Writes(e, y) \/ (e = d /\ y = s)
      <4>1. holds' = holds /\ looking' = looking
        BY <1>2
      <4>2. run'[e][y] # "off" \/ holds[y].client = e \/ HoldsIn(looking[e] \o up'[e], y)
        BY <3>3, <4>1 DEF Writes, Calls
      <4>3. CASE e = d
        <5>1. run'[d] = w /\ up'[d] = u
          BY <1>1, <1>9 DEF Windowed, WindowTypes
        <5>2. w[y] # "off" \/ holds[y].client = d \/ HoldsIn(looking[d] \o up[d], y)
          BY <1>9, <4>2, <4>3, <5>1
        <5>3. y # s => w[y] = run[d][y]
          BY <1>4
        <5> QED
          BY <4>3, <5>2, <5>3 DEF Writes, Calls
      <4>4. CASE e # d
        <5>1. run'[e] = run[e] /\ up'[e] = up[e]
          BY <1>9, <4>4 DEF Windowed
        <5> QED
          BY <4>2, <5>1 DEF Writes, Calls
      <4> QED
        BY <4>3, <4>4
    <3>4. ASSUME NEW e \in Desktop, NEW f \in Desktop, NEW y \in Session, Writes(e, y)', Writes(f, y)' PROVE e = f
      BY <1>1, <3>2, <3>3, <3>4 DEF WriterInv
    <3>5. \A r \in Request, y \in Session : pending'[r].outcome = "asked" /\ pending'[r].s = y =>
            \A e \in Desktop \ {pending'[r].client} : ~Writes(e, y)'
      <4>1. pending' = pending
        BY <1>2
      <4>2. \A r \in Request : pending[r].outcome = "asked" /\ pending[r].s = s => pending[r].client = d
        BY <3>1 DEF Alone
      <4> QED
        BY <1>1, <3>3, <4>1, <4>2 DEF WriterInv
    <3> QED
      BY <3>4, <3>5 DEF WriterInv
  <2> QED
    BY <2>1, <2>2
<1>12. StoppedInv'
  <2>1. ASSUME NEW e \in Desktop, NEW r \in Reason, letgo[e][r].step \in {"waits", "goes"}
        PROVE  run'[e][letgo[e][r].s] = "off"
    <3>1. letgo[e][r].s \in Session /\ run[e][letgo[e][r].s] = "off"
      BY <1>1, <2>1 DEF LetGoInv, StoppedInv
    <3>2. CASE e = d
      <4>1. PICK y \in Session : y = letgo[d][r].s /\ run[d][y] = "off"
        BY <3>1, <3>2
      <4>2. y # s
        BY <1>2, <2>1, <3>2, <4>1 DEF LettingGo
      <4> QED
        BY <1>4, <3>2, <4>1, <4>2
    <3>3. CASE e # d
      BY <1>4, <3>1, <3>3
    <3> QED
      BY <3>2, <3>3
  <2>2. letgo' = letgo
    BY <1>2
  <2> QED
    BY <2>1, <2>2 DEF StoppedInv
<1> QED
  BY <1>10, <1>11, <1>12 DEF SayInv
--------------------------------------------------------------------------------
(* What a window says keeps SayInv *)

LEMMA ReportGoesSays ==
  ASSUME TypesInv, SayInv, NEW d \in Desktop, NEW k \in Slot, ReportGoes(d, k)
  PROVE  SayInv'
<1>1. WindowTypes /\ BridgeTypes /\ LetGoInv /\ LinkedInv /\ StoppedInv /\ WriterInv
  BY TypesAre DEF SayInv
<1>2. /\ run[d] \in [Session -> Activity] /\ sent[d] \in [Session -> Activity] /\ report[d] \in [Slot -> Report]
      /\ up[d] \in Seq(Call) /\ looking[d] \in Seq(HoldCall)
  BY <1>1 DEF WindowTypes, BridgeTypes
<1>3. PICK p \in Report : p = report[d][k]
  BY <1>2
<1>4. PICK by \in HoldBy : by = <<"report", k>>
  BY DEF HoldBy
<1>5. PICK g : g = GoOn(p, sent[d], by)
  OBVIOUS
<1>6. /\ link[d] /\ p.phase # "none"
      /\ report' = [report EXCEPT ![d][k] = g.p] /\ sent' = [sent EXCEPT ![d] = g.sent]
      /\ up' = [up EXCEPT ![d] = up[d] \o g.calls]
      /\ UNCHANGED <<holds, pending, looking, link, run, conv, letgo>>
  BY <1>3, <1>4, <1>5 DEF ReportGoes, bridge
<1>7. PICK P \in [Slot -> Report] : P = report[d] /\ [P EXCEPT ![k] = p] = P
  BY <1>2, <1>3
<1>8. report' = [report EXCEPT ![d] = [P EXCEPT ![k] = g.p]]
  BY <1>1, <1>6, <1>7 DEF WindowTypes
<1>9. DeskBy(d, P, sent[d], run[d], looking[d] \o up[d], Keeps(d), conv[d], pending)
  BY <1>1, <1>6, <1>7 DEF LinkedInv, Calls
<1>10. \A r \in Request : pending[r].outcome # "none" => pending[r].s \in Session
  BY <1>1 DEF LetGoInv
<1>11. GoesFrom(d, looking[d], up[d], Keeps(d), conv[d], pending, sent[d], run[d], run[d], P, k, p, by, g)
  BY <1>2, <1>5, <1>6, <1>7, <1>9, <1>10 DEF GoesFrom, DeskBy
<1>12. GoesTo(d, looking[d], up[d], Keeps(d), conv[d], pending, run[d], P, k, g)
  BY <1>11, ReportDesk
<1>13. Windowed(d, [P EXCEPT ![k] = g.p], g.sent, run[d], up[d] \o g.calls, conv[d])
  <2>1. run' = [run EXCEPT ![d] = run[d]] /\ conv' = [conv EXCEPT ![d] = conv[d]]
    BY <1>1, <1>6 DEF WindowTypes
  <2> QED
    BY <1>6, <1>8, <1>12, <2>1 DEF Windowed, GoesTo
<1>14. LinkedInv'
  BY <1>1, <1>13, WindowLinked
<1>15. \A s \in Session : run[d][s] # "off" \/ HoldsIn(looking[d] \o (up[d] \o g.calls), s) => Writes(d, s)
  BY <1>12 DEF GoesTo, Writes, Calls
<1>16. WriterInv'
  BY <1>1, <1>13, <1>15, WindowWriter
<1>17. StoppedInv'
  BY <1>1, <1>6 DEF StoppedInv
<1> QED
  BY <1>14, <1>16, <1>17 DEF SayInv

\* A window that says nothing new of its tabs.
LEMMA SaidMore ==
  ASSUME NEW q \in Seq(Call), NEW x \in Call, NEW b, NEW t, NEW w, NEW c, SaidBy(q, b, t, w, c),
         \A s \in Session : ~About(x, s)
  PROVE  SaidBy(Append(q, x), b, t, w, c)
<1>1. ASSUME NEW s \in Session
      PROVE  IF t[s] # "off"
             THEN Comes(Append(q, x), s, b[s], t[s]) \/ (w[s] = "off" /\ Comes(Append(q, x), s, b[s], "off"))
             ELSE Comes(Append(q, x), s, b[s], "off") \/ w[s] # "off" \/ ListsYet(Append(q, x), c, s)
  <2>1. IF t[s] # "off"
        THEN Comes(q, s, b[s], t[s]) \/ (w[s] = "off" /\ Comes(q, s, b[s], "off"))
        ELSE Comes(q, s, b[s], "off") \/ w[s] # "off" \/ ListsYet(q, c, s)
    BY DEF SaidBy
  <2>2. \A a : Comes(q, s, b[s], a) => Comes(Append(q, x), s, b[s], a)
    BY ComesAppend
  <2>3. ListsYet(q, c, s) => ListsYet(Append(q, x), c, s)
    BY ListsAppend
  <2> QED
    BY <2>1, <2>2, <2>3
<1> QED
  BY <1>1 DEF SaidBy

\* A call about no session, of a window that leaves its tabs and reports as they are.
Answering(d, x) ==
  /\ x \in Call /\ x.m = "answer" /\ x.by # <<"converge">>
  /\ pending[x.r].outcome # "none" /\ (x.o = "released" => run[d][pending[x.r].s] = "off")
  /\ UNCHANGED <<holds, pending, looking, link, run, sent, report, conv>>
  /\ up' = [up EXCEPT ![d] = Append(up[d], x)]
Silent(d) == UNCHANGED <<holds, pending, looking, link, run, sent, report, conv, up>>

\* It keeps what was said and who writes.
LEMMA AnsweringSays ==
  ASSUME TypesInv, SayInv, NEW d \in Desktop, (\E x : Answering(d, x)) \/ Silent(d)
  PROVE  LinkedInv' /\ WriterInv'
<1>1. WindowTypes /\ BridgeTypes /\ LetGoInv /\ LinkedInv /\ WriterInv
  BY TypesAre DEF SayInv
<1>2. up[d] \in Seq(Call) /\ looking[d] \in Seq(HoldCall)
  BY <1>1 DEF WindowTypes, BridgeTypes
<1>3. /\ report = [report EXCEPT ![d] = report[d]] /\ sent = [sent EXCEPT ![d] = sent[d]]
      /\ run = [run EXCEPT ![d] = run[d]] /\ conv = [conv EXCEPT ![d] = conv[d]] /\ up = [up EXCEPT ![d] = up[d]]
  BY <1>1 DEF WindowTypes
<1>4. link[d] => DeskBy(d, report[d], sent[d], run[d], looking[d] \o up[d], Keeps(d), conv[d], pending)
  BY <1>1 DEF LinkedInv, Calls
<1>5. CASE Silent(d)
  <2>1. Windowed(d, report[d], sent[d], run[d], up[d], conv[d])
    BY <1>3, <1>4, <1>5 DEF Windowed, Silent
  <2>2. \A s \in Session : run[d][s] # "off" \/ HoldsIn(looking[d] \o up[d], s) => Writes(d, s)
    BY DEF Writes, Calls
  <2> QED
    BY <1>1, <2>1, <2>2, WindowLinked, WindowWriter
<1>6. CASE \E x : Answering(d, x)
  <2>1. PICK x \in Call : Answering(d, x)
    BY <1>6 DEF Answering
  <2>2. PICK q \in Seq(Call) : q = looking[d] \o up[d] /\ looking[d] \o Append(up[d], x) = Append(q, x)
    BY <1>2, SaidLast
  <2>3. x.m = "answer" /\ x.m # "hold" /\ x.m # "release"
    BY <2>1 DEF Answering
  <2>4. \A s \in Session : ~About(x, s)
    BY <2>3 DEF About
  <2>5. ASSUME link[d]
        PROVE  DeskBy(d, report[d], sent[d], run[d], Append(q, x), Keeps(d), conv[d], pending)
    <3>1. /\ SaidBy(q, Keeps(d), sent[d], run[d], conv[d]) /\ ConvBy(q, conv[d])
          /\ AnswersBy(d, q, run[d], pending)
          /\ WantedBy(report[d], run[d]) /\ ToldBy(report[d], sent[d], run[d])
      BY <1>4, <2>2, <2>5 DEF DeskBy
    <3>2. SaidBy(Append(q, x), Keeps(d), sent[d], run[d], conv[d])
      BY <2>4, <3>1, SaidMore
    <3>3. ConvBy(Append(q, x), conv[d])
      <4>1. x.by # <<"converge">>
        BY <2>1 DEF Answering
      <4> QED
        BY <3>1, <4>1, ConvAppend
    <3>4. AnswersBy(d, Append(q, x), run[d], pending)
      <4>1. \A r \in Request : pending[r].outcome # "none" => pending[r].s \in Session
        BY <1>1 DEF LetGoInv
      <4>2. pending[x.r].outcome # "none" /\ (x.o = "released" => run[d][pending[x.r].s] = "off")
        BY <2>1 DEF Answering
      <4> QED
        BY <3>1, <4>1, <4>2, AnswersAppend
    <3> QED
      BY <3>1, <3>2, <3>3, <3>4 DEF DeskBy
  <2>6. Windowed(d, report[d], sent[d], run[d], Append(up[d], x), conv[d])
    BY <1>3, <2>1, <2>2, <2>5 DEF Windowed, Answering
  <2>7. \A s \in Session : HoldsIn(Append(q, x), s) => HoldsIn(q, s)
    BY <2>3, HoldsInIs
  <2>8. \A s \in Session : run[d][s] # "off" \/ HoldsIn(looking[d] \o Append(up[d], x), s) => Writes(d, s)
    BY <2>2, <2>7 DEF Writes, Calls
  <2> QED
    BY <1>1, <2>6, <2>8, WindowLinked, WindowWriter
<1> QED
  BY <1>5, <1>6

\* An answer to a hand-off.
LEMMA AnswerIs ==
  ASSUME NEW r \in Request, NEW o \in {"released", "busy"}
  PROVE  /\ Answer(r, o) \in Call /\ Answer(r, o).m = "answer" /\ Answer(r, o).by # <<"converge">>
         /\ Answer(r, o).r = r /\ Answer(r, o).o = o
<1>1. Answer(r, o) \in [m : {"answer"}, r : Request, o : {"released", "busy"}, by : {<<"nobody">>}]
  BY DEF Answer
<1>2. Answer(r, o).by # <<"converge">>
  BY DEF Answer
<1> QED
  BY <1>1, <1>2 DEF Answer, Call

\* A hand-off is asked of a tab, fails, or is done.
LEMMA AnswerSays ==
  ASSUME TypesInv, SayInv, NEW d \in Desktop,
         \/ \E s \in Session : ContinueAsChat(d, s)
         \/ \E r \in Request : HandoffRequested(d, r)
         \/ \E r \in Reason : StopFails(d, r) \/ LetGo(d, r)
  PROVE  SayInv'
<1>1. WindowTypes /\ BridgeTypes /\ LetGoInv /\ LinkedInv /\ StoppedInv /\ WriterInv
  BY TypesAre DEF SayInv
<1>2. letgo \in [Desktop -> [Reason -> LetGoType]] /\ run \in [Desktop -> [Session -> Activity]]
  BY <1>1 DEF WindowTypes
<1>3. ASSUME NEW s \in Session, ContinueAsChat(d, s)
      PROVE  SayInv'
  <2>1. Silent(d)
    BY <1>3 DEF ContinueAsChat, Silent, bridge
  <2>2. letgo' = [letgo EXCEPT ![d][Chat] = [step |-> "stopping", s |-> s]] /\ run' = run
    BY <1>3 DEF ContinueAsChat, LetsGo
  <2>3. StoppedInv'
    <3>1. \A e \in Desktop, r \in Reason :
            letgo'[e][r] = letgo[e][r] \/ letgo'[e][r] = [step |-> "stopping", s |-> s]
      BY <1>2, <2>2
    <3> QED
      BY <1>1, <2>2, <3>1 DEF StoppedInv
  <2> QED
    BY <2>1, <2>3, AnsweringSays DEF SayInv
<1>4. ASSUME NEW r \in Request, HandoffRequested(d, r)
      PROVE  SayInv'
  <2>1. PICK s : s = pending[r].s
    OBVIOUS
  <2>2. /\ r \in asks[d]
        /\ \/ run[d][s] = "off" /\ Says(d, r, "released") /\ UNCHANGED letgo
           \/ run[d][s] = "working" /\ Says(d, r, "busy") /\ UNCHANGED letgo
           \/ run[d][s] = "idle" /\ LetsGo(d, r, s) /\ UNCHANGED up
        /\ UNCHANGED <<holds, pending, looking, link, run, sent, report, conv>>
    BY <1>4, <2>1 DEF HandoffRequested, bridge
  <2>3. pending[r].outcome # "none"
    BY <1>1, <2>2 DEF LetGoInv
  <2>4. CASE \E o \in {"released", "busy"} : Says(d, r, o) /\ UNCHANGED letgo /\ (o = "released" => run[d][s] = "off")
    <3>1. PICK o \in {"released", "busy"} : Says(d, r, o) /\ UNCHANGED letgo /\ (o = "released" => run[d][s] = "off")
      BY <2>4
    <3>2. PICK x : x = Answer(r, o)
      OBVIOUS
    <3>3. x \in Call /\ x.m = "answer" /\ x.by # <<"converge">> /\ x.r = r /\ x.o = o
      BY <3>2, AnswerIs
    <3>4. Answering(d, x)
      BY <2>1, <2>2, <2>3, <3>1, <3>2, <3>3 DEF Answering, Says
    <3>5. StoppedInv'
      BY <1>1, <2>2, <3>1 DEF StoppedInv
    <3> QED
      BY <3>4, <3>5, AnsweringSays DEF SayInv
  <2>5. CASE LetsGo(d, r, s) /\ UNCHANGED up
    <3>1. Silent(d)
      BY <2>2, <2>5 DEF Silent
    <3>2. \A e \in Desktop, u \in Reason :
            letgo'[e][u] = letgo[e][u] \/ letgo'[e][u] = [step |-> "stopping", s |-> s]
      BY <1>2, <2>5 DEF LetsGo
    <3>3. StoppedInv'
      BY <1>1, <2>2, <3>2 DEF StoppedInv
    <3> QED
      BY <3>1, <3>3, AnsweringSays DEF SayInv
  <2> QED
    BY <2>2, <2>4, <2>5
<1>5. ASSUME NEW r \in Reason, StopFails(d, r) \/ LetGo(d, r)
      PROVE  SayInv'
  <2>1. /\ letgo[d][r].step # "no" /\ letgo' = [letgo EXCEPT ![d][r] = NotLettingGo]
        /\ UNCHANGED <<holds, pending, looking, link, run, sent, report, conv>>
    BY <1>5 DEF StopFails, LetGo, bridge
  <2>2. \/ UNCHANGED up
        \/ r \in Request /\ \E o \in {"released", "busy"} : Says(d, r, o) /\ (o = "released" => letgo[d][r].step = "goes")
    BY <1>5 DEF StopFails, LetGo
  <2>3. \A e \in Desktop, u \in Reason : letgo'[e][u] = letgo[e][u] \/ letgo'[e][u].step = "no"
    <3>1. NotLettingGo.step = "no"
      BY DEF NotLettingGo
    <3> QED
      BY <1>2, <2>1, <3>1
  <2>4. StoppedInv'
    BY <1>1, <2>1, <2>3 DEF StoppedInv
  <2>5. CASE UNCHANGED up
    <3>1. Silent(d)
      BY <2>1, <2>5 DEF Silent
    <3> QED
      BY <2>4, <3>1, AnsweringSays DEF SayInv
  <2>6. CASE r \in Request /\ \E o \in {"released", "busy"} : Says(d, r, o) /\ (o = "released" => letgo[d][r].step = "goes")
    <3>1. PICK o \in {"released", "busy"} : Says(d, r, o) /\ (o = "released" => letgo[d][r].step = "goes")
      BY <2>6
    <3>2. PICK x : x = Answer(r, o)
      OBVIOUS
    <3>3. x \in Call /\ x.m = "answer" /\ x.by # <<"converge">> /\ x.r = r /\ x.o = o
      BY <2>6, <3>2, AnswerIs
    <3>4. pending[r].outcome # "none" /\ letgo[d][r].s = pending[r].s
      BY <1>1, <2>1, <2>6 DEF LetGoInv
    <3>5. o = "released" => run[d][pending[r].s] = "off"
      BY <1>1, <3>1, <3>4 DEF StoppedInv
    <3>6. Answering(d, x)
      BY <2>1, <3>1, <3>2, <3>3, <3>4, <3>5 DEF Answering, Says
    <3> QED
      BY <2>4, <3>6, AnsweringSays DEF SayInv
  <2> QED
    BY <2>2, <2>5, <2>6
<1> QED
  BY <1>3, <1>4, <1>5

\* #converge lets go of what no tab runs and was not said to; the rest it leaves.
LEMMA ConvergeGoesSays ==
  ASSUME TypesInv, SayInv, NEW d \in Desktop, ConvergeGoes(d)
  PROVE  SayInv'
<1>1. WindowTypes /\ BridgeTypes /\ LetGoInv /\ LinkedInv /\ StoppedInv /\ WriterInv
  BY TypesAre DEF SayInv
<1>2. up[d] \in Seq(Call) /\ looking[d] \in Seq(HoldCall)
  BY <1>1 DEF WindowTypes, BridgeTypes
<1>3. /\ report = [report EXCEPT ![d] = report[d]] /\ sent = [sent EXCEPT ![d] = sent[d]]
      /\ run = [run EXCEPT ![d] = run[d]] /\ conv = [conv EXCEPT ![d] = conv[d]] /\ up = [up EXCEPT ![d] = up[d]]
  BY <1>1 DEF WindowTypes
<1>4. PICK left, untold :
        /\ left = IF conv[d].step = "goes" THEN conv[d].left
                  ELSE {s \in conv[d].left : run[d][s] = "off"}
        /\ untold = {s \in left : sent[d][s] = "off"}
  OBVIOUS
<1>5. /\ link[d] /\ conv[d].step \in {"listed", "goes"}
      /\ UNCHANGED <<holds, pending, looking, link, run, sent, report, letgo>>
      /\ \/ /\ untold = {}
            /\ conv' = [conv EXCEPT ![d] = NoConv]
            /\ UNCHANGED up
         \/ \E s \in untold :
              /\ conv' = [conv EXCEPT ![d] = [step |-> "waits", left |-> left \ {s}]]
              /\ up' = [up EXCEPT ![d] = Append(@, Release(s, <<"converge">>))]
  BY <1>4 DEF ConvergeGoes, bridge
<1>6. PICK q \in Seq(Call) : q = looking[d] \o up[d] /\ \A x \in Call : looking[d] \o Append(up[d], x) = Append(q, x)
  BY <1>2, SaidLast
<1>7. /\ SaidBy(q, Keeps(d), sent[d], run[d], conv[d]) /\ ConvBy(q, conv[d])
      /\ AnswersBy(d, q, run[d], pending)
      /\ WantedBy(report[d], run[d]) /\ ToldBy(report[d], sent[d], run[d])
  BY <1>1, <1>5, <1>6 DEF DeskBy, LinkedInv, Calls
<1>8. \A i \in DOMAIN q : q[i].by # <<"converge">>
  BY <1>5, <1>7 DEF ConvBy
<1>9. left \subseteq Session /\ conv[d].left \subseteq Session
  <2>1. conv[d].left \subseteq Session
    BY <1>1 DEF WindowTypes, ConvType
  <2> QED
    BY <1>4, <2>1
<1>10. \A s \in Session : ListsYet(q, conv[d], s) /\ run[d][s] = "off" => s \in left
  BY <1>4, <1>5 DEF ListsYet
<1>11. StoppedInv'
  BY <1>1, <1>5 DEF StoppedInv
<1>12. CASE untold = {} /\ conv' = [conv EXCEPT ![d] = NoConv] /\ UNCHANGED up
  <2>1. SaidBy(q, Keeps(d), sent[d], run[d], NoConv)
    <3>1. ASSUME NEW s \in Session
          PROVE  IF sent[d][s] # "off"
                 THEN Comes(q, s, Keeps(d)[s], sent[d][s]) \/ (run[d][s] = "off" /\ Comes(q, s, Keeps(d)[s], "off"))
                 ELSE Comes(q, s, Keeps(d)[s], "off") \/ run[d][s] # "off" \/ ListsYet(q, NoConv, s)
      <4>1. IF sent[d][s] # "off"
            THEN Comes(q, s, Keeps(d)[s], sent[d][s]) \/ (run[d][s] = "off" /\ Comes(q, s, Keeps(d)[s], "off"))
            ELSE Comes(q, s, Keeps(d)[s], "off") \/ run[d][s] # "off" \/ ListsYet(q, conv[d], s)
        BY <1>7 DEF SaidBy
      <4> QED
        BY <1>4, <1>10, <1>12, <4>1
    <3> QED
      BY <3>1 DEF SaidBy
  <2>2. ConvBy(q, NoConv)
    BY <1>8 DEF ConvBy
  <2>3. Windowed(d, report[d], sent[d], run[d], up[d], NoConv)
    BY <1>3, <1>5, <1>6, <1>7, <1>12, <2>1, <2>2 DEF Windowed, DeskBy
  <2>4. \A s \in Session : run[d][s] # "off" \/ HoldsIn(looking[d] \o up[d], s) => Writes(d, s)
    BY DEF Writes, Calls
  <2> QED
    BY <1>1, <1>11, <2>3, <2>4, WindowLinked, WindowWriter DEF SayInv
<1>13. ASSUME NEW s \in untold, conv' = [conv EXCEPT ![d] = [step |-> "waits", left |-> left \ {s}]],
              up' = [up EXCEPT ![d] = Append(@, Release(s, <<"converge">>))]
       PROVE  SayInv'
  <2>1. PICK c : c = [step |-> "waits", left |-> left \ {s}] /\ c.step = "waits" /\ c.left = left \ {s}
    <3>1. [step |-> "waits", left |-> left \ {s}].step = "waits" /\ [step |-> "waits", left |-> left \ {s}].left = left \ {s}
      OBVIOUS
    <3> QED
      BY <3>1
  <2>2. s \in Session /\ sent[d][s] = "off"
    BY <1>4, <1>9
  <2>3. PICK x \in Call : /\ x = Release(s, <<"converge">>) /\ About(x, s) /\ Said(x) = "off"
                          /\ \A u : u # s => ~About(x, u)
    BY <2>2, SaidIsCall DEF By
  <2>4. x.m = "release" /\ x.by = <<"converge">>
    BY <2>3 DEF Release
  <2>5. SaidBy(Append(q, x), Keeps(d), sent[d], run[d], c)
    <3>1. ASSUME NEW u \in Session
          PROVE  IF sent[d][u] # "off"
                 THEN \/ Comes(Append(q, x), u, Keeps(d)[u], sent[d][u])
                      \/ (run[d][u] = "off" /\ Comes(Append(q, x), u, Keeps(d)[u], "off"))
                 ELSE \/ Comes(Append(q, x), u, Keeps(d)[u], "off") \/ run[d][u] # "off"
                      \/ ListsYet(Append(q, x), c, u)
      <4>1. IF sent[d][u] # "off"
            THEN Comes(q, u, Keeps(d)[u], sent[d][u]) \/ (run[d][u] = "off" /\ Comes(q, u, Keeps(d)[u], "off"))
            ELSE Comes(q, u, Keeps(d)[u], "off") \/ run[d][u] # "off" \/ ListsYet(q, conv[d], u)
        BY <1>7 DEF SaidBy
      <4>2. CASE u = s
        <5>1. Comes(Append(q, x), u, Keeps(d)[u], "off")
          BY <2>3, <4>2, ComesAppend
        <5> QED
          BY <2>2, <4>2, <5>1
      <4>3. CASE u # s
        <5>1. \A a : Comes(q, u, Keeps(d)[u], a) => Comes(Append(q, x), u, Keeps(d)[u], a)
          BY <2>3, <4>3, ComesAppend
        <5>2. ListsYet(q, conv[d], u) /\ run[d][u] = "off" => ListsYet(Append(q, x), c, u)
          BY <1>10, <2>1, <4>3 DEF ListsYet
        <5> QED
          BY <4>1, <5>1, <5>2
      <4> QED
        BY <4>2, <4>3
    <3> QED
      BY <3>1 DEF SaidBy
  <2>6. ConvBy(Append(q, x), c)
    BY <1>7, <1>8, <2>1, <2>4, ConvAppend
  <2>7. AnswersBy(d, Append(q, x), run[d], pending)
    <3>1. \A r \in Request : pending[r].outcome # "none" => pending[r].s \in Session
      BY <1>1 DEF LetGoInv
    <3>2. x.m # "answer"
      BY <2>4
    <3> QED
      BY <1>7, <3>1, <3>2, AnswersAppend
  <2>8. Windowed(d, report[d], sent[d], run[d], Append(up[d], x), c)
    BY <1>3, <1>5, <1>6, <1>7, <1>13, <2>1, <2>3, <2>5, <2>6, <2>7 DEF Windowed, DeskBy
  <2>9. \A u \in Session : HoldsIn(Append(q, x), u) => HoldsIn(q, u)
    BY <2>4, HoldsInIs
  <2>10. \A u \in Session : run[d][u] # "off" \/ HoldsIn(looking[d] \o Append(up[d], x), u) => Writes(d, u)
    BY <1>6, <2>9 DEF Writes, Calls
  <2> QED
    BY <1>1, <1>11, <2>8, <2>10, WindowLinked, WindowWriter DEF SayInv
<1> QED
  BY <1>5, <1>12, <1>13

\* An agent is gone from its tab, which is reported, and let go.
LEMMA StoppedSays ==
  ASSUME TypesInv, SayInv, Closed, NEW d \in Desktop, NEW r \in Reason, Stopped(d, r)
  PROVE  SayInv'
<1>1. WindowTypes /\ BridgeTypes /\ LetGoInv /\ LinkedInv /\ StoppedInv /\ WriterInv
  BY TypesAre DEF SayInv
<1>2. /\ run[d] \in [Session -> Activity] /\ sent[d] \in [Session -> Activity] /\ report[d] \in [Slot -> Report]
      /\ up[d] \in Seq(Call) /\ looking[d] \in Seq(HoldCall) /\ letgo \in [Desktop -> [Reason -> LetGoType]]
  BY <1>1 DEF WindowTypes, BridgeTypes
<1>3. letgo[d][r].step = "stopping" /\ letgo[d][r].s \in Session
  BY <1>1 DEF Stopped, LetGoInv
<1>4. PICK s \in Session : s = letgo[d][r].s
  BY <1>3
<1>5. PICK w \in [Session -> Activity] : w = [run[d] EXCEPT ![s] = "off"]
  BY <1>2 DEF Activity
<1>6. PICK t \in [Session -> Activity] : t = [sent[d] EXCEPT ![s] = "off"]
  BY <1>2 DEF Activity
<1>7. PICK x \in Call : /\ x = Release(s, <<"letgo", r>>) /\ About(x, s) /\ Said(x) = "off"
                        /\ \A u : u # s => ~About(x, u)
  BY SaidIsCall DEF By
<1>8. x.m = "release" /\ x.by # <<"converge">>
  BY <1>7 DEF Release
<1>9. PICK u \in Seq(Call) : u = Append(up[d], x)
  <2>1. PICK z \in Seq(Call) : z = up[d]
    BY <1>2
  <2>2. Append(z, x) \in Seq(Call)
    OBVIOUS
  <2> QED
    BY <2>1, <2>2
<1>10. /\ ~StaleOf(d, s) /\ run' = [run EXCEPT ![d] = w] /\ Tells(d, w, t, u)
       /\ letgo' = [letgo EXCEPT ![d][r] = IF link[d] THEN [@ EXCEPT !.step = "waits"] ELSE NotLettingGo]
       /\ UNCHANGED <<holds, pending, looking, link, conv>>
  BY <1>4, <1>5, <1>6, <1>7, <1>9 DEF Stopped, Closed, Open, bridge
<1>11. /\ w[s] = "off" /\ \A y \in Session \ {s} : w[y] = run[d][y]
       /\ t[s] = "off" /\ \A y \in Session \ {s} : t[y] = sent[d][y]
       /\ conv' = [conv EXCEPT ![d] = conv[d]]
  BY <1>1, <1>2, <1>5, <1>6, <1>10 DEF WindowTypes
<1>12. PICK q \in Seq(Call) : q = looking[d] \o up[d] /\ looking[d] \o u = Append(q, x)
  BY <1>2, <1>9, SaidLast
<1>13. \A y \in Session : HoldsIn(looking[d] \o u, y) => HoldsIn(looking[d] \o up[d], y)
  <2>1. \A y \in Session : HoldsIn(Append(q, x), y) => HoldsIn(q, y)
    BY <1>8, HoldsInIs
  <2> QED
    BY <1>12, <2>1
<1>14. \E P : \E t2 : \E u2 : /\ Windowed(d, P, t2, w, u2, conv[d])
                              /\ \A y \in Session : HoldsIn(looking[d] \o u2, y) => HoldsIn(looking[d] \o up[d], y) \/ w[y] # "off"
  <2>1. CASE link[d]
    <3>1. /\ SaidBy(q, Keeps(d), sent[d], run[d], conv[d]) /\ ConvBy(q, conv[d])
          /\ AnswersBy(d, q, run[d], pending)
          /\ WantedBy(report[d], run[d])
      BY <1>1, <1>12, <2>1 DEF DeskBy, LinkedInv, Calls
    <3>2. \A k \in Slot : ~Stale(report[d][k], s)
      BY <1>10, StaleIs
    <3>3. WantedBy(report[d], w)
      BY <1>11, <3>1, <3>2 DEF WantedBy
    <3>4. SaidBy(Append(q, x), Keeps(d), t, w, conv[d])
      <4>1. ASSUME NEW y \in Session
            PROVE  IF t[y] # "off"
                   THEN \/ Comes(Append(q, x), y, Keeps(d)[y], t[y])
                        \/ (w[y] = "off" /\ Comes(Append(q, x), y, Keeps(d)[y], "off"))
                   ELSE \/ Comes(Append(q, x), y, Keeps(d)[y], "off") \/ w[y] # "off"
                        \/ ListsYet(Append(q, x), conv[d], y)
        <5>1. IF sent[d][y] # "off"
              THEN Comes(q, y, Keeps(d)[y], sent[d][y]) \/ (run[d][y] = "off" /\ Comes(q, y, Keeps(d)[y], "off"))
              ELSE Comes(q, y, Keeps(d)[y], "off") \/ run[d][y] # "off" \/ ListsYet(q, conv[d], y)
          BY <3>1 DEF SaidBy
        <5>2. CASE y = s
          <6>1. Comes(Append(q, x), y, Keeps(d)[y], "off")
            BY <1>7, <5>2, ComesAppend
          <6> QED
            BY <1>11, <5>2, <6>1
        <5>3. CASE y # s
          <6>1. \A a : Comes(q, y, Keeps(d)[y], a) => Comes(Append(q, x), y, Keeps(d)[y], a)
            BY <1>7, <5>3, ComesAppend
          <6>2. ListsYet(q, conv[d], y) => ListsYet(Append(q, x), conv[d], y)
            BY <1>7, <5>3, ListsAppend
          <6>3. w[y] = run[d][y] /\ t[y] = sent[d][y]
            BY <1>11, <5>3
          <6> QED
            BY <5>1, <6>1, <6>2, <6>3
        <5> QED
          BY <5>2, <5>3
      <4> QED
        BY <4>1 DEF SaidBy
    <3>5. ConvBy(Append(q, x), conv[d])
      BY <1>8, <3>1, ConvAppend
    <3>6. AnswersBy(d, Append(q, x), w, pending)
      <4>1. \A z \in Request : pending[z].outcome # "none" => pending[z].s \in Session
        BY <1>1 DEF LetGoInv
      <4>2. x.m # "answer"
        BY <1>8
      <4>3. \A y \in Session : run[d][y] = "off" => w[y] = "off"
        BY <1>11
      <4> QED
        BY <3>1, <4>1, <4>2, <4>3, AnswersAppend
    <3>7. \A y \in Session : w[y] = "off" =>
            w[y] = "off" \/ \A k : GoOn(Begun(w), t, <<"report", k>>).calls = <<Hold(y, w[y], <<"report", k>>)>>
      OBVIOUS
    <3>8. \E P : \E t2 : \E u2 : Told1(d, w, u, P, t2, u2)
      BY <1>10, <1>12, <2>1, <3>3, <3>4, <3>5, <3>6, <3>7, TellsDesk
    <3>9. PICK P : \E t2 : \E u2 : Told1(d, w, u, P, t2, u2)
      BY <3>8
    <3>10. PICK t2 : \E u2 : Told1(d, w, u, P, t2, u2)
      BY <3>9
    <3>11. PICK u2 : Told1(d, w, u, P, t2, u2)
      BY <3>10
    <3>12. Windowed(d, P, t2, w, u2, conv[d])
      BY <1>10, <1>11, <3>11 DEF Windowed, Told1
    <3> QED
      BY <1>13, <3>11, <3>12 DEF Told1
  <2>2. CASE ~link[d]
    <3>1. sent' = [sent EXCEPT ![d] = t] /\ UNCHANGED <<report, up>>
      BY <1>10, <2>2 DEF Tells
    <3>2. report' = [report EXCEPT ![d] = report[d]] /\ up' = [up EXCEPT ![d] = up[d]]
      BY <1>1, <3>1 DEF WindowTypes
    <3>3. Windowed(d, report[d], t, w, up[d], conv[d])
      BY <1>10, <1>11, <2>2, <3>1, <3>2 DEF Windowed
    <3> QED
      BY <3>3
  <2> QED
    BY <2>1, <2>2
<1>15. PICK P : \E t2 : \E u2 : /\ Windowed(d, P, t2, w, u2, conv[d])
                                /\ \A y \in Session : HoldsIn(looking[d] \o u2, y) => HoldsIn(looking[d] \o up[d], y) \/ w[y] # "off"
  BY <1>14
<1>16. PICK t2 : \E u2 : /\ Windowed(d, P, t2, w, u2, conv[d])
                         /\ \A y \in Session : HoldsIn(looking[d] \o u2, y) => HoldsIn(looking[d] \o up[d], y) \/ w[y] # "off"
  BY <1>15
<1>17. PICK u2 : /\ Windowed(d, P, t2, w, u2, conv[d])
                 /\ \A y \in Session : HoldsIn(looking[d] \o u2, y) => HoldsIn(looking[d] \o up[d], y) \/ w[y] # "off"
  BY <1>16
<1>18. LinkedInv'
  BY <1>1, <1>17, WindowLinked
<1>19. \A y \in Session : w[y] # "off" => run[d][y] # "off"
  BY <1>11
<1>20. \A y \in Session : w[y] # "off" \/ HoldsIn(looking[d] \o u2, y) => Writes(d, y)
  BY <1>17, <1>19 DEF Writes, Calls
<1>21. WriterInv'
  BY <1>1, <1>17, <1>20, WindowWriter
<1>22. StoppedInv'
  <2>1. ASSUME NEW e \in Desktop, NEW z \in Reason, letgo'[e][z].step \in {"waits", "goes"}
        PROVE  run'[e][letgo'[e][z].s] = "off"
    <3>1. run'[d] = w /\ \A f \in Desktop \ {d} : run'[f] = run[f] /\ letgo'[f] = letgo[f]
      BY <1>1, <1>2, <1>10 DEF WindowTypes
    <3>2. CASE e # d
      BY <1>1, <2>1, <3>1, <3>2 DEF StoppedInv
    <3>3. CASE e = d /\ z = r
      <4>1. PICK v \in LetGoType : v = letgo[d][r]
        BY <1>2
      <4>2. letgo'[d][r] = IF link[d] THEN [v EXCEPT !.step = "waits"] ELSE NotLettingGo
        BY <1>2, <1>10, <4>1
      <4>3. letgo'[d][r].s = s
        BY <1>4, <2>1, <3>3, <4>1, <4>2 DEF LetGoType, NotLettingGo
      <4> QED
        BY <1>11, <3>1, <3>3, <4>3
    <3>4. CASE e = d /\ z # r
      <4>1. letgo'[d][z] = letgo[d][z]
        BY <1>2, <1>10, <3>4
      <4>2. PICK y : y = letgo[d][z].s
        OBVIOUS
      <4>3. y \in Session /\ run[d][y] = "off"
        BY <1>1, <2>1, <3>4, <4>1, <4>2 DEF StoppedInv, LetGoInv
      <4>4. w[y] = "off"
        BY <1>11, <4>3
      <4> QED
        BY <3>1, <3>4, <4>1, <4>2, <4>4
    <3> QED
      BY <3>2, <3>3, <3>4
  <2> QED
    BY <2>1 DEF StoppedInv
<1> QED
  BY <1>18, <1>21, <1>22 DEF SayInv

\* Every step of a window keeps SayInv.
LEMMA WindowSays ==
  ASSUME TypesInv, SayInv, Closed, NEW d \in Desktop, WindowNext(d)
  PROVE  SayInv'
<1>1. CASE \E s \in Session, a \in Activity : Change(d, s, a)
  BY <1>1, ChangeSays
<1>2. CASE \E k \in Slot : ReportGoes(d, k)
  BY <1>2, ReportGoesSays
<1>3. CASE ConvergeGoes(d)
  BY <1>3, ConvergeGoesSays
<1>4. CASE \/ \E s \in Session : ContinueAsChat(d, s)
           \/ \E r \in Request : HandoffRequested(d, r)
           \/ \E r \in Reason : StopFails(d, r) \/ LetGo(d, r)
  BY <1>4, AnswerSays
<1>5. CASE \E r \in Reason : Stopped(d, r)
  BY <1>5, StoppedSays
<1> QED
  BY <1>1, <1>2, <1>3, <1>4, <1>5 DEF WindowNext
--------------------------------------------------------------------------------
(* What the bridge does keeps SayInv *)

\* Whoever waits for an answer goes on, and says nothing yet.
LEMMA RepliesAre ==
  ASSUME WindowTypes, NEW d \in Desktop, NEW by \in By, Replies(d, by)
  PROVE  /\ \A e \in Desktop \ {d} : report'[e] = report[e] /\ conv'[e] = conv[e] /\ letgo'[e] = letgo[e]
         /\ \A k \in Slot, s \in Session :
              /\ Stale(report'[d][k], s) <=> Stale(report[d][k], s)
              /\ Aim(report'[d][k], s) = Aim(report[d][k], s)
         /\ \/ conv'[d] = conv[d]
            \/ by = <<"converge">> /\ conv'[d].step = "goes" /\ conv'[d].left = conv[d].left
<1>1. /\ report' = IF by[1] = "report" THEN [report EXCEPT ![d][by[2]].waits = FALSE] ELSE report
      /\ conv' = IF by[1] = "converge" THEN [conv EXCEPT ![d].step = "goes"] ELSE conv
      /\ letgo' = IF by[1] = "letgo" THEN [letgo EXCEPT ![d][by[2]].step = "goes"] ELSE letgo
  BY DEF Replies
<1>2. /\ report \in [Desktop -> [Slot -> Report]] /\ conv \in [Desktop -> ConvType]
      /\ letgo \in [Desktop -> [Reason -> LetGoType]]
  BY DEF WindowTypes
<1>3. \A e \in Desktop \ {d} : report'[e] = report[e] /\ conv'[e] = conv[e] /\ letgo'[e] = letgo[e]
  BY <1>1, <1>2
<1>4. ASSUME NEW k \in Slot, NEW s \in Session
      PROVE  /\ Stale(report'[d][k], s) <=> Stale(report[d][k], s)
             /\ Aim(report'[d][k], s) = Aim(report[d][k], s)
  <2>1. PICK p \in Report : p = report[d][k]
    BY <1>2
  <2>2. PICK p2 : p2 = [p EXCEPT !.waits = FALSE]
    OBVIOUS
  <2>3. p2.phase = p.phase /\ p2.wanted = p.wanted /\ p2.at = p.at /\ p2.rest = p.rest
    BY <2>2 DEF Report
  <2>4. report'[d][k] = p \/ report'[d][k] = p2
    BY <1>1, <1>2, <2>1, <2>2
  <2> QED
    BY <2>1, <2>3, <2>4 DEF Stale, Aim
<1>5. \/ conv'[d] = conv[d]
      \/ by = <<"converge">> /\ conv'[d].step = "goes" /\ conv'[d].left = conv[d].left
  <2>1. CASE by[1] = "converge"
    <3>1. by = <<"converge">>
      BY <2>1, ByIs
    <3>2. conv'[d].step = "goes" /\ conv'[d].left = conv[d].left
      BY <1>1, <1>2, <2>1 DEF ConvType
    <3> QED
      BY <3>1, <3>2
  <2>2. CASE by[1] # "converge"
    BY <1>1, <2>2
  <2> QED
    BY <2>1, <2>2
<1> QED
  BY <1>3, <1>4, <1>5

\* Before and after the oldest call of a desktop is handled: the bridge kept b and
\* keeps b2.
Serves(d, P, t, w, q, b, c, asked, P2, b2, c2) ==
  /\ q \in Seq(Call) /\ q # <<>> /\ DeskBy(d, P, t, w, q, b, c, asked)
  /\ \A s \in Session : b2[s] = IF About(Head(q), s) THEN Said(Head(q)) ELSE b[s]
  /\ \A k \in Slot, s \in Session : (Stale(P2[k], s) <=> Stale(P[k], s)) /\ Aim(P2[k], s) = Aim(P[k], s)
  /\ \/ c2 = c
     \/ /\ Head(q).by = <<"converge">> /\ Head(q).m # "holds"
        /\ c2.step = "goes" /\ c2.left = c.left

\* What was said stays what will be kept.
LEMMA ServesDesk ==
  ASSUME NEW d, NEW P, NEW t, NEW w, NEW q, NEW b, NEW c, NEW asked, NEW P2, NEW b2, NEW c2,
         Serves(d, P, t, w, q, b, c, asked, P2, b2, c2)
  PROVE  DeskBy(d, P2, t, w, Tail(q), b2, c2, asked)
<1> USE DEF Serves
<1>1. /\ WantedBy(P, w) /\ ToldBy(P, t, w) /\ SaidBy(q, b, t, w, c) /\ ConvBy(q, c) /\ AnswersBy(d, q, w, asked)
  BY DEF DeskBy
<1>2. WantedBy(P2, w) /\ ToldBy(P2, t, w)
  BY <1>1 DEF WantedBy, ToldBy
<1>3. AnswersBy(d, Tail(q), w, asked)
  BY <1>1, AnswersTail
<1>4. ConvBy(Tail(q), c2)
  BY <1>1, ConvTail
<1>5. \A s : ListsYet(q, c, s) => ListsYet(Tail(q), c2, s)
  <2>1. \A s : ListsYet(q, c, s) => ListsYet(Tail(q), c, s)
    BY ListsTail
  <2>2. CASE c2 = c
    BY <2>1, <2>2
  <2>3. CASE c2 # c
    <3>1. DOMAIN q = 1 .. Len(q) /\ Len(q) \in Nat \ {0} /\ Head(q) = q[1]
      OBVIOUS
    <3>2. c.step = "waits"
      BY <1>1, <2>3, <3>1 DEF ConvBy
    <3> QED
      BY <2>3, <3>2 DEF ListsYet
  <2> QED
    BY <2>2, <2>3
<1>6. ASSUME NEW s \in Session
      PROVE  IF t[s] # "off"
             THEN Comes(Tail(q), s, b2[s], t[s]) \/ (w[s] = "off" /\ Comes(Tail(q), s, b2[s], "off"))
             ELSE Comes(Tail(q), s, b2[s], "off") \/ w[s] # "off" \/ ListsYet(Tail(q), c2, s)
  <2>1. IF t[s] # "off"
        THEN Comes(q, s, b[s], t[s]) \/ (w[s] = "off" /\ Comes(q, s, b[s], "off"))
        ELSE Comes(q, s, b[s], "off") \/ w[s] # "off" \/ ListsYet(q, c, s)
    BY <1>1 DEF SaidBy
  <2>2. PICK x : x = IF About(Head(q), s) THEN Said(Head(q)) ELSE b[s]
    OBVIOUS
  <2>3. \A a : Comes(q, s, b[s], a) => Comes(Tail(q), s, x, a)
    BY <2>2, ComesTail
  <2>4. b2[s] = x
    BY <2>2
  <2> QED
    BY <1>5, <2>1, <2>3, <2>4
<1>7. SaidBy(Tail(q), b2, t, w, c2)
  BY <1>6 DEF SaidBy
<1> QED
  BY <1>2, <1>3, <1>4, <1>7 DEF DeskBy

\* The calls of a desktop the step is not about.
LEMMA CallsAre ==
  ASSUME WindowTypes, BridgeTypes, NEW d \in Desktop
  PROVE  Calls(d) \in Seq(Call) /\ \A e \in Desktop : looking'[e] = looking[e] /\ up'[e] = up[e] => Calls(e)' = Calls(e)
<1>1. looking[d] \in Seq(HoldCall) /\ up[d] \in Seq(Call)
  BY DEF WindowTypes, BridgeTypes
<1> QED
  BY <1>1, SaidLast DEF Calls

\* With no agent/hold waiting, what is handled is the oldest call there is.
LEMMA HandledCalls ==
  ASSUME TypesInv, Closed, NEW d \in Desktop, NEW m, Handles(d, m), UNCHANGED looking
  PROVE  /\ Calls(d) \in Seq(Call) /\ Calls(d) # <<>> /\ Calls(d)' = Tail(Calls(d))
         /\ Head(Calls(d)) = Head(up[d]) /\ Head(up[d]) \in Call /\ Head(up[d]).m = m
         /\ \A e \in Desktop \ {d} : Calls(e)' = Calls(e) /\ up'[e] = up[e]
<1>1. WindowTypes /\ BridgeTypes
  BY TypesAre
<1>2. looking[d] = <<>>
  BY DEF Handles, Closed, Open
<1>3. /\ up[d] \in Seq(Call) /\ up[d] # <<>> /\ up' = [up EXCEPT ![d] = Tail(up[d])]
      /\ Head(up[d]) \in Call /\ Head(up[d]).m = m /\ Tail(up[d]) \in Seq(Call)
  BY HandlesTypes
<1>4. Calls(d) = up[d]
  BY <1>2, <1>3, NothingBefore DEF Calls
<1>5. Calls(d)' = Tail(up[d])
  <2>1. looking'[d] = <<>> /\ up'[d] = Tail(up[d])
    BY <1>1, <1>2, <1>3 DEF WindowTypes
  <2>2. <<>> \o Tail(up[d]) = Tail(up[d])
    BY <1>3, NothingBefore
  <2> QED
    BY <2>1, <2>2 DEF Calls
<1>6. \A e \in Desktop \ {d} : Calls(e)' = Calls(e) /\ up'[e] = up[e]
  BY <1>1, <1>3 DEF Calls, WindowTypes
<1> QED
  BY <1>3, <1>4, <1>5, <1>6

\* A desktop writes no more once a call of one was handled, and keeps what it writes.
LEMMA ServedWriter ==
  ASSUME WriterInv, NEW d \in Desktop, Calls(d) \in Seq(Call), Calls(d) # <<>>, Calls(d)' = Tail(Calls(d)),
         \A e \in Desktop \ {d} : Calls(e)' = Calls(e), UNCHANGED run,
         \A e \in Desktop, s \in Session : holds'[s].client = e => Writes(e, s),
         \A r \in Request : pending'[r].outcome = "asked" => pending'[r] = pending[r]
  PROVE  WriterInv'
<1>1. ASSUME NEW e \in Desktop, NEW s \in Session, Writes(e, s)' PROVE Writes(e, s)
  <2>1. HoldsIn(Calls(e)', s) => HoldsIn(Calls(e), s)
    <3>1. \A q \in Seq(Call) : q # <<>> /\ HoldsIn(Tail(q), s) => HoldsIn(q, s)
      BY HoldsInIs
    <3> QED
      BY <3>1
  <2>2. run'[e][s] # "off" \/ holds'[s].client = e \/ HoldsIn(Calls(e)', s)
    BY <1>1 DEF Writes, HoldsIn
  <2> QED
    BY <2>1, <2>2 DEF Writes
<1> QED
  BY <1>1, WriterFrame

\* agent/hold reaches its handler.
LEMMA HoldCalledSays ==
  ASSUME TypesInv, SayInv, Closed, NEW d \in Desktop, HoldCalled(d)
  PROVE  SayInv'
<1>1. WindowTypes /\ BridgeTypes /\ LinkedInv /\ StoppedInv /\ WriterInv
  BY TypesAre DEF SayInv
<1>2. /\ Handles(d, "hold") /\ looking' = [looking EXCEPT ![d] = Append(@, Head(up[d]))]
      /\ UNCHANGED <<holds, pending, link, run, sent, report, conv, letgo>>
  BY DEF HoldCalled, window
<1>3. looking[d] = <<>> /\ up[d] \in Seq(Call) /\ up[d] # <<>> /\ up' = [up EXCEPT ![d] = Tail(up[d])]
  BY <1>2, HandlesTypes DEF Handles, Closed, Open
<1>4. Calls(d)' = Calls(d)
  <2>1. Calls(d)' = Append(<<>>, Head(up[d])) \o Tail(up[d])
    BY <1>1, <1>2, <1>3 DEF Calls, WindowTypes, BridgeTypes
  <2> QED
    BY <1>3, <2>1, CalledFirst, NothingBefore DEF Calls
<1>5. \A e \in Desktop \ {d} : looking'[e] = looking[e] /\ up'[e] = up[e] /\ Calls(e)' = Calls(e)
  BY <1>1, <1>2, <1>3 DEF Calls, WindowTypes, BridgeTypes
<1>6. Keeps(d)' = Keeps(d)
  BY <1>2, KeepsStays
<1>7. link'[d] => DeskBy(d, report'[d], sent'[d], run'[d], Calls(d)', Keeps(d)', conv'[d], pending')
  BY <1>1, <1>2, <1>4, <1>6 DEF LinkedInv
<1>8. PendingMild
  BY <1>2 DEF PendingMild
<1>9. LinkedInv'
  BY <1>1, <1>2, <1>5, <1>7, <1>8, LinkedFrame
<1>10. WriterInv'
  <2>1. \A e \in Desktop : Calls(e)' = Calls(e)
    BY <1>4, <1>5
  <2>2. ASSUME NEW e \in Desktop, NEW s \in Session, Writes(e, s)' PROVE Writes(e, s)
    <3>1. run'[e][s] # "off" \/ holds'[s].client = e \/ HoldsIn(Calls(e)', s)
      BY <2>2 DEF Writes, HoldsIn
    <3> QED
      BY <1>2, <2>1, <3>1 DEF Writes
  <2> QED
    BY <1>1, <1>2, <2>2, WriterFrame
<1>11. StoppedInv'
  BY <1>1, <1>2 DEF StoppedInv
<1> QED
  BY <1>9, <1>10, <1>11 DEF SayInv

\* A hold is kept, of the only desktop that writes the session.
LEMMA HeldSays ==
  ASSUME TypesInv, SayInv, NEW d \in Desktop, Held(d)
  PROVE  SayInv'
<1>1. WindowTypes /\ BridgeTypes /\ LinkedInv /\ StoppedInv /\ WriterInv
  BY TypesAre DEF SayInv
<1>2. /\ looking[d] \in Seq(HoldCall) /\ looking[d] # <<>> /\ up[d] \in Seq(Call)
      /\ holds \in [Session -> [client : Desktop \cup {NoOne}, busy : BOOLEAN]]
  BY <1>1 DEF Held, BridgeTypes, WindowTypes
<1>3. PICK c \in HoldCall : c = Head(looking[d])
  BY <1>2
<1>4. /\ holds' = [holds EXCEPT ![c.s] = [client |-> d, busy |-> c.a = "working"]]
      /\ Replies(d, c.by) /\ looking' = [looking EXCEPT ![d] = Tail(looking[d])]
      /\ UNCHANGED <<pending, up, link, run, sent>>
  BY <1>3 DEF Held
<1>5. c \in Call /\ c.m = "hold" /\ c.s \in Session /\ c.a \in {"idle", "working"} /\ c.by \in HoldBy
  BY <1>3, HoldIsCall DEF HoldCall, Activity
<1>6. c.by \in By /\ c.by # <<"converge">> /\ \A r : c.by # <<"letgo", r>>
  BY <1>5, HoldByIs
<1>7. PICK q \in Seq(Call) : q = Calls(d) /\ q # <<>> /\ Head(q) = c /\ Tail(looking[d]) \o up[d] = Tail(q)
  BY <1>2, <1>3, HandledFirst DEF Calls
<1>8. Calls(d)' = Tail(q)
  BY <1>1, <1>4, <1>7 DEF Calls, BridgeTypes
<1>9. HoldsIn(q, c.s)
  <2>1. q # <<>> /\ Head(q) = c
    BY <1>7
  <2>2. 1 \in DOMAIN q /\ q[1] = c
    BY <2>1
  <2> QED
    BY <1>5, <2>2 DEF HoldsIn
<1>10. /\ \A e \in Desktop \ {d} : report'[e] = report[e] /\ conv'[e] = conv[e] /\ letgo'[e] = letgo[e]
       /\ \A k \in Slot, s \in Session :
            /\ Stale(report'[d][k], s) <=> Stale(report[d][k], s)
            /\ Aim(report'[d][k], s) = Aim(report[d][k], s)
       /\ conv'[d] = conv[d]
  BY <1>1, <1>4, <1>6, RepliesAre
<1>11. \A s \in Session : Keeps(d)'[s] = IF About(c, s) THEN Said(c) ELSE Keeps(d)[s]
  <2>1. ASSUME NEW s \in Session PROVE Keeps(d)'[s] = IF About(c, s) THEN Said(c) ELSE Keeps(d)[s]
    <3>1. CASE s = c.s
      <4>1. holds'[s].client = d /\ holds'[s].busy = (c.a = "working")
        BY <1>2, <1>4, <3>1
      <4> QED
        BY <1>5, <3>1, <4>1 DEF Keeps, About, Said
    <3>2. CASE s # c.s
      <4>1. holds'[s] = holds[s]
        BY <1>2, <1>4, <3>2
      <4> QED
        BY <3>2, <4>1 DEF Keeps, About
    <3> QED
      BY <3>1, <3>2
  <2> QED
    BY <2>1
<1>12. link'[d] => DeskBy(d, report'[d], sent'[d], run'[d], Calls(d)', Keeps(d)', conv'[d], pending')
  <2>1. ASSUME link[d] PROVE DeskBy(d, report'[d], sent[d], run[d], Tail(q), Keeps(d)', conv[d], pending)
    <3>1. DeskBy(d, report[d], sent[d], run[d], q, Keeps(d), conv[d], pending)
      BY <1>1, <1>7, <2>1 DEF LinkedInv
    <3>2. Serves(d, report[d], sent[d], run[d], q, Keeps(d), conv[d], pending, report'[d], Keeps(d)', conv[d])
      BY <1>7, <1>10, <1>11, <3>1 DEF Serves
    <3> QED
      BY <3>2, ServesDesk
  <2> QED
    BY <1>4, <1>8, <1>10, <2>1
<1>13. \A e \in Desktop \ {d} :
         link'[e] => /\ link[e] /\ report'[e] = report[e] /\ sent'[e] = sent[e] /\ run'[e] = run[e]
                     /\ up'[e] = up[e] /\ looking'[e] = looking[e] /\ conv'[e] = conv[e]
  BY <1>1, <1>4, <1>10 DEF BridgeTypes
<1>14. \A e \in Desktop \ {d}, s \in Session :
         holds'[s] = holds[s] \/ (holds[s].client # e /\ holds'[s].client # e)
  <2>1. ASSUME NEW e \in Desktop \ {d}, holds[c.s].client = e PROVE FALSE
    <3>1. Writes(e, c.s) /\ Writes(d, c.s)
      BY <1>7, <1>9, <2>1 DEF Writes
    <3> QED
      BY <1>1, <1>5, <2>1, <3>1 DEF WriterInv
  <2> QED
    BY <1>2, <1>4, <1>5, <2>1
<1>15. PendingMild
  BY <1>4 DEF PendingMild
<1>16. LinkedInv'
  BY <1>12, <1>13, <1>14, <1>15, <1>1, LinkedFrame
<1>17. \A e \in Desktop \ {d} : Calls(e)' = Calls(e)
  BY <1>1, <1>4 DEF Calls, BridgeTypes
<1>18. WriterInv'
  <2>1. ASSUME NEW e \in Desktop, NEW s \in Session, holds'[s].client = e PROVE Writes(e, s)
    <3>1. CASE s = c.s
      BY <1>2, <1>4, <1>7, <1>9, <2>1, <3>1 DEF Writes
    <3>2. CASE s # c.s
      BY <1>2, <1>4, <2>1, <3>2 DEF Writes
    <3> QED
      BY <3>1, <3>2
  <2> QED
    BY <1>1, <1>4, <1>7, <1>8, <1>17, <2>1, ServedWriter
<1>19. StoppedInv'
  <2>1. letgo' = letgo
    <3>1. c.by[1] # "letgo"
      BY <1>6, ByIs
    <3> QED
      BY <1>4, <3>1 DEF Replies
  <2> QED
    BY <1>1, <1>4, <2>1 DEF StoppedInv
<1> QED
  BY <1>16, <1>18, <1>19 DEF SayInv

\* A release is handled, and its answer lets go.
LEMMA ReleasedSays ==
  ASSUME TypesInv, SayInv, Closed, NEW d \in Desktop, Released(d)
  PROVE  SayInv'
<1>1. WindowTypes /\ BridgeTypes /\ LetGoInv /\ LinkedInv /\ StoppedInv /\ WriterInv
  BY TypesAre DEF SayInv
<1>2. Handles(d, "release") /\ UNCHANGED <<pending, looking, link, run, sent>>
  BY DEF Released
<1>3. /\ Calls(d) \in Seq(Call) /\ Calls(d) # <<>> /\ Calls(d)' = Tail(Calls(d))
      /\ Head(Calls(d)) = Head(up[d]) /\ Head(up[d]) \in Call /\ Head(up[d]).m = "release"
      /\ \A e \in Desktop \ {d} : Calls(e)' = Calls(e) /\ up'[e] = up[e]
  BY <1>2, HandledCalls
<1>4. PICK q \in Seq(Call) : q = Calls(d) /\ q # <<>>
  BY <1>3
<1>5. PICK c \in Call : c = Head(up[d]) /\ c = Head(q) /\ c.m = "release"
  BY <1>3, <1>4
<1>6. c.s \in Session /\ c.by \in By
  BY <1>5, CallIs
<1>7. /\ holds' = IF holds[c.s].client = d THEN [holds EXCEPT ![c.s] = Free] ELSE holds
      /\ Replies(d, c.by)
  BY <1>5 DEF Released
<1>8. holds \in [Session -> [client : Desktop \cup {NoOne}, busy : BOOLEAN]] /\ Free.client = NoOne /\ NoOne # d
  BY <1>1, HoldsAssumption DEF BridgeTypes, Free
<1>9. /\ \A e \in Desktop \ {d} : report'[e] = report[e] /\ conv'[e] = conv[e] /\ letgo'[e] = letgo[e]
      /\ \A k \in Slot, s \in Session :
           /\ Stale(report'[d][k], s) <=> Stale(report[d][k], s)
           /\ Aim(report'[d][k], s) = Aim(report[d][k], s)
      /\ \/ conv'[d] = conv[d]
         \/ c.by = <<"converge">> /\ conv'[d].step = "goes" /\ conv'[d].left = conv[d].left
  BY <1>1, <1>6, <1>7, RepliesAre
<1>10. \A s \in Session : holds'[s] = holds[s] \/ (s = c.s /\ holds[s].client = d /\ holds'[s] = Free)
  BY <1>7, <1>8
<1>11. ASSUME NEW s \in Session PROVE Keeps(d)'[s] = IF About(c, s) THEN Said(c) ELSE Keeps(d)[s]
  <2>1. CASE s = c.s
    <3>1. holds'[s].client # d
      BY <1>7, <1>8, <2>1
    <3> QED
      BY <1>5, <2>1, <3>1 DEF Keeps, About, Said
  <2>2. CASE s # c.s
    <3>1. holds'[s] = holds[s]
      BY <1>10, <2>2
    <3> QED
      BY <2>2, <3>1 DEF Keeps, About
  <2> QED
    BY <2>1, <2>2
<1>12. link'[d] => DeskBy(d, report'[d], sent'[d], run'[d], Calls(d)', Keeps(d)', conv'[d], pending')
  <2>1. ASSUME link[d] PROVE DeskBy(d, report'[d], sent[d], run[d], Tail(q), Keeps(d)', conv'[d], pending)
    <3>1. DeskBy(d, report[d], sent[d], run[d], q, Keeps(d), conv[d], pending)
      BY <1>1, <1>4, <2>1 DEF LinkedInv
    <3>2. Serves(d, report[d], sent[d], run[d], q, Keeps(d), conv[d], pending, report'[d], Keeps(d)', conv'[d])
      BY <1>4, <1>5, <1>9, <1>11, <3>1 DEF Serves
    <3> QED
      BY <3>2, ServesDesk
  <2> QED
    BY <1>2, <1>3, <1>4, <2>1
<1>13. \A e \in Desktop \ {d} :
         link'[e] => /\ link[e] /\ report'[e] = report[e] /\ sent'[e] = sent[e] /\ run'[e] = run[e]
                     /\ up'[e] = up[e] /\ looking'[e] = looking[e] /\ conv'[e] = conv[e]
  BY <1>2, <1>3, <1>9
<1>14. \A e \in Desktop \ {d}, s \in Session :
         holds'[s] = holds[s] \/ (holds[s].client # e /\ holds'[s].client # e)
  BY <1>8, <1>10, HoldsAssumption
<1>15. PendingMild
  BY <1>2 DEF PendingMild
<1>16. LinkedInv'
  BY <1>1, <1>12, <1>13, <1>14, <1>15, LinkedFrame
<1>17. WriterInv'
  <2>1. \A e \in Desktop, s \in Session : holds'[s].client = e => Writes(e, s)
    BY <1>8, <1>10, HoldsAssumption DEF Writes
  <2> QED
    BY <1>1, <1>2, <1>3, <2>1, ServedWriter
<1>18. StoppedInv'
  <2>1. PICK v : /\ letgo' = [letgo EXCEPT ![d] = v]
                 /\ \A r \in Reason : v[r] = letgo[d][r]
                      \/ (c.by = <<"letgo", r>> /\ v[r].step = "goes" /\ v[r].s = letgo[d][r].s)
    BY <1>6, <1>7, RepliesLetGo
  <2>2. letgo'[d] = v /\ \A e \in Desktop \ {d} : letgo'[e] = letgo[e]
    BY <1>1, <2>1 DEF WindowTypes
  <2>3. \A r \in Reason : c.by = <<"letgo", r>> => letgo[d][r].step = "waits"
    <3>1. up[d] \in Seq(Call) /\ up[d] # <<>>
      BY <1>2, HandlesTypes
    <3>2. 1 \in DOMAIN up[d] /\ up[d][1] = c
      BY <1>5, <3>1
    <3> QED
      BY <1>1, <3>2 DEF LetGoInv, LetGoBy
  <2>4. ASSUME NEW e \in Desktop, NEW r \in Reason, letgo'[e][r].step \in {"waits", "goes"}
        PROVE  run'[e][letgo'[e][r].s] = "off"
    <3>1. letgo'[e][r].s = letgo[e][r].s /\ letgo[e][r].step \in {"waits", "goes"}
      BY <2>1, <2>2, <2>3, <2>4
    <3> QED
      BY <1>1, <1>2, <3>1 DEF StoppedInv
  <2> QED
    BY <2>4 DEF StoppedInv
<1> QED
  BY <1>16, <1>17, <1>18 DEF SayInv

\* agent/holds: #converge has what the bridge keeps.
LEMMA ListedSays ==
  ASSUME TypesInv, SayInv, Closed, NEW d \in Desktop, Listed(d)
  PROVE  SayInv'
<1>1. WindowTypes /\ BridgeTypes /\ LinkedInv /\ StoppedInv /\ WriterInv
  BY TypesAre DEF SayInv
<1>2. Handles(d, "holds") /\ UNCHANGED <<holds, pending, looking, link, run, sent, report, letgo>>
  BY DEF Listed, bridge
<1>3. /\ Calls(d) \in Seq(Call) /\ Calls(d) # <<>> /\ Calls(d)' = Tail(Calls(d))
      /\ Head(Calls(d)) = Head(up[d]) /\ Head(up[d]) \in Call /\ Head(up[d]).m = "holds"
      /\ \A e \in Desktop \ {d} : Calls(e)' = Calls(e) /\ up'[e] = up[e]
  BY <1>2, HandledCalls
<1>4. PICK q \in Seq(Call) : q = Calls(d) /\ q # <<>>
  BY <1>3
<1>5. PICK x \in Call : x = Head(up[d]) /\ x = Head(q) /\ x.m = "holds"
  BY <1>3, <1>4
<1>6. \A s : ~About(x, s)
  BY <1>5 DEF About
<1>7. PICK c : c = [step |-> "listed", left |-> {s \in Session : holds[s] # Free}]
  OBVIOUS
<1>8. c.step = "listed" /\ c.left = {s \in Session : holds[s] # Free}
  BY <1>7
<1>9. conv' = IF x.by = <<"converge">> THEN [conv EXCEPT ![d] = c] ELSE conv
  BY <1>5, <1>7 DEF Listed
<1>10. Keeps(d)' = Keeps(d)
  BY <1>2, KeepsStays
<1>11. ASSUME link[d] PROVE DeskBy(d, report[d], sent[d], run[d], Tail(q), Keeps(d), conv'[d], pending)
  <2>1. DeskBy(d, report[d], sent[d], run[d], q, Keeps(d), conv[d], pending)
    BY <1>1, <1>4, <1>11 DEF LinkedInv
  <2>2. Serves(d, report[d], sent[d], run[d], q, Keeps(d), conv[d], pending, report[d], Keeps(d), conv[d])
    BY <1>4, <1>5, <1>6, <2>1 DEF Serves
  <2>3. DeskBy(d, report[d], sent[d], run[d], Tail(q), Keeps(d), conv[d], pending)
    BY <2>2, ServesDesk
  <2>4. CASE x.by # <<"converge">>
    BY <1>9, <2>3, <2>4
  <2>5. CASE x.by = <<"converge">>
    <3>1. conv'[d] = c
      BY <1>1, <1>9, <2>5 DEF WindowTypes
    <3>2. SaidBy(q, Keeps(d), sent[d], run[d], conv[d]) /\ ConvBy(q, conv[d])
      BY <2>1 DEF DeskBy
    <3>3. 1 \in DOMAIN q /\ q[1] = x
      BY <1>4, <1>5
    <3>4. conv[d].step = "asked"
      BY <1>5, <2>5, <3>2, <3>3 DEF ConvBy
    <3>5. ConvBy(Tail(q), c)
      BY <1>4, <1>5, <2>5, <3>2, ConvTail
    <3>6. ASSUME NEW s \in Session
          PROVE  IF sent[d][s] # "off"
                 THEN \/ Comes(Tail(q), s, Keeps(d)[s], sent[d][s])
                      \/ (run[d][s] = "off" /\ Comes(Tail(q), s, Keeps(d)[s], "off"))
                 ELSE \/ Comes(Tail(q), s, Keeps(d)[s], "off") \/ run[d][s] # "off"
                      \/ ListsYet(Tail(q), c, s)
      <4>1. IF sent[d][s] # "off"
            THEN Comes(q, s, Keeps(d)[s], sent[d][s]) \/ (run[d][s] = "off" /\ Comes(q, s, Keeps(d)[s], "off"))
            ELSE Comes(q, s, Keeps(d)[s], "off") \/ run[d][s] # "off" \/ ListsYet(q, conv[d], s)
        BY <3>2 DEF SaidBy
      <4>2. PICK b : b = Keeps(d)[s]
        OBVIOUS
      <4>3. \A a : Comes(q, s, b, a) => Comes(Tail(q), s, b, a)
        <5>1. ~About(Head(q), s)
          BY <1>5, <1>6
        <5> QED
          BY <1>4, <5>1, ComesTail
      <4>4. ListsYet(q, conv[d], s) => Comes(Tail(q), s, b, b)
        BY <1>4, <1>5, <2>5, <3>3, <3>4, ListMade
      <4>5. b # "off" => s \in c.left
        <5>1. b # "off" => holds[s].client = d
          BY <4>2 DEF Keeps
        <5>2. Free.client # d
          BY HoldsAssumption DEF Free
        <5> QED
          BY <1>8, <5>1, <5>2
      <4>6. b # "off" => ListsYet(Tail(q), c, s)
        BY <1>8, <4>5 DEF ListsYet
      <4>7. ListsYet(q, conv[d], s) => Comes(Tail(q), s, b, "off") \/ ListsYet(Tail(q), c, s)
        BY <4>4, <4>6
      <4> QED
        BY <4>1, <4>2, <4>3, <4>7
    <3>7. SaidBy(Tail(q), Keeps(d), sent[d], run[d], c)
      BY <3>6 DEF SaidBy
    <3> QED
      BY <2>3, <3>1, <3>5, <3>7 DEF DeskBy
  <2> QED
    BY <2>4, <2>5
<1>12. link'[d] => DeskBy(d, report'[d], sent'[d], run'[d], Calls(d)', Keeps(d)', conv'[d], pending')
  BY <1>2, <1>3, <1>4, <1>10, <1>11
<1>13. \A e \in Desktop \ {d} :
         link'[e] => /\ link[e] /\ report'[e] = report[e] /\ sent'[e] = sent[e] /\ run'[e] = run[e]
                     /\ up'[e] = up[e] /\ looking'[e] = looking[e] /\ conv'[e] = conv[e]
  BY <1>1, <1>2, <1>3, <1>9 DEF WindowTypes
<1>14. PendingMild
  BY <1>2 DEF PendingMild
<1>15. LinkedInv'
  BY <1>1, <1>2, <1>12, <1>13, <1>14, LinkedFrame
<1>16. WriterInv'
  <2>1. \A e \in Desktop, s \in Session : holds'[s].client = e => Writes(e, s)
    BY <1>2 DEF Writes
  <2> QED
    BY <1>1, <1>2, <1>3, <2>1, ServedWriter
<1>17. StoppedInv'
  BY <1>1, <1>2 DEF StoppedInv
<1> QED
  BY <1>15, <1>16, <1>17 DEF SayInv

\* A hold that is under way settles what comes, whatever is kept now.
LEMMA ComesOver ==
  ASSUME NEW q \in Seq(Call), NEW s, NEW b, NEW a, Comes(q, s, b, a), HoldsIn(q, s), NEW x
  PROVE  Comes(q, s, x, a)
<1>1. PICK i \in DOMAIN q : q[i].m = "hold" /\ q[i].s = s
  BY DEF HoldsIn
<1>2. About(q[i], s)
  BY <1>1 DEF About
<1> QED
  BY <1>2 DEF Comes

\* An answer that frees what a desktop still held.
LEMMA AnsweredFrees ==
  ASSUME NEW d, NEW q \in Seq(Call), q # <<>>, NEW P, NEW t, NEW w, NEW b, NEW c, NEW asked,
         DeskBy(d, P, t, w, q, b, c, asked),
         Head(q).m = "answer", Head(q).o = "released",
         asked[Head(q).r].outcome = "asked", asked[Head(q).r].client = d,
         NEW f, \A s \in Session : f[s] = IF s = asked[Head(q).r].s THEN "off" ELSE b[s]
  PROVE  DeskBy(d, P, t, w, Tail(q), f, c, asked)
<1>1. /\ WantedBy(P, w) /\ ToldBy(P, t, w) /\ SaidBy(q, b, t, w, c) /\ ConvBy(q, c) /\ AnswersBy(d, q, w, asked)
  BY DEF DeskBy
<1>2. ConvBy(Tail(q), c) /\ AnswersBy(d, Tail(q), w, asked)
  BY <1>1, ConvTail, AnswersTail
<1>3. PICK u : u = asked[Head(q).r].s
  OBVIOUS
<1>4. w[u] = "off" \/ HoldsIn(Tail(q), u)
  <2>1. 1 \in DOMAIN q /\ q[1] = Head(q)
    OBVIOUS
  <2>2. w[u] = "off" \/ \E j \in DOMAIN q : j > 1 /\ q[j].m = "hold" /\ q[j].s = u
    BY <1>1, <1>3, <2>1 DEF AnswersBy
  <2>3. ASSUME NEW j \in DOMAIN q, j > 1, q[j].m = "hold", q[j].s = u PROVE HoldsIn(Tail(q), u)
    <3>1. PICK n \in Nat \ {0}, r \in Seq(Call) :
            /\ r = Tail(q)
            /\ DOMAIN r = 1 .. n - 1 /\ DOMAIN q = 1 .. n
            /\ \A i \in DOMAIN r : r[i] = q[i + 1]
      BY TailGives
    <3>2. j - 1 \in DOMAIN r /\ r[j - 1] = q[j]
      BY <2>3, <3>1
    <3> QED
      BY <2>3, <3>1, <3>2 DEF HoldsIn
  <2> QED
    BY <2>2, <2>3
<1>5. \A s : ~About(Head(q), s)
  BY DEF About
<1>6. ASSUME NEW s \in Session
      PROVE  IF t[s] # "off"
             THEN Comes(Tail(q), s, f[s], t[s]) \/ (w[s] = "off" /\ Comes(Tail(q), s, f[s], "off"))
             ELSE Comes(Tail(q), s, f[s], "off") \/ w[s] # "off" \/ ListsYet(Tail(q), c, s)
  <2>1. IF t[s] # "off"
        THEN Comes(q, s, b[s], t[s]) \/ (w[s] = "off" /\ Comes(q, s, b[s], "off"))
        ELSE Comes(q, s, b[s], "off") \/ w[s] # "off" \/ ListsYet(q, c, s)
    BY <1>1 DEF SaidBy
  <2>2. PICK y : y = b[s]
    OBVIOUS
  <2>3. \A a : Comes(q, s, y, a) => Comes(Tail(q), s, y, a)
    BY <1>5, ComesTail
  <2>4. ListsYet(q, c, s) => ListsYet(Tail(q), c, s)
    BY ListsTail
  <2>5. CASE s # u
    <3>1. f[s] = y
      BY <1>3, <2>2, <2>5
    <3> QED
      BY <2>1, <2>2, <2>3, <2>4, <3>1
  <2>6. CASE s = u
    <3>1. f[s] = "off"
      BY <1>3, <2>6
    <3>2. CASE HoldsIn(Tail(q), u)
      <4>0. Tail(q) \in Seq(Call)
        BY TailIs
      <4>1. PICK z \in Seq(Call) : z = Tail(q)
        BY <4>0
      <4>2. \A a : Comes(z, s, y, a) => Comes(z, s, "off", a)
        BY <2>6, <3>2, <4>1, ComesOver
      <4>3. \A a : Comes(q, s, y, a) => Comes(Tail(q), s, "off", a)
        BY <2>3, <4>1, <4>2
      <4> QED
        BY <2>1, <2>2, <2>4, <3>1, <4>3
    <3>3. CASE w[u] = "off"
      <4>1. \A a : Comes(Tail(q), s, y, a) => Comes(Tail(q), s, "off", a) \/ Comes(Tail(q), s, "off", "off")
        BY ComesAnyway
      <4>2. \A a : Comes(q, s, y, a) => Comes(Tail(q), s, "off", a) \/ Comes(Tail(q), s, "off", "off")
        BY <2>3, <4>1
      <4> QED
        BY <2>1, <2>2, <2>4, <2>6, <3>1, <3>3, <4>2
    <3> QED
      BY <1>4, <3>2, <3>3
  <2> QED
    BY <2>5, <2>6
<1>7. SaidBy(Tail(q), f, t, w, c)
  BY <1>6 DEF SaidBy
<1> QED
  BY <1>1, <1>2, <1>7 DEF DeskBy

\* An answer is handled.
LEMMA AnsweredSays ==
  ASSUME TypesInv, SayInv, Closed, NEW d \in Desktop, Answered(d)
  PROVE  SayInv'
<1>1. WindowTypes /\ BridgeTypes /\ LetGoInv /\ LinkedInv /\ StoppedInv /\ WriterInv
  BY TypesAre DEF SayInv
<1>2. Handles(d, "answer") /\ UNCHANGED <<looking, link, run, sent, report, conv, letgo>>
  BY DEF Answered, window
<1>3. /\ Calls(d) \in Seq(Call) /\ Calls(d) # <<>> /\ Calls(d)' = Tail(Calls(d))
      /\ Head(Calls(d)) = Head(up[d]) /\ Head(up[d]) \in Call /\ Head(up[d]).m = "answer"
      /\ \A e \in Desktop \ {d} : Calls(e)' = Calls(e) /\ up'[e] = up[e]
  BY <1>2, HandledCalls
<1>4. PICK q \in Seq(Call) : q = Calls(d) /\ q # <<>>
  BY <1>3
<1>5. PICK x \in Call : x = Head(up[d]) /\ x = Head(q) /\ x.m = "answer"
  BY <1>3, <1>4
<1>6. x.r \in Request /\ x.o \in {"released", "busy"} /\ \A s : ~About(x, s)
  BY <1>5, CallIs DEF About
<1>7. PICK h : h = pending[x.r]
  OBVIOUS
<1>8. IF h.outcome = "asked" /\ h.client = d
      THEN /\ Settle(x.r, x.o)
           /\ holds' = IF x.o = "released" /\ holds[h.s].client = d
                       THEN [holds EXCEPT ![h.s] = Free] ELSE holds
      ELSE UNCHANGED <<pending, holds>>
  BY <1>5, <1>7 DEF Answered
<1>9. holds \in [Session -> [client : Desktop \cup {NoOne}, busy : BOOLEAN]] /\ Free.client = NoOne /\ NoOne # d
  BY <1>1, HoldsAssumption DEF BridgeTypes, Free
<1>10. h.outcome = "asked" => h.s \in Session
  BY <1>1, <1>6, <1>7 DEF LetGoInv
<1>11. PendingMild /\ \A r \in Request : pending'[r].outcome = "asked" => pending'[r] = pending[r]
  <2>1. CASE h.outcome = "asked" /\ h.client = d
    <3>1. x.o \in Outcome \ {"none", "asked"} /\ pending[x.r].outcome # "none" /\ Settle(x.r, x.o)
      BY <1>6, <1>7, <1>8, <2>1 DEF Outcome
    <3>2. /\ \A u \in Request : pending'[u].outcome = "asked" => pending'[u] = pending[u]
          /\ \A u \in Request :
               \/ pending'[u] = pending[u]
               \/ /\ pending[u].outcome # "none" /\ pending'[u].outcome # "none"
                  /\ pending'[u].s = pending[u].s /\ pending'[u].client = pending[u].client
      BY <1>1, <1>6, <3>1, SettleTypes
    <3> QED
      BY <3>2 DEF PendingMild
  <2>2. CASE ~(h.outcome = "asked" /\ h.client = d)
    BY <1>8, <2>2 DEF PendingMild
  <2> QED
    BY <2>1, <2>2
<1>12. \A s \in Session : holds'[s] = holds[s] \/ (holds[s].client = d /\ holds'[s] = Free)
  BY <1>8, <1>9, <1>10
<1>13. ASSUME link[d] PROVE DeskBy(d, report[d], sent[d], run[d], Tail(q), Keeps(d)', conv[d], pending)
  <2>1. DeskBy(d, report[d], sent[d], run[d], q, Keeps(d), conv[d], pending)
    BY <1>1, <1>4, <1>13 DEF LinkedInv
  <2>2. CASE h.outcome = "asked" /\ h.client = d /\ x.o = "released"
    <3>1. \A s \in Session : Keeps(d)'[s] = IF s = h.s THEN "off" ELSE Keeps(d)[s]
      <4>1. ASSUME NEW s \in Session PROVE Keeps(d)'[s] = IF s = h.s THEN "off" ELSE Keeps(d)[s]
        <5>1. CASE s = h.s
          <6>1. holds'[s].client # d
            BY <1>8, <1>9, <1>10, <2>2, <5>1
          <6> QED
            BY <5>1, <6>1 DEF Keeps
        <5>2. CASE s # h.s
          <6>1. holds'[s] = holds[s]
            BY <1>8, <1>9, <1>10, <2>2, <5>2
          <6> QED
            BY <5>2, <6>1 DEF Keeps
        <5> QED
          BY <5>1, <5>2
      <4> QED
        BY <4>1
    <3>2. PICK f : f = Keeps(d)'
      OBVIOUS
    <3>3. \A s \in Session : f[s] = IF s = pending[Head(q).r].s THEN "off" ELSE Keeps(d)[s]
      BY <1>5, <1>7, <3>1, <3>2
    <3>4. Head(q).m = "answer" /\ Head(q).o = "released" /\ pending[Head(q).r].outcome = "asked" /\ pending[Head(q).r].client = d
      BY <1>5, <1>7, <2>2
    <3> QED
      BY <1>4, <2>1, <3>2, <3>3, <3>4, AnsweredFrees
  <2>3. CASE ~(h.outcome = "asked" /\ h.client = d /\ x.o = "released")
    <3>1. holds' = holds
      BY <1>8, <2>3
    <3>2. Keeps(d)' = Keeps(d)
      BY <3>1, KeepsStays
    <3>3. Serves(d, report[d], sent[d], run[d], q, Keeps(d), conv[d], pending, report[d], Keeps(d), conv[d])
      BY <1>4, <1>5, <1>6, <2>1 DEF Serves
    <3>4. DeskBy(d, report[d], sent[d], run[d], Tail(q), Keeps(d), conv[d], pending)
      BY <3>3, ServesDesk
    <3> QED
      BY <3>2, <3>4
  <2> QED
    BY <2>2, <2>3
<1>14. ASSUME link[d] PROVE DeskBy(d, report[d], sent[d], run[d], Tail(q), Keeps(d)', conv[d], pending')
  <2>1. DeskBy(d, report[d], sent[d], run[d], Tail(q), Keeps(d)', conv[d], pending)
    BY <1>13, <1>14
  <2>2. Tail(q) \in Seq(Call)
    BY <1>4
  <2>3. AnswersBy(d, Tail(q), run[d], pending')
    BY <1>11, <2>1, <2>2, AnswersMild DEF DeskBy
  <2> QED
    BY <2>1, <2>3 DEF DeskBy
<1>15. link'[d] => DeskBy(d, report'[d], sent'[d], run'[d], Calls(d)', Keeps(d)', conv'[d], pending')
  BY <1>2, <1>3, <1>4, <1>14
<1>16. \A e \in Desktop \ {d} :
         link'[e] => /\ link[e] /\ report'[e] = report[e] /\ sent'[e] = sent[e] /\ run'[e] = run[e]
                     /\ up'[e] = up[e] /\ looking'[e] = looking[e] /\ conv'[e] = conv[e]
  BY <1>2, <1>3
<1>17. \A e \in Desktop \ {d}, s \in Session :
         holds'[s] = holds[s] \/ (holds[s].client # e /\ holds'[s].client # e)
  BY <1>9, <1>12, HoldsAssumption
<1>18. LinkedInv'
  BY <1>1, <1>11, <1>15, <1>16, <1>17, LinkedFrame
<1>19. WriterInv'
  <2>1. \A e \in Desktop, s \in Session : holds'[s].client = e => Writes(e, s)
    BY <1>9, <1>12, HoldsAssumption DEF Writes
  <2> QED
    BY <1>1, <1>2, <1>3, <1>11, <2>1, ServedWriter
<1>20. StoppedInv'
  BY <1>1, <1>2 DEF StoppedInv
<1> QED
  BY <1>18, <1>19, <1>20 DEF SayInv
--------------------------------------------------------------------------------
(* What breaks, and what comes back, keeps SayInv *)

\* Steps after which each desktop that is connected has said and told what it had.
LEMMA LinkedStays ==
  ASSUME TypesInv, LinkedInv, PendingMild,
         \A e \in Desktop : link'[e] =>
           /\ link[e] /\ report'[e] = report[e] /\ sent'[e] = sent[e] /\ run'[e] = run[e]
           /\ up'[e] = up[e] /\ looking'[e] = looking[e] /\ conv'[e] = conv[e]
           /\ \A s \in Session : holds'[s] = holds[s] \/ (holds[s].client # e /\ holds'[s].client # e)
  PROVE  LinkedInv'
<1>1. WindowTypes /\ BridgeTypes
  BY TypesAre
<1>2. ASSUME NEW e \in Desktop, link'[e]
      PROVE  DeskBy(e, report'[e], sent'[e], run'[e], Calls(e)', Keeps(e)', conv'[e], pending')
  <2>1. Calls(e)' = Calls(e) /\ Keeps(e)' = Keeps(e) /\ Calls(e) \in Seq(Call)
    BY <1>1, <1>2, CallsAre, KeepsStays
  <2>2. DeskBy(e, report[e], sent[e], run[e], Calls(e), Keeps(e), conv[e], pending)
    BY <1>2 DEF LinkedInv
  <2>3. AnswersBy(e, Calls(e), run[e], pending')
    BY <2>1, <2>2, AnswersMild DEF DeskBy
  <2> QED
    BY <1>2, <2>1, <2>2, <2>3 DEF DeskBy
<1> QED
  BY <1>2 DEF LinkedInv

\* What nobody waits for any more is about what it was.
LEMMA OrphanIs ==
  ASSUME NEW c \in Call, NEW o, o = [c EXCEPT !.by = <<"nobody">>]
  PROVE  /\ o.m = c.m /\ o.by = <<"nobody">>
         /\ c.m = "hold" => o.s = c.s
         /\ c.m = "answer" => o.r = c.r /\ o.o = c.o
<1>1. o.m = c.m /\ o.by = <<"nobody">>
  BY DEF Call, HoldCall
<1>2. ASSUME c.m = "hold" PROVE o.s = c.s
  <2>1. c \in HoldCall
    BY <1>2, CallIs
  <2> QED
    BY <2>1 DEF HoldCall
<1>3. ASSUME c.m = "answer" PROVE o.r = c.r /\ o.o = c.o
  <2>1. c \in [m : {"answer"}, r : Request, o : {"released", "busy"}, by : {<<"nobody">>}]
    BY <1>3 DEF Call, HoldCall
  <2> QED
    BY <2>1
<1> QED
  BY <1>1, <1>2, <1>3

\* q is what was under way, o what is left of it once nobody waits for it.
Orphans(q, o) ==
  /\ q \in Seq(Call) /\ o \in Seq(Call) /\ DOMAIN o = DOMAIN q
  /\ \A i \in DOMAIN q :
       /\ o[i].m = q[i].m /\ o[i].by = <<"nobody">>
       /\ q[i].m = "hold" => o[i].s = q[i].s
       /\ q[i].m = "answer" => o[i].r = q[i].r /\ o[i].o = q[i].o

\* The calls of a window that broke are those of before.
LEMMA OrphansAre ==
  ASSUME NEW l \in Seq(HoldCall), NEW u \in Seq(Call)
  PROVE  Orphans(l \o u, Orphaned(l) \o Orphaned(u))
<1>1. /\ Orphaned(l) \o Orphaned(u) \in Seq(Call) /\ l \o u \in Seq(Call)
      /\ DOMAIN (Orphaned(l) \o Orphaned(u)) = DOMAIN (l \o u)
      /\ \A i \in DOMAIN (l \o u) :
           (Orphaned(l) \o Orphaned(u))[i] = [(l \o u)[i] EXCEPT !.by = <<"nobody">>]
  BY OrphanedCalls
<1>2. PICK q \in Seq(Call), o \in Seq(Call) : q = l \o u /\ o = Orphaned(l) \o Orphaned(u)
  BY <1>1
<1>3. DOMAIN o = DOMAIN q /\ \A i \in DOMAIN q : o[i] = [q[i] EXCEPT !.by = <<"nobody">>]
  BY <1>1, <1>2
<1>4. ASSUME NEW i \in DOMAIN q
      PROVE  /\ o[i].m = q[i].m /\ o[i].by = <<"nobody">>
             /\ q[i].m = "hold" => o[i].s = q[i].s
             /\ q[i].m = "answer" => o[i].r = q[i].r /\ o[i].o = q[i].o
  <2>1. q[i] \in Call
    OBVIOUS
  <2>2. PICK c \in Call : c = q[i]
    BY <2>1
  <2>3. o[i] = [c EXCEPT !.by = <<"nobody">>]
    BY <1>3, <2>2
  <2> QED
    BY <2>2, <2>3, OrphanIs
<1> QED
  BY <1>2, <1>3, <1>4 DEF Orphans

\* They hold, and answer, what they did.
LEMMA OrphansSay ==
  ASSUME NEW q, NEW o, Orphans(q, o)
  PROVE  /\ \A s : HoldsIn(o, s) => HoldsIn(q, s)
         /\ \A i \in DOMAIN o : o[i].by # <<"converge">>
         /\ \A d, w : AnswersBy(d, q, w, pending) => AnswersBy(d, o, w, pending)
<1>1. ASSUME NEW i \in DOMAIN o
      PROVE  /\ i \in DOMAIN q /\ q[i] \in Call /\ o[i].m = q[i].m /\ o[i].by = <<"nobody">>
             /\ q[i].m = "hold" => o[i].s = q[i].s
             /\ q[i].m = "answer" => o[i].r = q[i].r /\ o[i].o = q[i].o
  BY DEF Orphans
<1>2. \A s : HoldsIn(o, s) => HoldsIn(q, s)
  BY <1>1 DEF HoldsIn
<1>3. \A i \in DOMAIN o : o[i].by # <<"converge">>
  BY <1>1
<1>4. ASSUME NEW d, NEW w, AnswersBy(d, q, w, pending)
      PROVE  AnswersBy(d, o, w, pending)
  <2>1. ASSUME NEW i \in DOMAIN o, o[i].m = "answer"
        PROVE  LET h == pending[o[i].r]
               IN /\ h.outcome # "none"
                  /\ o[i].o = "released" /\ h.outcome = "asked" /\ h.client = d =>
                       \/ w[h.s] = "off"
                       \/ \E j \in DOMAIN o : j > i /\ o[j].m = "hold" /\ o[j].s = h.s
    <3>1. PICK h : h = pending[o[i].r]
      OBVIOUS
    <3>2. i \in DOMAIN q /\ q[i].m = "answer" /\ o[i].r = q[i].r /\ o[i].o = q[i].o
      BY <1>1, <2>1
    <3>3. /\ h.outcome # "none"
          /\ q[i].o = "released" /\ h.outcome = "asked" /\ h.client = d =>
               \/ w[h.s] = "off"
               \/ \E j \in DOMAIN q : j > i /\ q[j].m = "hold" /\ q[j].s = h.s
      BY <1>4, <3>1, <3>2 DEF AnswersBy
    <3>4. \A j \in DOMAIN q : q[j].m = "hold" => j \in DOMAIN o /\ o[j].m = "hold" /\ o[j].s = q[j].s
      BY DEF Orphans
    <3> QED
      BY <3>1, <3>2, <3>3, <3>4
  <2> QED
    BY <2>1 DEF AnswersBy
<1> QED
  BY <1>2, <1>3, <1>4

\* A disconnect is noticed.
LEMMA NoticedSays ==
  ASSUME TypesInv, SayInv, NEW d \in Desktop, Noticed(d)
  PROVE  SayInv'
<1>1. WindowTypes /\ BridgeTypes /\ LetGoInv /\ LinkedInv /\ StoppedInv /\ WriterInv
  BY TypesAre DEF SayInv
<1>2. /\ ~link[d] /\ holds' = FreedAll(d) /\ pending' = Unreached(d) /\ up' = [up EXCEPT ![d] = <<>>]
      /\ UNCHANGED <<looking, link, run, sent, report, conv, letgo>>
  BY DEF Noticed, window
<1>3. \A e \in Desktop \ {d}, s \in Session :
        holds'[s] = holds[s] \/ (holds[s].client # e /\ holds'[s].client # e)
  BY <1>2, HoldsAssumption DEF FreedAll, Free
<1>4. /\ \A r \in Request : pending'[r].outcome = "asked" => pending'[r] = pending[r]
      /\ PendingMild
  <2>1. \A r \in Request : pending'[r] = pending[r]
          \/ (pending'[r] = [pending[r] EXCEPT !.outcome = "unreachable"] /\ pending'[r].outcome = "unreachable" /\ pending'[r].s = pending[r].s)
    BY <1>1, <1>2 DEF Unreached, BridgeTypes
  <2> QED
    BY <2>1 DEF PendingMild
<1>5. LinkedInv'
  BY <1>1, <1>2, <1>3, <1>4, LinkedStays DEF WindowTypes
<1>6. ASSUME NEW e \in Desktop, NEW s \in Session, Writes(e, s)' PROVE Writes(e, s)
  <2>1. holds'[s].client = e => holds[s].client = e
    BY <1>2, HoldsAssumption DEF FreedAll, Free
  <2>2. HoldsIn(Calls(e)', s) => HoldsIn(Calls(e), s)
    <3>1. CASE e = d
      <4>1. looking[d] \in Seq(HoldCall) /\ up[d] \in Seq(Call)
        BY <1>1 DEF WindowTypes, BridgeTypes
      <4>2. PICK l \in Seq(Call), u \in Seq(Call) : l = looking[d] /\ u = up[d]
        BY <4>1, HoldIsCall
      <4>3. Calls(d)' = l \o <<>>
        BY <1>1, <1>2, <4>2 DEF Calls, WindowTypes
      <4>4. l \o <<>> = l
        OBVIOUS
      <4>5. ASSUME NEW i \in DOMAIN l PROVE i \in DOMAIN (l \o u) /\ (l \o u)[i] = l[i]
        OBVIOUS
      <4>6. HoldsIn(l, s) => HoldsIn(l \o u, s)
        BY <4>5 DEF HoldsIn
      <4>7. Calls(d) = l \o u /\ Calls(d)' = l
        BY <4>2, <4>3, <4>4 DEF Calls
      <4> QED
        BY <3>1, <4>6, <4>7
    <3>2. CASE e # d
      BY <1>1, <1>2, <3>2 DEF Calls, WindowTypes
    <3> QED
      BY <3>1, <3>2
  <2>3. run'[e][s] # "off" \/ holds'[s].client = e \/ HoldsIn(Calls(e)', s)
    BY <1>6 DEF Writes, HoldsIn
  <2> QED
    BY <1>2, <2>1, <2>2, <2>3 DEF Writes
<1>7. WriterInv'
  BY <1>1, <1>4, <1>6, WriterFrame
<1>8. StoppedInv'
  BY <1>1, <1>2 DEF StoppedInv
<1> QED
  BY <1>5, <1>7, <1>8 DEF SayInv

\* Every step of the bridge about a desktop keeps SayInv.
LEMMA BridgeSays ==
  ASSUME TypesInv, SayInv, Closed, NEW d \in Desktop, BridgeNext(d)
  PROVE  SayInv'
BY HoldCalledSays, HeldSays, ReleasedSays, ListedSays, AnsweredSays, NoticedSays DEF BridgeNext

\* A request is opened of who writes the session, so of nobody else.
LEMMA RequestSays ==
  ASSUME TypesInv, SayInv, NEW r \in Request, NEW s \in Session, RequestHandoff(r, s)
  PROVE  SayInv'
<1>1. WindowTypes /\ BridgeTypes /\ LetGoInv /\ LinkedInv /\ StoppedInv /\ WriterInv
  BY TypesAre DEF SayInv
<1>2. PICK h : h = holds[s]
  OBVIOUS
<1>3. PICK x : x = [s |-> s, client |-> h.client, outcome |-> Asked(h)]
  OBVIOUS
<1>4. /\ pending[r] = Unasked /\ pending' = [pending EXCEPT ![r] = x]
      /\ UNCHANGED <<holds, looking, up, link, run, sent, report, conv, letgo>>
  BY <1>2, <1>3 DEF RequestHandoff, window
<1>5. x.s = s /\ x.client = h.client /\ x.outcome = Asked(h)
  BY <1>3
<1>6. pending'[r] = x /\ \A u \in Request \ {r} : pending'[u] = pending[u]
  BY <1>1, <1>4 DEF BridgeTypes
<1>7. PendingMild
  <2>1. pending[r].outcome = "none"
    BY <1>4 DEF Unasked
  <2> QED
    BY <1>6, <2>1 DEF PendingMild
<1>8. LinkedInv'
  BY <1>1, <1>4, <1>7, LinkedStays
<1>9. \A e \in Desktop, u \in Session : Writes(e, u)' <=> Writes(e, u)
  BY <1>4 DEF Writes, Calls, HoldsIn
<1>10. WriterInv'
  <2>1. ASSUME NEW v \in Request, NEW u \in Session, pending'[v].outcome = "asked", pending'[v].s = u,
               NEW e \in Desktop \ {pending'[v].client}
        PROVE  ~Writes(e, u)'
    <3>1. CASE v # r
      BY <1>1, <1>6, <1>9, <2>1, <3>1 DEF WriterInv
    <3>2. CASE v = r
      <4>1. Asked(h) = "asked" /\ u = s /\ e # h.client
        BY <1>5, <1>6, <2>1, <3>2
      <4>2. h # Free
        BY <4>1 DEF Asked
      <4>3. h.client \in Desktop
        BY <1>1, <1>2, <4>2 DEF BridgeTypes
      <4>4. Writes(h.client, s)
        BY <1>2 DEF Writes
      <4> QED
        BY <1>1, <1>9, <4>1, <4>3, <4>4 DEF WriterInv
    <3> QED
      BY <3>1, <3>2
  <2>2. \A e, f \in Desktop, u \in Session : Writes(e, u)' /\ Writes(f, u)' => e = f
    BY <1>1, <1>9 DEF WriterInv
  <2> QED
    BY <2>1, <2>2 DEF WriterInv
<1>11. StoppedInv'
  BY <1>1, <1>4 DEF StoppedInv
<1> QED
  BY <1>8, <1>10, <1>11 DEF SayInv

\* A request times out.
LEMMA TimesOutSays ==
  ASSUME TypesInv, SayInv, NEW r \in Request, TimesOut(r)
  PROVE  SayInv'
<1>1. WindowTypes /\ BridgeTypes /\ LetGoInv /\ LinkedInv /\ StoppedInv /\ WriterInv
  BY TypesAre DEF SayInv
<1>2. /\ pending[r].outcome = "asked" /\ Settle(r, "unreachable")
      /\ UNCHANGED <<holds, looking, up, link, run, sent, report, conv, letgo>>
  BY DEF TimesOut, window
<1>3. /\ \A u \in Request : pending'[u].outcome = "asked" => pending'[u] = pending[u]
      /\ \A u \in Request :
           \/ pending'[u] = pending[u]
           \/ /\ pending[u].outcome # "none" /\ pending'[u].outcome # "none"
              /\ pending'[u].s = pending[u].s /\ pending'[u].client = pending[u].client
  BY <1>1, <1>2, SettleTypes DEF Outcome
<1>4. PendingMild
  BY <1>3 DEF PendingMild
<1>5. LinkedInv'
  BY <1>1, <1>2, <1>4, LinkedStays
<1>6. \A e \in Desktop, u \in Session : Writes(e, u)' => Writes(e, u)
  BY <1>2 DEF Writes, Calls, HoldsIn
<1>7. WriterInv'
  BY <1>1, <1>3, <1>6, WriterFrame
<1>8. StoppedInv'
  BY <1>1, <1>2 DEF StoppedInv
<1> QED
  BY <1>5, <1>7, <1>8 DEF SayInv

\* After a step that breaks something a desktop writes only what it wrote.
LEMMA BrokenWriter ==
  ASSUME WindowTypes, BridgeTypes, WriterInv, PendingMild,
         \A e \in Desktop, s \in Session : run'[e][s] # "off" => run[e][s] # "off",
         \A e \in Desktop, s \in Session : holds'[s].client = e => holds[s].client = e,
         \A e \in Desktop : \/ looking'[e] = looking[e] /\ up'[e] = up[e]
                            \/ looking'[e] = <<>> /\ up'[e] = <<>>
                            \/ looking'[e] = Orphaned(looking[e]) /\ up'[e] = Orphaned(up[e]),
         \A r \in Request : pending'[r].outcome = "asked" => pending[r].outcome # "none"
  PROVE  WriterInv'
<1>1. ASSUME NEW e \in Desktop, NEW s \in Session, Writes(e, s)' PROVE Writes(e, s)
  <2>1. looking[e] \in Seq(HoldCall) /\ up[e] \in Seq(Call)
    BY DEF WindowTypes, BridgeTypes
  <2>2. HoldsIn(Calls(e)', s) => HoldsIn(Calls(e), s)
    <3>1. CASE looking'[e] = looking[e] /\ up'[e] = up[e]
      BY <3>1 DEF Calls
    <3>2. CASE looking'[e] = <<>> /\ up'[e] = <<>>
      <4>1. Calls(e)' = <<>>
        BY <3>2 DEF Calls
      <4>2. ~HoldsIn(<<>>, s)
        BY DEF HoldsIn
      <4> QED
        BY <4>1, <4>2
    <3>3. CASE looking'[e] = Orphaned(looking[e]) /\ up'[e] = Orphaned(up[e])
      <4>1. Orphans(Calls(e), Calls(e)')
        BY <2>1, <3>3, OrphansAre DEF Calls
      <4> QED
        BY <4>1, OrphansSay
    <3> QED
      BY <3>1, <3>2, <3>3
  <2>3. run'[e][s] # "off" \/ holds'[s].client = e \/ HoldsIn(Calls(e)', s)
    BY <1>1 DEF Writes, HoldsIn
  <2> QED
    BY <2>2, <2>3 DEF Writes
<1>2. \A r \in Request : pending'[r].outcome = "asked" => pending'[r] = pending[r]
  BY DEF PendingMild
<1> QED
  BY <1>1, <1>2, WriterFrame

\* A connection drops, or the app ends.
LEMMA DropSays ==
  ASSUME TypesInv, SayInv, NEW d \in Desktop, Drop(d) \/ Quit(d)
  PROVE  SayInv'
<1>1. WindowTypes /\ BridgeTypes /\ LetGoInv /\ LinkedInv /\ StoppedInv /\ WriterInv
  BY TypesAre DEF SayInv
<1>2. /\ link' = [link EXCEPT ![d] = FALSE] /\ Fails({d})
      /\ up' = [up EXCEPT ![d] = Orphaned(@)] /\ looking' = [looking EXCEPT ![d] = Orphaned(@)]
      /\ UNCHANGED <<holds, pending>>
      /\ \/ /\ run' = run
            /\ letgo' = [letgo EXCEPT ![d] = [r \in Reason |-> IF @[r].step = "stopping" THEN @[r] ELSE NotLettingGo]]
         \/ /\ run' = [run EXCEPT ![d] = AllOff]
            /\ letgo' = [letgo EXCEPT ![d] = [r \in Reason |-> NotLettingGo]]
  BY DEF Drop, Quit
<1>3. PendingMild
  BY <1>2 DEF PendingMild
<1>4. ASSUME NEW e \in Desktop \ {d}
      PROVE  /\ report'[e] = report[e] /\ sent'[e] = sent[e] /\ conv'[e] = conv[e]
             /\ run'[e] = run[e] /\ up'[e] = up[e] /\ looking'[e] = looking[e]
             /\ letgo'[e] = letgo[e] /\ link'[e] = link[e]
  <2>1. report'[e] = report[e] /\ sent'[e] = sent[e] /\ conv'[e] = conv[e]
    BY <1>2 DEF Fails
  <2>2. run'[e] = run[e] /\ letgo'[e] = letgo[e]
    BY <1>1, <1>2 DEF WindowTypes
  <2>3. up'[e] = up[e] /\ looking'[e] = looking[e] /\ link'[e] = link[e]
    BY <1>1, <1>2 DEF WindowTypes, BridgeTypes
  <2> QED
    BY <2>1, <2>2, <2>3
<1>5. /\ ~link'[d] /\ up'[d] = Orphaned(up[d]) /\ looking'[d] = Orphaned(looking[d])
      /\ run'[d] \in {run[d], AllOff}
  BY <1>1, <1>2 DEF WindowTypes, BridgeTypes
<1>6. LinkedInv'
  <2>1. \A e \in Desktop : link'[e] => e # d
    BY <1>5
  <2> QED
    BY <1>1, <1>2, <1>3, <1>4, <2>1, LinkedStays
<1>7. WriterInv'
  <2>1. \A e \in Desktop, s \in Session : run'[e][s] # "off" => run[e][s] # "off"
    BY <1>4, <1>5 DEF AllOff
  <2>2. \A e \in Desktop : \/ looking'[e] = looking[e] /\ up'[e] = up[e]
                           \/ looking'[e] = Orphaned(looking[e]) /\ up'[e] = Orphaned(up[e])
    BY <1>4, <1>5
  <2> QED
    BY <1>1, <1>2, <1>3, <2>1, <2>2, BrokenWriter
<1>8. StoppedInv'
  <2>1. \A r \in Reason : letgo'[d][r].step \notin {"waits", "goes"}
    <3>1. NotLettingGo.step = "no"
      BY DEF NotLettingGo
    <3>2. letgo \in [Desktop -> [Reason -> LetGoType]]
      BY <1>1 DEF WindowTypes
    <3>3. \A r \in Reason : letgo'[d][r] = NotLettingGo \/ (letgo[d][r].step = "stopping" /\ letgo'[d][r] = letgo[d][r])
      BY <1>2, <3>2
    <3> QED
      BY <3>1, <3>3
  <2>2. \A e \in Desktop \ {d}, r \in Reason :
          letgo'[e][r].step \in {"waits", "goes"} => run'[e][letgo'[e][r].s] = "off"
    BY <1>1, <1>4 DEF StoppedInv
  <2> QED
    BY <2>1, <2>2 DEF StoppedInv
<1> QED
  BY <1>6, <1>7, <1>8 DEF SayInv

\* The bridge restarts.
LEMMA RestartSays ==
  ASSUME TypesInv, SayInv, BridgeRestart
  PROVE  SayInv'
<1>1. WindowTypes /\ BridgeTypes /\ LetGoInv /\ LinkedInv /\ StoppedInv /\ WriterInv
  BY TypesAre DEF SayInv
<1>2. /\ holds' = [s \in Session |-> Free]
      /\ pending' = [r \in Request |-> IF pending[r].outcome = "asked"
                                       THEN [pending[r] EXCEPT !.outcome = "lost"] ELSE pending[r]]
      /\ looking' = [d \in Desktop |-> <<>>] /\ up' = [d \in Desktop |-> <<>>]
      /\ link' = [d \in Desktop |-> FALSE]
      /\ letgo' = [d \in Desktop |-> [r \in Reason |->
                     IF letgo[d][r].step = "stopping" THEN letgo[d][r] ELSE NotLettingGo]]
      /\ run' = run
  BY DEF BridgeRestart
<1>3. PendingMild
  <2>1. \A r \in Request :
          \/ pending'[r] = pending[r]
          \/ pending'[r].outcome = "lost" /\ pending'[r].s = pending[r].s
    BY <1>1, <1>2 DEF BridgeTypes
  <2> QED
    BY <2>1 DEF PendingMild
<1>4. LinkedInv'
  BY <1>2 DEF LinkedInv
<1>5. WriterInv'
  <2>1. \A r \in Request : pending'[r].outcome # "asked"
    <3>1. \A r \in Request : (pending'[r] = pending[r] /\ pending[r].outcome # "asked") \/ pending'[r].outcome = "lost"
      BY <1>1, <1>2 DEF BridgeTypes
    <3> QED
      BY <3>1
  <2>2. \A e \in Desktop, s \in Session : holds'[s].client # e
    BY <1>2, HoldsAssumption DEF Free
  <2>3. \A e \in Desktop : looking'[e] = <<>> /\ up'[e] = <<>>
    BY <1>2
  <2> QED
    BY <1>1, <1>2, <1>3, <2>1, <2>2, <2>3, BrokenWriter
<1>6. StoppedInv'
  <2>1. NotLettingGo.step = "no"
    BY DEF NotLettingGo
  <2>2. \A d \in Desktop, r \in Reason :
          letgo'[d][r] = NotLettingGo \/ (letgo[d][r].step = "stopping" /\ letgo'[d][r] = letgo[d][r])
    BY <1>2
  <2> QED
    BY <2>1, <2>2 DEF StoppedInv
<1> QED
  BY <1>4, <1>5, <1>6 DEF SayInv

\* What a window says first, of what its tabs w run since they ran v, with calls l
\* and u of before under way: then it has P, said t and has calls q under way.
SaidAll(d, w, l, u, P, t, q, c) ==
  /\ report' = [report EXCEPT ![d] = P] /\ sent' = [sent EXCEPT ![d] = t]
  /\ up' = [up EXCEPT ![d] = q] /\ conv' = [conv EXCEPT ![d] = c]
  /\ DeskBy(d, P, t, w, l \o q, Keeps(d), c, pending)
  /\ \A s \in Session : HoldsIn(l \o q, s) => HoldsIn(l \o u, s) \/ w[s] # "off"

\* It says all its tabs run, and asks what else the bridge keeps.
LEMMA SaysAllDesk ==
  ASSUME TypesInv, NEW d \in Desktop, NEW w \in [Session -> Activity], NEW v,
         NEW l \in Seq(HoldCall), NEW u \in Seq(Call), SaysAll(d, w, u),
         \A i \in DOMAIN (l \o u) : (l \o u)[i].by # <<"converge">>,
         AnswersBy(d, l \o u, v, pending), \A s \in Session : v[s] = "off" => w[s] = "off"
  PROVE  \E P : \E t : \E q : \E c : SaidAll(d, w, l, u, P, t, q, c)
<1>1. PICK c : c = [step |-> "asked", left |-> {}] /\ c.step = "asked" /\ c.left = {}
  <2>1. [step |-> "asked", left |-> {}].step = "asked" /\ [step |-> "asked", left |-> {}].left = {}
    OBVIOUS
  <2> QED
    BY <2>1
<1>2. PICK P0 \in [Slot -> Report] : P0 = [k \in Slot |-> NoReport]
  BY AllOffIs
<1>3. PICK x \in Call : x = List(<<"converge">>) /\ x.m = "holds" /\ x.by = <<"converge">>
  <2>1. List(<<"converge">>) \in Call /\ List(<<"converge">>).m = "holds" /\ List(<<"converge">>).by = <<"converge">>
    BY DEF List, Call, By
  <2> QED
    BY <2>1
<1>4. Reports(d, w, AllOff, P0, u, <<x>>) /\ conv' = [conv EXCEPT ![d] = c]
  BY <1>1, <1>2, <1>3 DEF SaysAll
<1>5. PICK k \in Slot : \E g : Begins(d, w, AllOff, P0, u, <<x>>, k, g)
  BY <1>4, ReportsAre
<1>6. PICK g : Begins(d, w, AllOff, P0, u, <<x>>, k, g)
  BY <1>5
<1>7. PICK q \in Seq(Call) : q = l \o u /\ \A y \in Call : l \o Append(u, y) = Append(q, y)
  BY SaidLast
<1>8. \A i \in DOMAIN q : q[i].by # <<"converge">>
  BY <1>7
<1>9. SaidBy(q, Keeps(d), AllOff, w, c)
  <2>1. \A s \in Session : ListsYet(q, c, s)
    BY <1>1, <1>8 DEF ListsYet
  <2>2. \A s \in Session : AllOff[s] = "off"
    BY DEF AllOff
  <2> QED
    BY <2>1, <2>2 DEF SaidBy
<1>10. ConvBy(q, c)
  BY <1>8 DEF ConvBy
<1>11. WantedBy(P0, w)
  <2>1. \A s \in Session : ~Stale(NoReport, s)
    BY DEF Stale, NoReport
  <2> QED
    BY <1>2, <2>1 DEF WantedBy
<1>12. \A r \in Request : pending[r].outcome # "none" => pending[r].s \in Session
  BY TypesAre DEF LetGoInv
<1>13. BeginsFrom(d, l, u, Keeps(d), c, AllOff, w, v, P0, k, g)
  BY <1>2, <1>6, <1>7, <1>9, <1>10, <1>11, <1>12, AllOffIs DEF BeginsFrom
<1>14. /\ GoesTo(d, l, u, Keeps(d), c, pending, w, P0, k, g)
       /\ SaysOne(g, <<"report", k>>) /\ <<"report", k>> \in HoldBy
  BY <1>13, BeginsDesk
<1>15. PICK u2 : u2 = u \o g.calls
  OBVIOUS
<1>16. u2 \in Seq(Call) /\ \A i \in DOMAIN (l \o u2) : (l \o u2)[i].by # <<"converge">>
  <2>1. CASE g.calls = <<>>
    <3>1. u2 = u
      BY <1>15, <2>1, OneMore
    <3> QED
      BY <1>7, <1>8, <3>1
  <2>2. CASE g.calls # <<>>
    <3>1. PICK y \in Call : g.calls = <<y>> /\ y.by = <<"report", k>>
      BY <1>14, <2>2 DEF SaysOne
    <3>2. u2 = Append(u, y) /\ u2 \in Seq(Call)
      BY <1>15, <3>1, OneMore
    <3>3. l \o u2 = Append(q, y)
      BY <1>7, <3>2
    <3>4. y.by # <<"converge">>
      BY <1>14, <3>1, HoldByIs
    <3>5. \A i \in DOMAIN Append(q, y) : Append(q, y)[i].by # <<"converge">>
      <4>1. PICK n, z : n = Len(q) /\ z = Append(q, y)
        OBVIOUS
      <4>2. /\ DOMAIN z = 1 .. n + 1 /\ DOMAIN q = 1 .. n /\ n \in Nat
            /\ \A i \in 1 .. n : z[i] = q[i]
            /\ z[n + 1] = y
        BY <4>1, AppendIs
      <4>3. \A i \in DOMAIN z : z[i] = y \/ (i \in DOMAIN q /\ z[i] = q[i])
        BY <4>2
      <4>4. \A i \in DOMAIN z : z[i].by # <<"converge">>
        BY <1>8, <3>4, <4>3
      <4> QED
        BY <4>1, <4>4
    <3> QED
      BY <3>2, <3>3, <3>5
  <2> QED
    BY <2>1, <2>2
<1>17. PICK q2 \in Seq(Call) : q2 = l \o u2 /\ \A y \in Call : l \o Append(u2, y) = Append(q2, y)
  BY <1>16, SaidLast
<1>18. \A i \in DOMAIN q2 : q2[i].by # <<"converge">>
  BY <1>16, <1>17
<1>19. PICK P : P = [P0 EXCEPT ![k] = g.p]
  OBVIOUS
<1>20. /\ DeskBy(d, P, g.sent, w, q2, Keeps(d), c, pending)
       /\ \A s \in Session : HoldsIn(q2, s) => HoldsIn(q, s) \/ w[s] # "off"
  BY <1>7, <1>14, <1>15, <1>17, <1>19 DEF GoesTo
<1>21. DeskBy(d, P, g.sent, w, Append(q2, x), Keeps(d), c, pending)
  <2>1. \A s \in Session : ~About(x, s)
    BY <1>3 DEF About
  <2>2. SaidBy(Append(q2, x), Keeps(d), g.sent, w, c)
    BY <1>20, <2>1, SaidMore DEF DeskBy
  <2>3. ConvBy(q2, c)
    BY <1>20 DEF DeskBy
  <2>4. ConvBy(Append(q2, x), c)
    BY <1>1, <1>3, <1>18, <2>3, ConvAppend
  <2>5. AnswersBy(d, q2, w, pending)
    BY <1>20 DEF DeskBy
  <2>6. x.m # "answer"
    BY <1>3
  <2>7. AnswersBy(d, Append(q2, x), w, pending)
    BY <1>12, <2>5, <2>6, AnswersAppend
  <2> QED
    BY <1>20, <2>2, <2>4, <2>7 DEF DeskBy
<1>22. \A s \in Session : HoldsIn(Append(q2, x), s) => HoldsIn(q2, s)
  <2>1. x.m # "hold"
    BY <1>3
  <2> QED
    BY <2>1, HoldsInIs
<1>23. u2 \o <<x>> = Append(u2, x)
  <2>1. <<x>> = <<>> \/ \E y \in Call : <<x>> = <<y>>
    BY <1>3
  <2> QED
    BY <1>16, <2>1, OneMore
<1>24. SaidAll(d, w, l, u, P, g.sent, Append(u2, x), c)
  <2>1. /\ report' = [report EXCEPT ![d] = P] /\ sent' = [sent EXCEPT ![d] = g.sent]
        /\ up' = [up EXCEPT ![d] = Append(u2, x)] /\ conv' = [conv EXCEPT ![d] = c]
    BY <1>4, <1>6, <1>15, <1>19, <1>23 DEF Begins
  <2>2. l \o Append(u2, x) = Append(q2, x)
    BY <1>17
  <2> QED
    BY <1>7, <1>20, <1>21, <1>22, <2>1, <2>2 DEF SaidAll
<1> QED
  BY <1>24

\* A window is loaded again.
LEMMA ReloadSays ==
  ASSUME TypesInv, SayInv, NEW d \in Desktop, Reload(d)
  PROVE  SayInv'
<1>1. WindowTypes /\ BridgeTypes /\ LetGoInv /\ LinkedInv /\ StoppedInv /\ WriterInv
  BY TypesAre DEF SayInv
<1>2. /\ run[d] \in [Session -> Activity] /\ up[d] \in Seq(Call) /\ looking[d] \in Seq(HoldCall)
      /\ letgo \in [Desktop -> [Reason -> LetGoType]]
  BY <1>1 DEF WindowTypes, BridgeTypes
<1>3. PICK shown \in SUBSET Session :
        run' = [run EXCEPT ![d] = [s \in Session |-> IF s \in shown THEN @[s] ELSE "off"]]
  BY DEF Reload
<1>4. PICK w \in [Session -> Activity] : w = [s \in Session |-> IF s \in shown THEN run[d][s] ELSE "off"]
  BY <1>2 DEF Activity
<1>5. /\ run' = [run EXCEPT ![d] = w] /\ run'[d] = w
      /\ \A s \in Session : w[s] # "off" => run[d][s] # "off"
      /\ \A s \in Session : run[d][s] = "off" => w[s] = "off"
  BY <1>1, <1>3, <1>4 DEF WindowTypes
<1>6. PICK l \in Seq(HoldCall), u \in Seq(Call) : l = Orphaned(looking[d]) /\ u = Orphaned(up[d])
  BY <1>2, OrphanedIs
<1>7. /\ link[d] /\ SaysAll(d, w, u) /\ looking' = [looking EXCEPT ![d] = l]
      /\ letgo' = [letgo EXCEPT ![d] = [r \in Reason |-> NotLettingGo]]
      /\ UNCHANGED <<holds, pending, link>>
  BY <1>5, <1>6 DEF Reload
<1>8. Orphans(Calls(d), l \o u)
  BY <1>2, <1>6, OrphansAre DEF Calls
<1>9. /\ \A s : HoldsIn(l \o u, s) => HoldsIn(Calls(d), s)
      /\ \A i \in DOMAIN (l \o u) : (l \o u)[i].by # <<"converge">>
      /\ AnswersBy(d, l \o u, run[d], pending)
  <2>1. AnswersBy(d, Calls(d), run[d], pending)
    BY <1>1, <1>7 DEF LinkedInv, DeskBy
  <2> QED
    BY <1>8, <2>1, OrphansSay
<1>10. \E P : \E t : \E q : \E c : SaidAll(d, w, l, u, P, t, q, c)
  BY <1>5, <1>7, <1>9, SaysAllDesk
<1>11. PICK P : \E t : \E q : \E c : SaidAll(d, w, l, u, P, t, q, c)
  BY <1>10
<1>12. PICK t : \E q : \E c : SaidAll(d, w, l, u, P, t, q, c)
  BY <1>11
<1>13. PICK q : \E c : SaidAll(d, w, l, u, P, t, q, c)
  BY <1>12
<1>14. PICK c : SaidAll(d, w, l, u, P, t, q, c)
  BY <1>13
<1>15. /\ report' = [report EXCEPT ![d] = P] /\ sent' = [sent EXCEPT ![d] = t]
       /\ up' = [up EXCEPT ![d] = q] /\ conv' = [conv EXCEPT ![d] = c]
       /\ DeskBy(d, P, t, w, l \o q, Keeps(d), c, pending)
       /\ \A s \in Session : HoldsIn(l \o q, s) => HoldsIn(l \o u, s) \/ w[s] # "off"
  BY <1>14 DEF SaidAll
<1>16. /\ report'[d] = P /\ sent'[d] = t /\ up'[d] = q /\ conv'[d] = c /\ looking'[d] = l
  BY <1>1, <1>7, <1>15 DEF WindowTypes, BridgeTypes
<1>17. \A e \in Desktop \ {d} :
         /\ report'[e] = report[e] /\ sent'[e] = sent[e] /\ run'[e] = run[e]
         /\ up'[e] = up[e] /\ looking'[e] = looking[e] /\ conv'[e] = conv[e] /\ letgo'[e] = letgo[e]
  BY <1>1, <1>5, <1>7, <1>15 DEF WindowTypes, BridgeTypes
<1>18. Calls(d)' = l \o q
  BY <1>16 DEF Calls
<1>19. Keeps(d)' = Keeps(d)
  BY <1>7, KeepsStays
<1>20. link'[d] => DeskBy(d, report'[d], sent'[d], run'[d], Calls(d)', Keeps(d)', conv'[d], pending')
  BY <1>5, <1>7, <1>15, <1>16, <1>18, <1>19
<1>21. PendingMild
  BY <1>7 DEF PendingMild
<1>22. LinkedInv'
  BY <1>1, <1>7, <1>17, <1>20, <1>21, LinkedFrame
<1>23. ASSUME NEW e \in Desktop, NEW s \in Session, Writes(e, s)' PROVE Writes(e, s)
  <2>1. run'[e][s] # "off" \/ holds[s].client = e \/ HoldsIn(Calls(e)', s)
    BY <1>7, <1>23 DEF Writes, HoldsIn
  <2>2. CASE e = d
    <3>1. HoldsIn(l \o q, s) => HoldsIn(Calls(d), s) \/ run[d][s] # "off"
      BY <1>5, <1>9, <1>15
    <3> QED
      BY <1>5, <1>18, <2>1, <2>2, <3>1 DEF Writes
  <2>3. CASE e # d
    <3>1. Calls(e)' = Calls(e) /\ run'[e] = run[e]
      BY <1>17, <2>3 DEF Calls
    <3> QED
      BY <2>1, <3>1 DEF Writes
  <2> QED
    BY <2>2, <2>3
<1>24. WriterInv'
  BY <1>1, <1>7, <1>23, WriterFrame
<1>25. StoppedInv'
  <2>1. \A r \in Reason : letgo'[d][r].step = "no"
    BY <1>2, <1>7 DEF NotLettingGo
  <2>2. \A e \in Desktop \ {d}, r \in Reason :
          letgo'[e][r].step \in {"waits", "goes"} => run'[e][letgo'[e][r].s] = "off"
    BY <1>1, <1>17 DEF StoppedInv
  <2> QED
    BY <2>1, <2>2 DEF StoppedInv
<1> QED
  BY <1>22, <1>24, <1>25 DEF SayInv

\* A desktop connects.
LEMMA ConnectSays ==
  ASSUME TypesInv, SayInv, Closed, NEW d \in Desktop, Connect(d)
  PROVE  SayInv'
<1>1. WindowTypes /\ BridgeTypes /\ LetGoInv /\ LinkedInv /\ StoppedInv /\ WriterInv
  BY TypesAre DEF SayInv
<1>2. PICK w \in [Session -> Activity] : w = run[d]
  BY <1>1 DEF WindowTypes
<1>3. /\ looking[d] = <<>> /\ link' = [link EXCEPT ![d] = TRUE] /\ SaysAll(d, w, <<>>)
      /\ UNCHANGED <<holds, pending, looking, run, letgo>>
  BY <1>2 DEF Connect, Closed, Open
<1>4. PICK l \in Seq(HoldCall), u \in Seq(Call) : l = <<>> /\ u = <<>> /\ l \o u = <<>>
  <2>1. <<>> \in Seq(HoldCall) /\ <<>> \in Seq(Call) /\ <<>> \o <<>> = <<>>
    OBVIOUS
  <2> QED
    BY <2>1
<1>5. /\ \A s : ~HoldsIn(l \o u, s)
      /\ \A i \in DOMAIN (l \o u) : (l \o u)[i].by # <<"converge">>
      /\ AnswersBy(d, l \o u, w, pending)
  BY <1>4 DEF HoldsIn, AnswersBy
<1>6. \E P : \E t : \E q : \E c : SaidAll(d, w, l, u, P, t, q, c)
  BY <1>3, <1>4, <1>5, SaysAllDesk
<1>7. PICK P : \E t : \E q : \E c : SaidAll(d, w, l, u, P, t, q, c)
  BY <1>6
<1>8. PICK t : \E q : \E c : SaidAll(d, w, l, u, P, t, q, c)
  BY <1>7
<1>9. PICK q : \E c : SaidAll(d, w, l, u, P, t, q, c)
  BY <1>8
<1>10. PICK c : SaidAll(d, w, l, u, P, t, q, c)
  BY <1>9
<1>11. /\ report' = [report EXCEPT ![d] = P] /\ sent' = [sent EXCEPT ![d] = t]
       /\ up' = [up EXCEPT ![d] = q] /\ conv' = [conv EXCEPT ![d] = c]
       /\ DeskBy(d, P, t, w, l \o q, Keeps(d), c, pending)
       /\ \A s \in Session : HoldsIn(l \o q, s) => HoldsIn(l \o u, s) \/ w[s] # "off"
  BY <1>10 DEF SaidAll
<1>12. report'[d] = P /\ sent'[d] = t /\ up'[d] = q /\ conv'[d] = c /\ looking'[d] = l /\ run'[d] = w
  BY <1>1, <1>2, <1>3, <1>4, <1>11 DEF WindowTypes, BridgeTypes
<1>13. \A e \in Desktop \ {d} :
         /\ report'[e] = report[e] /\ sent'[e] = sent[e] /\ run'[e] = run[e] /\ link'[e] = link[e]
         /\ up'[e] = up[e] /\ looking'[e] = looking[e] /\ conv'[e] = conv[e]
  BY <1>1, <1>3, <1>11 DEF WindowTypes, BridgeTypes
<1>14. Calls(d)' = l \o q
  BY <1>12 DEF Calls
<1>15. Keeps(d)' = Keeps(d)
  BY <1>3, KeepsStays
<1>16. link'[d] => DeskBy(d, report'[d], sent'[d], run'[d], Calls(d)', Keeps(d)', conv'[d], pending')
  BY <1>3, <1>11, <1>12, <1>14, <1>15
<1>17. PendingMild
  BY <1>3 DEF PendingMild
<1>18. LinkedInv'
  BY <1>1, <1>3, <1>13, <1>16, <1>17, LinkedFrame
<1>19. ASSUME NEW e \in Desktop, NEW s \in Session, Writes(e, s)' PROVE Writes(e, s)
  <2>1. run[e][s] # "off" \/ holds[s].client = e \/ HoldsIn(Calls(e)', s)
    BY <1>3, <1>19 DEF Writes, HoldsIn
  <2>2. CASE e = d
    <3>1. HoldsIn(l \o q, s) => run[d][s] # "off"
      BY <1>2, <1>5, <1>11
    <3> QED
      BY <1>14, <2>1, <2>2, <3>1 DEF Writes
  <2>3. CASE e # d
    <3>1. Calls(e)' = Calls(e)
      BY <1>13, <2>3 DEF Calls
    <3> QED
      BY <2>1, <3>1 DEF Writes
  <2> QED
    BY <2>2, <2>3
<1>20. WriterInv'
  BY <1>1, <1>3, <1>19, WriterFrame
<1>21. StoppedInv'
  BY <1>1, <1>3 DEF StoppedInv
<1> QED
  BY <1>18, <1>20, <1>21 DEF SayInv
--------------------------------------------------------------------------------
(* What a desktop that has nothing more to say, and who asks it, may rely on *)

LEMMA InitSays == Init => SayInv
<1> SUFFICES ASSUME Init PROVE SayInv
  OBVIOUS
<1>1. /\ holds = [s \in Session |-> Free] /\ pending = [r \in Request |-> Unasked]
      /\ looking = [d \in Desktop |-> <<>>] /\ up = [d \in Desktop |-> <<>>]
      /\ run = [d \in Desktop |-> AllOff] /\ sent = [d \in Desktop |-> AllOff]
      /\ report = [d \in Desktop |-> [k \in Slot |-> NoReport]]
      /\ letgo = [d \in Desktop |-> [r \in Reason |-> NotLettingGo]]
  BY DEF Init
<1>2. \A d \in Desktop : Calls(d) = <<>>
  BY <1>1 DEF Calls
<1>3. \A d \in Desktop, s \in Session : run[d][s] = "off" /\ sent[d][s] = "off" /\ Keeps(d)[s] = "off" /\ holds[s].client # d
  BY <1>1, HoldsAssumption DEF AllOff, Keeps, Free
<1>4. \A d \in Desktop, k \in Slot, s \in Session : ~Stale(report[d][k], s)
  BY <1>1 DEF Stale, NoReport
<1>5. ASSUME NEW d \in Desktop
      PROVE  DeskBy(d, report[d], sent[d], run[d], Calls(d), Keeps(d), conv[d], pending)
  <2>1. WantedBy(report[d], run[d])
    BY <1>4 DEF WantedBy
  <2>2. ToldBy(report[d], sent[d], run[d])
    BY <1>3 DEF ToldBy
  <2>3. \A s : Comes(<<>>, s, "off", "off")
    BY DEF Comes
  <2>4. SaidBy(<<>>, Keeps(d), sent[d], run[d], conv[d])
    BY <1>3, <2>3 DEF SaidBy
  <2>5. ConvBy(<<>>, conv[d]) /\ AnswersBy(d, <<>>, run[d], pending)
    BY DEF ConvBy, AnswersBy
  <2> QED
    BY <1>2, <2>1, <2>2, <2>4, <2>5 DEF DeskBy
<1>6. LinkedInv
  BY <1>5 DEF LinkedInv
<1>7. StoppedInv
  BY <1>1 DEF StoppedInv, NotLettingGo
<1>8. \A d \in Desktop, s \in Session : ~Writes(d, s)
  BY <1>2, <1>3 DEF Writes, HoldsIn
<1>9. WriterInv
  BY <1>8 DEF WriterInv
<1> QED
  BY <1>6, <1>7, <1>9 DEF SayInv

\* Every step keeps SayInv.
LEMMA NextSays == Closed /\ TypesInv /\ SayInv /\ [Next]_vars => SayInv'
<1> SUFFICES ASSUME Closed, TypesInv, SayInv, [Next]_vars PROVE SayInv'
  OBVIOUS
<1>1. CASE \E d \in Desktop : WindowNext(d) \/ BridgeNext(d)
  BY <1>1, WindowSays, BridgeSays
<1>2. CASE \E d \in Desktop : Drop(d) \/ Quit(d) \/ Reload(d) \/ Connect(d)
  BY <1>2, DropSays, ReloadSays, ConnectSays
<1>3. CASE \E r \in Request, s \in Session : RequestHandoff(r, s)
  BY <1>3, RequestSays
<1>4. CASE \E r \in Request : TimesOut(r)
  BY <1>4, TimesOutSays
<1>5. CASE BridgeRestart
  BY <1>5, RestartSays
<1>6. CASE UNCHANGED vars
  <2>1. UNCHANGED <<holds, pending, looking, up, link, run, sent, report, conv, letgo>>
    BY <1>6 DEF vars, bridge, window
  <2>2. PendingMild
    BY <2>1 DEF PendingMild
  <2>3. LinkedInv'
    BY <2>1, <2>2, LinkedStays DEF SayInv
  <2>4. \A e \in Desktop, s \in Session : Writes(e, s)' => Writes(e, s)
    BY <2>1 DEF Writes, Calls, HoldsIn
  <2>5. WriterInv'
    BY <2>1, <2>4, WriterFrame DEF SayInv
  <2>6. StoppedInv'
    BY <2>1 DEF StoppedInv, SayInv
  <2> QED
    BY <2>3, <2>5, <2>6 DEF SayInv
<1> QED
  BY <1>1, <1>2, <1>3, <1>4, <1>5, <1>6 DEF Next

\* SayInv, in every behaviour.
LEMMA SaysInvariantly == Closed /\ Spec => [](TypesInv /\ SayInv)
<1> SUFFICES ASSUME Closed PROVE Spec => [](TypesInv /\ SayInv)
  OBVIOUS
<1>1. Init => TypesInv /\ SayInv
  BY InitTypes, InitSays
<1>2. TypesInv /\ SayInv /\ [Next]_vars => (TypesInv /\ SayInv)'
  BY NextTypes, NextSays
<1> QED
  BY <1>1, <1>2, PTL DEF Spec

\* A desktop that has nothing more to say has said it all: the bridge keeps what
\* its tabs run and how (#report, #converge, SessionHolds), whatever was lost,
\* superseded or forgotten by a reload, as long as no schedule of Open that loses
\* a report is taken.
THEOREM SaysItAll == Closed /\ Spec => []Told
<1>1. ASSUME TypesInv, SayInv PROVE Told
  <2>1. ASSUME NEW d \in Desktop, Quiet(d), NEW s \in Session
        PROVE  IF run[d][s] = "off" THEN holds[s].client # d
               ELSE holds[s] = [client |-> d, busy |-> run[d][s] = "working"]
    <3>1. /\ link[d] /\ Calls(d) = <<>> /\ conv[d].step = "no"
          /\ \A k \in Slot : ~Stale(report[d][k], s)
      <4>1. link[d] /\ up[d] = <<>> /\ looking[d] = <<>> /\ report[d] = [k \in Slot |-> NoReport] /\ conv[d] = NoConv
        BY <2>1 DEF Quiet
      <4>2. Calls(d) = <<>> /\ conv[d].step = "no"
        BY <4>1 DEF Calls, NoConv
      <4>3. \A k \in Slot : ~Stale(report[d][k], s)
        BY <4>1 DEF Stale, NoReport
      <4> QED
        BY <4>1, <4>2, <4>3
    <3>2. DeskBy(d, report[d], sent[d], run[d], <<>>, Keeps(d), conv[d], pending)
      BY <1>1, <3>1 DEF SayInv, LinkedInv
    <3>3. sent[d][s] = run[d][s]
      BY <3>1, <3>2 DEF DeskBy, ToldBy
    <3>4. ~ListsYet(<<>>, conv[d], s)
      BY <3>1 DEF ListsYet
    <3>5. \A a : Comes(<<>>, s, Keeps(d)[s], a) => Keeps(d)[s] = a
      BY DEF Comes
    <3>6. Keeps(d)[s] = run[d][s]
      BY <3>2, <3>3, <3>4, <3>5 DEF DeskBy, SaidBy
    <3>7. run[d][s] \in Activity /\ holds[s] \in [client : Desktop \cup {NoOne}, busy : BOOLEAN]
      BY <1>1, TypesAre DEF WindowTypes, BridgeTypes
    <3>8. CASE run[d][s] = "off"
      BY <3>6, <3>8 DEF Keeps
    <3>9. CASE run[d][s] # "off"
      <4>1. holds[s].client = d /\ holds[s].busy = (run[d][s] = "working")
        BY <3>6, <3>7, <3>9 DEF Keeps
      <4> QED
        BY <3>7, <3>9, <4>1
    <3> QED
      BY <3>8, <3>9
  <2> QED
    BY <2>1 DEF Told, Agrees
<1> QED
  BY <1>1, SaysInvariantly, PTL

\* Only an answer tells an asker that a session was released.
LEMMA ToldByAnswer ==
  ASSUME TypesInv, [Next]_vars, NEW r \in Request,
         pending'[r].outcome = "released", pending[r].outcome # "released"
  PROVE  \E d \in Desktop : Answered(d)
<1>1. WindowTypes /\ BridgeTypes
  BY TypesAre
<1>2. ASSUME NEW d \in Desktop, WindowNext(d) PROVE UNCHANGED pending
  BY <1>2 DEF WindowNext, Change, ReportGoes, ConvergeGoes, ContinueAsChat, HandoffRequested, Stopped,
              StopFails, LetGo, bridge
<1>3. ASSUME NEW d \in Desktop, HoldCalled(d) \/ Held(d) \/ Released(d) \/ Listed(d) PROVE UNCHANGED pending
  BY <1>3 DEF HoldCalled, Held, Released, Listed, bridge
<1>4. ASSUME NEW d \in Desktop, Noticed(d)
      PROVE  pending'[r].outcome \in {pending[r].outcome, "unreachable"}
  BY <1>1, <1>4 DEF Noticed, Unreached, BridgeTypes
<1>5. ASSUME NEW d \in Desktop, Drop(d) \/ Quit(d) \/ Reload(d) \/ Connect(d) PROVE UNCHANGED pending
  BY <1>5 DEF Drop, Quit, Reload, Connect
<1>6. ASSUME NEW v \in Request, NEW s \in Session, RequestHandoff(v, s)
      PROVE  pending'[r].outcome \in {pending[r].outcome, "notHeld", "busy", "asked", "unreachable"}
  <2>1. Asked(holds[s]) \in {"notHeld", "busy", "asked", "unreachable"}
    BY DEF Asked
  <2>2. pending' = [pending EXCEPT ![v] = [s |-> s, client |-> holds[s].client, outcome |-> Asked(holds[s])]]
    BY <1>6 DEF RequestHandoff
  <2> QED
    BY <1>1, <2>1, <2>2 DEF BridgeTypes
<1>7. ASSUME NEW v \in Request, TimesOut(v)
      PROVE  pending'[r].outcome \in {pending[r].outcome, "unreachable"}
  <2>1. pending' = [pending EXCEPT ![v].outcome = "unreachable"]
    BY <1>7 DEF TimesOut, Settle
  <2> QED
    BY <1>1, <2>1 DEF BridgeTypes
<1>8. ASSUME BridgeRestart PROVE pending'[r].outcome \in {pending[r].outcome, "lost"}
  BY <1>1, <1>8 DEF BridgeRestart, BridgeTypes
<1>9. ASSUME UNCHANGED vars PROVE UNCHANGED pending
  BY <1>9 DEF vars, bridge
<1> QED
  BY <1>2, <1>3, <1>4, <1>5, <1>6, <1>7, <1>8, <1>9 DEF Next, BridgeNext

\* An asker that is told a session was released finds no hold of it, and its desktop
\* runs it no more or is about to report it anew (SessionHolds.answer,
\* #onHandoffRequested, #letGo).
THEOREM ReleasedFrees == Closed /\ Spec => ReleasedIsFree
<1> SUFFICES ASSUME Closed PROVE Spec => ReleasedIsFree
  OBVIOUS
<1>1. ASSUME TypesInv, SayInv, [Next]_vars, NEW r \in Request,
             pending'[r].outcome = "released", pending[r].outcome # "released"
      PROVE  /\ holds'[pending[r].s] = Free
             /\ run[pending[r].client][pending[r].s] # "off" =>
                  ~link[pending[r].client] \/ Concerns(up[pending[r].client], pending[r].s)
  <2>1. WindowTypes /\ BridgeTypes /\ LetGoInv /\ LinkedInv /\ WriterInv
    BY <1>1, TypesAre DEF SayInv
  <2>2. PICK d \in Desktop : Answered(d)
    BY <1>1, ToldByAnswer
  <2>3. Handles(d, "answer") /\ UNCHANGED looking
    BY <2>2 DEF Answered
  <2>4. PICK c : c = Head(up[d])
    OBVIOUS
  <2>5. /\ Calls(d) \in Seq(Call) /\ Calls(d) # <<>> /\ Head(Calls(d)) = c /\ c \in Call /\ c.m = "answer"
    BY <1>1, <2>3, <2>4, HandledCalls
  <2>6. c.r \in Request
    BY <2>5, CallIs
  <2>7. PICK h : h = pending[c.r]
    OBVIOUS
  <2>8. IF h.outcome = "asked" /\ h.client = d
        THEN /\ pending' = [pending EXCEPT ![c.r].outcome = c.o]
             /\ holds' = IF c.o = "released" /\ holds[h.s].client = d
                         THEN [holds EXCEPT ![h.s] = Free] ELSE holds
        ELSE UNCHANGED <<pending, holds>>
    BY <2>2, <2>4, <2>7 DEF Answered, Settle
  <2>9. h.outcome = "asked" /\ h.client = d
    BY <1>1, <2>8
  <2>10. c.r = r /\ c.o = "released" /\ h = pending[r]
    BY <1>1, <2>1, <2>6, <2>7, <2>8, <2>9 DEF BridgeTypes
  <2>11. h.s \in Session
    BY <1>1, <2>1, <2>9, <2>10 DEF LetGoInv
  <2>12. holds'[h.s] = Free
    <3>1. holds \in [Session -> [client : Desktop \cup {NoOne}, busy : BOOLEAN]]
      BY <2>1 DEF BridgeTypes
    <3>2. CASE holds[h.s].client = d
      BY <2>8, <2>9, <2>10, <2>11, <3>1, <3>2
    <3>3. CASE holds[h.s].client # d
      <4>1. ASSUME NEW e \in Desktop, holds[h.s].client = e PROVE FALSE
        <5>1. Writes(e, h.s) /\ e # d
          BY <3>3, <4>1 DEF Writes
        <5> QED
          BY <1>1, <2>1, <2>9, <2>10, <2>11, <5>1 DEF WriterInv
      <4>2. holds[h.s].client = NoOne
        BY <2>11, <3>1, <4>1
      <4>3. holds[h.s] = Free
        BY <2>1, <2>11, <4>2 DEF BridgeTypes
      <4> QED
        BY <2>8, <2>9, <3>3, <4>3
    <3> QED
      BY <3>2, <3>3
  <2>13. ASSUME run[d][h.s] # "off", link[d] PROVE Concerns(up[d], h.s)
    <3>1. looking[d] = <<>> /\ up[d] \in Seq(Call)
      BY <1>1, <2>1, <2>3 DEF Handles, Closed, Open, WindowTypes
    <3>2. Calls(d) = up[d]
      BY <3>1, NothingBefore DEF Calls
    <3>3. AnswersBy(d, up[d], run[d], pending)
      BY <2>1, <2>13, <3>2 DEF LinkedInv, DeskBy
    <3>4. 1 \in DOMAIN up[d] /\ up[d][1] = c
      BY <2>4, <2>5, <3>1, <3>2
    <3>5. \E j \in DOMAIN up[d] : j > 1 /\ up[d][j].m = "hold" /\ up[d][j].s = h.s
      BY <2>5, <2>9, <2>10, <2>13, <3>3, <3>4 DEF AnswersBy
    <3> QED
      BY <3>5 DEF Concerns
  <2> QED
    BY <2>9, <2>10, <2>12, <2>13
<1>2. TypesInv /\ SayInv /\ [Next]_vars =>
        [\A r \in Request :
           LET s == pending[r].s
               d == pending[r].client
           IN pending'[r].outcome = "released" /\ pending[r].outcome # "released" =>
                /\ holds'[s] = Free
                /\ run[d][s] # "off" => ~link[d] \/ Concerns(up[d], s)]_vars
  BY <1>1
<1>3. Spec => [](TypesInv /\ SayInv)
  BY SaysInvariantly
<1> QED
  BY <1>2, <1>3, PTL DEF Spec, ReleasedIsFree
================================================================================
