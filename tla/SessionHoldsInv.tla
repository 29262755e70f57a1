----------------------------- MODULE SessionHoldsInv ----------------------------
(* What Told and ReleasedIsFree of SessionHolds rest on, with every schedule   *)
(* that Open names left out: what a window's calls will have the bridge keep,  *)
(* against what the window said and what its tabs run.                         *)
EXTENDS SessionHolds

Closed == Windows \cap {"late_hold", "stale_report", "answer_drops", "two_writers"} = {}

\* What is under way, and who waits for it.
HoldBy == {<<"nobody">>} \cup {<<"report", k>> : k \in Slot}
By == HoldBy \cup {<<"converge">>} \cup {<<"letgo", r>> : r \in Reason}
HoldCall == [m : {"hold"}, s : Session, a : Activity \ {"off"}, by : HoldBy]
Call ==
  HoldCall \cup [m : {"release"}, s : Session, by : By] \cup [m : {"holds"}, by : By]
    \cup [m : {"answer"}, r : Request, o : {"released", "busy"}, by : {<<"nobody">>}]

CallTypes ==
  /\ up \in [Desktop -> Seq(Call)]
  /\ looking \in [Desktop -> Seq(HoldCall)]
  /\ asks \in [Desktop -> SUBSET Request]
  /\ conv \in [Desktop -> [step : {"no", "asked", "listed", "waits", "goes"}, left : SUBSET Session]]

\* What the bridge has under way of a desktop, the oldest first.
Calls(d) == looking[d] \o up[d]

\* Call c is about session s; what it says of it.
About(c, s) == c.m \in {"hold", "release"} /\ c.s = s
Said(c) == IF c.m = "hold" THEN c.a ELSE "off"

\* What handling q makes of b, what was kept of session s, is a.
Comes(q, s, b, a) ==
  \/ b = a /\ \A i \in DOMAIN q : ~About(q[i], s)
  \/ \E i \in DOMAIN q :
       /\ About(q[i], s) /\ Said(q[i]) = a
       /\ \A j \in DOMAIN q : j > i => ~About(q[j], s)

\* What the bridge keeps for desktop d.
Keeps(d) ==
  [s \in Session |-> IF holds[s].client # d THEN "off" ELSE IF holds[s].busy THEN "working" ELSE "idle"]

\* Report p may yet say of session s what it began with, and this is that.
Stale(p, s) ==
  \/ p.phase = "holding" /\ (s > p.at \/ p.wanted[s] = "off")
  \/ p.phase = "releasing" /\ s \in p.rest
Aim(p, s) == IF p.phase = "holding" THEN p.wanted[s] ELSE "off"

\* What the reports P of a window may yet say is what its tabs run, w.
WantedBy(P, w) == \A k \in Slot, s \in Session : Stale(P[k], s) => Aim(P[k], s) = w[s]

\* What was said, t, is what the tabs run, w, or left to one of the reports P.
ToldBy(P, t, w) == \A s \in Session : t[s] = w[s] \/ \E k \in Slot : Stale(P[k], s)

\* #converge, at c with calls q under way, has yet to let session s go.
ListsYet(q, c, s) ==
  \/ /\ c.step = "asked"
     /\ \A i, j \in DOMAIN q : q[i].m = "holds" /\ q[i].by = <<"converge">> /\ j > i => ~About(q[j], s)
  \/ c.step \in {"listed", "waits", "goes"} /\ s \in c.left

\* Calls q have the bridge, which keeps b, keep what was said, t; but a session
\* that runs no more may have been freed by an answer, and what an earlier window
\* said is let go by #converge.
SaidBy(q, b, t, w, c) ==
  \A s \in Session :
    IF t[s] # "off"
    THEN Comes(q, s, b[s], t[s]) \/ (w[s] = "off" /\ Comes(q, s, b[s], "off"))
    ELSE Comes(q, s, b[s], "off") \/ w[s] # "off" \/ ListsYet(q, c, s)

\* #converge waits for the only call of it that is in q.
ConvBy(q, c) ==
  \A i \in DOMAIN q : q[i].by = <<"converge">> =>
    /\ (q[i].m = "holds" /\ c.step = "asked") \/ (q[i].m = "release" /\ c.step = "waits")
    /\ \A j \in DOMAIN q : q[j].by = <<"converge">> => j = i

HoldsIn(q, s) == \E i \in DOMAIN q : q[i].m = "hold" /\ q[i].s = s

\* A session that was said to be released runs no more, or is held again since.
AnswersBy(d, q, w, asked) ==
  \A i \in DOMAIN q : q[i].m = "answer" =>
    LET h == asked[q[i].r]
    IN /\ h.outcome # "none"
       /\ q[i].o = "released" /\ h.outcome = "asked" /\ h.client = d =>
            \/ w[h.s] = "off"
            \/ \E j \in DOMAIN q : j > i /\ q[j].m = "hold" /\ q[j].s = h.s

\* A desktop that is connected has said what its tabs run, or is about to.
DeskBy(d, P, t, w, q, b, c, asked) ==
  /\ WantedBy(P, w) /\ ToldBy(P, t, w)
  /\ SaidBy(q, b, t, w, c) /\ ConvBy(q, c)
  /\ AnswersBy(d, q, w, asked)
LinkedInv ==
  \A d \in Desktop : link[d] =>
    DeskBy(d, report[d], sent[d], run[d], Calls(d), Keeps(d), conv[d], pending)

\* A release that a hand-off waits for is the only call it waits for.
LetGoBy(q, l) ==
  \A i \in DOMAIN q, r \in Reason : q[i].by = <<"letgo", r>> =>
    /\ l[r].step = "waits"
    /\ \A j \in DOMAIN q : q[j].by = <<"letgo", r>> => j = i

\* Who lets go of a session was asked for it.
LetGoInv ==
  /\ \A r \in Request : IF pending[r].outcome = "none" THEN pending[r] = Unasked ELSE pending[r].s \in Session
  /\ \A d \in Desktop : \A r \in asks[d] : pending[r].outcome # "none" /\ letgo[d][r].step = "no"
  /\ \A d \in Desktop, r \in Reason : letgo[d][r].step # "no" =>
       /\ letgo[d][r].s \in Session
       /\ r \in Request => pending[r].outcome # "none" /\ letgo[d][r].s = pending[r].s
  /\ \A d \in Desktop : LetGoBy(up[d], letgo[d])

\* What has types, whatever schedules are open.
TypesInv == TypeOK /\ CallTypes /\ LetGoInv

\* What was let go does not start until who asked for it knows.
StoppedInv ==
  \A d \in Desktop, r \in Reason : letgo[d][r].step \in {"waits", "goes"} => run[d][letgo[d][r].s] = "off"

\* One desktop at a time runs a session, holds it or is about to; while it is
\* asked for the session, no other.
Writes(d, s) == run[d][s] # "off" \/ holds[s].client = d \/ HoldsIn(Calls(d), s)
WriterInv ==
  /\ \A d, e \in Desktop, s \in Session : Writes(d, s) /\ Writes(e, s) => d = e
  /\ \A r \in Request, s \in Session : pending[r].outcome = "asked" /\ pending[r].s = s =>
       \A e \in Desktop \ {pending[r].client} : ~Writes(e, s)

SayInv == LinkedInv /\ StoppedInv /\ WriterInv
================================================================================
