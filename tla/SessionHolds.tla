------------------------------ MODULE SessionHolds ------------------------------
(* Which agent sessions the desktops' terminals have open, as the bridge keeps *)
(* it and as each desktop tells it: the reports of a window whose tabs change, *)
(* the list it asks for after a reconnect, and the hand-off of a session       *)
(* someone else asks for, over connections that break, replace each other and  *)
(* outlive a reload of the window.                                             *)
(* Left out: what other clients are shown of a hold, its folder and its        *)
(* conversation, the process the bridge keeps for that conversation, and calls *)
(* that fail on a connection that goes on.                                     *)
EXTENDS Integers, Sequences, FiniteSets

CONSTANTS
  Desktop,     \* the desktops connected to this bridge, by client id
  Session,     \* agent sessions, numbered in the order of the tabs, from 1
  Request,     \* agent/requestHandoff calls
  Chat,        \* "Continue as chat", which lets go without being asked
  NoOne,       \* no desktop
  MaxReports,  \* a bound on the reports one window has under way
  MaxChanges,  \* a bound on the changes of what the tabs run
  MaxBreaks,   \* a bound on what breaks: connections, windows, apps, the bridge
  Windows      \* schedules left open, see Open

ASSUME HoldsAssumption ==
  /\ Session \subseteq Nat \ {0}
  /\ NoOne \notin Desktop /\ Chat \notin Request
  /\ {MaxReports, MaxChanges, MaxBreaks} \subseteq Nat

Slot == 1..MaxReports
Reason == Request \cup {Chat}
Activity == {"off", "idle", "working"}

\* Schedules that are left out unless they are in Windows:
\*   late_hold    a call is handled, or a disconnect noticed, while an agent/hold
\*                waits for threadForSession
\*   stale_report a tab changes while a report begun earlier has yet to come to it
\*   answer_drops a session starts again in a tab that is still letting it go
\*   two_writers  a session starts in a second desktop's tab while it runs in, is
\*                held by, is being reported by or is being asked of another's
Open(w) == w \in Windows

VARIABLES
  holds,    \* #holds: whose terminal has a session open, and whether it works
  pending,  \* #pending, and how each request ended
  served,   \* the desktops whose connection the registry has
  looking,  \* agent/hold calls waiting for threadForSession
  up,       \* a desktop's calls on their way to the bridge
  asks,     \* stream/agent/handoffRequested on its way to a desktop
  link,     \* the desktop is connected
  run,      \* what its tabs run
  sent,     \* #sent: what it last told, "off" for a session it has no entry of
  report,   \* its #report calls under way
  conv,     \* its #converge under way
  letgo,    \* its #letGo calls under way, and who asked for each
  changes, breaks

bridge == <<holds, pending, served, looking>>
window == <<run, sent, report, conv, letgo>>
vars == <<bridge, up, asks, link, window, changes, breaks>>

Free == [client |-> NoOne, busy |-> FALSE]
Unasked == [s |-> 0, client |-> NoOne, outcome |-> "none"]
NoReport == [phase |-> "none", wanted |-> [s \in Session |-> "off"], at |-> 0,
             rest |-> {}, waits |-> FALSE]
NoConv == [step |-> "no", left |-> {}]
NotLettingGo == [step |-> "no", s |-> 0]

AllOff == [s \in Session |-> "off"]

\* Desktops that connected before any of their tabs ran anything.
Init ==
  /\ holds = [s \in Session |-> Free]
  /\ pending = [r \in Request |-> Unasked]
  /\ served = [d \in Desktop |-> TRUE]
  /\ looking = [d \in Desktop |-> <<>>]
  /\ up = [d \in Desktop |-> <<>>]
  /\ asks = [d \in Desktop |-> {}]
  /\ link = [d \in Desktop |-> TRUE]
  /\ run = [d \in Desktop |-> AllOff]
  /\ sent = [d \in Desktop |-> AllOff]
  /\ report = [d \in Desktop |-> [k \in Slot |-> NoReport]]
  /\ conv = [d \in Desktop |-> NoConv]
  /\ letgo = [d \in Desktop |-> [r \in Reason |-> NotLettingGo]]
  /\ changes = 0 /\ breaks = 0
--------------------------------------------------------------------------------
(* Calls, each with who waits for its answer *)

Hold(s, a, by) == [m |-> "hold", s |-> s, a |-> a, by |-> by]
Release(s, by) == [m |-> "release", s |-> s, by |-> by]
List(by) == [m |-> "holds", by |-> by]
Answer(r, o) == [m |-> "answer", r |-> r, o |-> o, by |-> <<"nobody">>]

\* The same calls, when nobody waits for them any more.
Orphaned(q) == [i \in DOMAIN q |-> [q[i] EXCEPT !.by = <<"nobody">>]]

First(S) == CHOOSE s \in S : \A u \in S : s <= u

\* #report goes on to its next call, with #sent at t: what it is then, #sent and
\* the call.  It says what is wanted and was not said, tab by tab, then lets go
\* of what #sent has and was not wanted when it began.
GoOn(p, t, by) ==
  LET holding == p.phase = "holding"
      due == {s \in Session : holding /\ s > p.at /\ p.wanted[s] \notin {"off", t[s]}}
      gone == IF holding THEN {s \in Session : t[s] # "off" /\ p.wanted[s] = "off"}
              ELSE p.rest
  IN IF due # {}
     THEN LET s == First(due)
          IN [p |-> [p EXCEPT !.at = s, !.waits = TRUE],
              sent |-> [t EXCEPT ![s] = p.wanted[s]],
              calls |-> <<Hold(s, p.wanted[s], by)>>]
     ELSE IF gone # {}
     THEN LET s == First(gone)
          IN [p |-> [p EXCEPT !.phase = "releasing", !.rest = gone \ {s}, !.waits = TRUE],
              sent |-> [t EXCEPT ![s] = "off"],
              calls |-> <<Release(s, by)>>]
     ELSE [p |-> NoReport, sent |-> t, calls |-> <<>>]

\* A report begins, of what the tabs w run, with #sent at t, the reports p of this
\* window under way, and the calls before and after it made with it.
Reports(d, w, t, p, before, after) ==
  \E k \in Slot :
    /\ p[k].phase = "none" /\ \A j \in Slot : j < k => p[j].phase # "none"
    /\ LET g == GoOn([NoReport EXCEPT !.phase = "holding", !.wanted = w], t, <<"report", k>>)
       IN /\ report' = [report EXCEPT ![d] = [p EXCEPT ![k] = g.p]]
          /\ sent' = [sent EXCEPT ![d] = g.sent]
          /\ up' = [up EXCEPT ![d] = before \o g.calls \o after]

\* The start effect, when what the tabs run becomes w.
Tells(d, w, t, before) ==
  IF link[d] THEN Reports(d, w, t, report[d], before, <<>>)
  ELSE sent' = [sent EXCEPT ![d] = t] /\ UNCHANGED <<report, up>>
--------------------------------------------------------------------------------
(* The tabs *)

\* A report under way that would still act on what it began with of session s.
StaleOf(d, s) ==
  \E k \in Slot :
    \/ report[d][k].phase = "holding"
       /\ (s > report[d][k].at \/ report[d][k].wanted[s] = "off")
    \/ report[d][k].phase = "releasing" /\ s \in report[d][k].rest

LettingGo(d, s) ==
  \E r \in Reason : letgo[d][r].step # "no" /\ letgo[d][r].s = s

Concerns(q, s) == \E i \in DOMAIN q : q[i].m \in {"hold", "release"} /\ q[i].s = s

\* No other desktop has anything to do with the session.
Alone(d, s) ==
  /\ holds[s].client \in {d, NoOne}
  /\ \A r \in Request :
       pending[r].outcome = "asked" /\ pending[r].s = s => pending[r].client = d
  /\ \A e \in Desktop \ {d} :
       run[e][s] = "off" /\ ~Concerns(up[e], s) /\ ~Concerns(looking[e], s)

Starts(d, s) ==
  /\ Open("answer_drops") \/ ~LettingGo(d, s)
  /\ Open("two_writers") \/ Alone(d, s)

\* An agent starts in a tab, starts or stops working, or exits.
Change(d, s, a) ==
  /\ changes < MaxChanges
  /\ <<run[d][s], a>> \in {<<"off", "idle">>, <<"idle", "working">>, <<"working", "idle">>,
                          <<"idle", "off">>, <<"working", "off">>}
  /\ run[d][s] = "off" => Starts(d, s)
  /\ Open("stale_report") \/ ~StaleOf(d, s)
  /\ run' = [run EXCEPT ![d][s] = a]
  /\ Tells(d, run'[d], sent[d], up[d])
  /\ changes' = changes + 1
  /\ UNCHANGED <<bridge, asks, link, conv, letgo, breaks>>

\* The call a report waited for is answered.
ReportGoes(d, k) ==
  /\ link[d] /\ report[d][k].phase # "none" /\ ~report[d][k].waits
  /\ LET g == GoOn(report[d][k], sent[d], <<"report", k>>)
     IN /\ report' = [report EXCEPT ![d][k] = g.p]
        /\ sent' = [sent EXCEPT ![d] = g.sent]
        /\ up' = [up EXCEPT ![d] = @ \o g.calls]
  /\ UNCHANGED <<bridge, asks, link, run, conv, letgo, changes, breaks>>

\* #converge: what the bridge listed and no tab runs, nor is said to, is let go.
ConvergeGoes(d) ==
  /\ link[d] /\ conv[d].step \in {"listed", "goes"}
  /\ LET left == IF conv[d].step = "goes" THEN conv[d].left
                 ELSE {s \in conv[d].left : run[d][s] = "off"}
         untold == {s \in left : sent[d][s] = "off"}
     IN \/ /\ untold = {}
           /\ conv' = [conv EXCEPT ![d] = NoConv]
           /\ UNCHANGED up
        \/ \E s \in untold :
             /\ conv' = [conv EXCEPT ![d] = [step |-> "waits", left |-> left \ {s}]]
             /\ up' = [up EXCEPT ![d] = Append(@, Release(s, <<"converge">>))]
  /\ UNCHANGED <<bridge, asks, link, run, sent, report, letgo, changes, breaks>>
--------------------------------------------------------------------------------
(* A session is let go *)

LetsGo(d, r, s) == letgo' = [letgo EXCEPT ![d][r] = [step |-> "stopping", s |-> s]]
Says(d, r, o) == up' = [up EXCEPT ![d] = Append(@, Answer(r, o))]

\* continueAsChat, as far as the session is let go.
ContinueAsChat(d, s) ==
  /\ changes < MaxChanges
  /\ run[d][s] = "idle" /\ letgo[d][Chat].step = "no"
  /\ LetsGo(d, Chat, s)
  /\ changes' = changes + 1
  /\ UNCHANGED <<bridge, up, asks, link, run, sent, report, conv, breaks>>

\* #onHandoffRequested
HandoffRequested(d, r) ==
  LET s == pending[r].s
  IN /\ link[d] /\ r \in asks[d]
     /\ asks' = [asks EXCEPT ![d] = @ \ {r}]
     /\ \/ run[d][s] = "off" /\ Says(d, r, "released") /\ UNCHANGED letgo
        \/ run[d][s] = "working" /\ Says(d, r, "busy") /\ UNCHANGED letgo
        \/ run[d][s] = "idle" /\ LetsGo(d, r, s) /\ UNCHANGED up
     /\ UNCHANGED <<bridge, link, run, sent, report, conv, changes, breaks>>

\* pty_stop_agent resolves: the agent is gone, and the tab holds nothing.
Stopped(d, r) ==
  LET s == letgo[d][r].s
      off == [run[d] EXCEPT ![s] = "off"]
  IN /\ letgo[d][r].step = "stopping"
     /\ Open("stale_report") \/ ~StaleOf(d, s)
     /\ run' = [run EXCEPT ![d] = off]
     /\ letgo' = [letgo EXCEPT ![d][r] =
                    IF link[d] THEN [@ EXCEPT !.step = "waits"] ELSE NotLettingGo]
     /\ Tells(d, off, [sent[d] EXCEPT ![s] = "off"],
              Append(up[d], Release(s, <<"letgo", r>>)))
     /\ UNCHANGED <<bridge, asks, link, conv, changes, breaks>>

\* Mutant: #onHandoffRequested without its catch.
StopFailsUnseen(d, r) ==
  /\ letgo[d][r].step = "stopping"
  /\ letgo' = [letgo EXCEPT ![d][r] = NotLettingGo]
  /\ IF r \in Request /\ link[d] THEN Says(d, r, "released") ELSE UNCHANGED up
  /\ UNCHANGED <<bridge, asks, link, run, sent, report, conv, changes, breaks>>

\* It rejects: the tab keeps the session.
StopFails(d, r) ==
  /\ letgo[d][r].step = "stopping"
  /\ letgo' = [letgo EXCEPT ![d][r] = NotLettingGo]
  /\ IF r \in Request /\ link[d] THEN Says(d, r, "busy") ELSE UNCHANGED up
  /\ UNCHANGED <<bridge, asks, link, run, sent, report, conv, changes, breaks>>

\* The release is answered.
LetGo(d, r) ==
  /\ link[d] /\ letgo[d][r].step = "goes"
  /\ letgo' = [letgo EXCEPT ![d][r] = NotLettingGo]
  /\ IF r \in Request THEN Says(d, r, "released") ELSE UNCHANGED up
  /\ UNCHANGED <<bridge, asks, link, run, sent, report, conv, changes, breaks>>
--------------------------------------------------------------------------------
(* The bridge *)

\* A desktop's next call reaches its handler.
Handles(d, m) ==
  /\ up[d] # <<>> /\ Head(up[d]).m = m
  /\ Open("late_hold") \/ looking[d] = <<>>
  /\ up' = [up EXCEPT ![d] = Tail(@)]

\* Whoever waits for the answer goes on.
Replies(d, by) ==
  /\ report' = IF by[1] = "report" THEN [report EXCEPT ![d][by[2]].waits = FALSE] ELSE report
  /\ conv' = IF by[1] = "converge" THEN [conv EXCEPT ![d].step = "goes"] ELSE conv
  /\ letgo' = IF by[1] = "letgo" THEN [letgo EXCEPT ![d][by[2]].step = "goes"] ELSE letgo

\* agent/hold, until threadForSession answers; then SessionHolds.hold.
HoldCalled(d) ==
  /\ Handles(d, "hold")
  /\ looking' = [looking EXCEPT ![d] = Append(@, Head(up[d]))]
  /\ UNCHANGED <<holds, pending, served, asks, link, window, changes, breaks>>
Held(d) ==
  /\ looking[d] # <<>>
  /\ LET c == Head(looking[d])
     IN /\ holds' = [holds EXCEPT ![c.s] = [client |-> d, busy |-> c.a = "working"]]
        /\ Replies(d, c.by)
  /\ looking' = [looking EXCEPT ![d] = Tail(@)]
  /\ UNCHANGED <<pending, served, up, asks, link, run, sent, changes, breaks>>

\* SessionHolds.release: only the client that holds it may.
Released(d) ==
  /\ Handles(d, "release")
  /\ LET c == Head(up[d])
     IN /\ holds' = IF holds[c.s].client = d THEN [holds EXCEPT ![c.s] = Free] ELSE holds
        /\ Replies(d, c.by)
  /\ UNCHANGED <<pending, served, looking, asks, link, run, sent, changes, breaks>>

\* agent/holds
Listed(d) ==
  /\ Handles(d, "holds")
  /\ conv' = IF Head(up[d]).by = <<"converge">>
             THEN [conv EXCEPT ![d] = [step |-> "listed",
                                       left |-> {s \in Session : holds[s] # Free}]]
             ELSE conv
  /\ UNCHANGED <<bridge, asks, link, run, sent, report, letgo, changes, breaks>>

Settle(r, o) == pending' = [pending EXCEPT ![r].outcome = o]

\* SessionHolds.answer
Answered(d) ==
  /\ Handles(d, "answer")
  /\ LET c == Head(up[d])
         q == pending[c.r]
     IN IF q.outcome = "asked" /\ q.client = d
        THEN /\ Settle(c.r, c.o)
             /\ holds' = IF c.o = "released" /\ holds[q.s].client = d
                         THEN [holds EXCEPT ![q.s] = Free] ELSE holds
        ELSE UNCHANGED <<pending, holds>>
  /\ UNCHANGED <<served, looking, asks, link, window, changes, breaks>>

\* Mutant: without the first return.
AskedUnheld(h) ==
  IF h.busy THEN "busy" ELSE "asked"

\* SessionHolds.requestHandoff: how it goes, of a hold h.
Asked(h) ==
  IF h = Free THEN "notHeld"
  ELSE IF h.busy THEN "busy"
  ELSE IF served[h.client] THEN "asked" ELSE "unreachable"

\* Any client may ask; what the holder is sent is kept for it when it cannot be
\* reached.
RequestHandoff(r, s) ==
  LET h == holds[s]
      o == Asked(h)
  IN /\ pending[r] = Unasked
     /\ pending' = [pending EXCEPT ![r] = [s |-> s, client |-> h.client, outcome |-> o]]
     /\ asks' = IF o \in {"asked", "unreachable"}
                THEN [asks EXCEPT ![h.client] = @ \cup {r}] ELSE asks
     /\ UNCHANGED <<holds, served, looking, up, link, window, changes, breaks>>

\* HANDOFF_ANSWER_TIMEOUT_MS passes.
TimesOut(r) ==
  /\ pending[r].outcome = "asked"
  /\ Settle(r, "unreachable")
  /\ UNCHANGED <<holds, served, looking, up, asks, link, window, changes, breaks>>

\* Mutants: a disconnect that frees nothing, and one that settles nothing.
FreedNone(d) == holds
StillAsked(d) == pending

\* releaseAll: what a desktop held is free, and nothing waits for it.
FreedAll(d) == [s \in Session |-> IF holds[s].client = d THEN Free ELSE holds[s]]
Unreached(d) ==
  [r \in Request |-> IF pending[r].outcome = "asked" /\ pending[r].client = d
                     THEN [pending[r] EXCEPT !.outcome = "unreachable"] ELSE pending[r]]

\* A disconnect is noticed, of the connection that is served.
Noticed(d) ==
  /\ served[d] /\ ~link[d]
  /\ Open("late_hold") \/ looking[d] = <<>>
  /\ served' = [served EXCEPT ![d] = FALSE]
  /\ holds' = FreedAll(d)
  /\ pending' = Unreached(d)
  /\ up' = [up EXCEPT ![d] = <<>>]
  /\ UNCHANGED <<looking, asks, link, window, changes, breaks>>
--------------------------------------------------------------------------------
(* What breaks, and what comes back *)

Breaks == breaks < MaxBreaks /\ breaks' = breaks + 1

\* Its calls fail: the reports, #converge and what waits for a release end.
\* #sent is not read again before a reconnect clears it, so it is cleared here.
Fails(D) ==
  /\ sent' = [d \in Desktop |-> IF d \in D THEN AllOff ELSE sent[d]]
  /\ report' = [d \in Desktop |-> IF d \in D THEN [k \in Slot |-> NoReport] ELSE report[d]]
  /\ conv' = [d \in Desktop |-> IF d \in D THEN NoConv ELSE conv[d]]

\* A connection drops; what it carried may still be read until the bridge notices.
Drop(d) ==
  /\ Breaks /\ link[d]
  /\ link' = [link EXCEPT ![d] = FALSE]
  /\ Fails({d})
  /\ letgo' = [letgo EXCEPT ![d] =
                 [r \in Reason |-> IF @[r].step = "stopping" THEN @[r] ELSE NotLettingGo]]
  /\ up' = [up EXCEPT ![d] = Orphaned(@)]
  /\ looking' = [looking EXCEPT ![d] = Orphaned(@)]
  /\ UNCHANGED <<holds, pending, served, asks, run, changes>>

\* The app ends, and its terminals with it; it will resume from nothing.
Quit(d) ==
  /\ Breaks /\ link[d]
  /\ link' = [link EXCEPT ![d] = FALSE]
  /\ Fails({d})
  /\ run' = [run EXCEPT ![d] = AllOff]
  /\ letgo' = [letgo EXCEPT ![d] = [r \in Reason |-> NotLettingGo]]
  /\ asks' = [asks EXCEPT ![d] = {}]
  /\ up' = [up EXCEPT ![d] = Orphaned(@)]
  /\ looking' = [looking EXCEPT ![d] = Orphaned(@)]
  /\ UNCHANGED <<holds, pending, served, changes>>

\* Mutant: a window that never asks what the bridge still keeps of its own.
SaysRunning(d, w, q) ==
  /\ Reports(d, w, AllOff, [k \in Slot |-> NoReport], q, <<>>)
  /\ UNCHANGED conv

\* What a window says first: a report of what its tabs run, and a #converge.
SaysAll(d, w, q) ==
  /\ Reports(d, w, AllOff, [k \in Slot |-> NoReport], q, <<List(<<"converge">>)>>)
  /\ conv' = [conv EXCEPT ![d] = [step |-> "asked", left |-> {}]]

\* The window is loaded again over the same connection: it forgot what it said
\* and did, some of its tabs run nothing until they are shown, and it may have
\* missed requests.
Reload(d) ==
  /\ Breaks /\ link[d]
  /\ \E shown \in SUBSET Session :
       run' = [run EXCEPT ![d] = [s \in Session |-> IF s \in shown THEN @[s] ELSE "off"]]
  /\ SaysAll(d, run'[d], Orphaned(up[d]))
  /\ letgo' = [letgo EXCEPT ![d] = [r \in Reason |-> NotLettingGo]]
  /\ \E heard \in SUBSET asks[d] : asks' = [asks EXCEPT ![d] = heard]
  /\ looking' = [looking EXCEPT ![d] = Orphaned(@)]
  /\ UNCHANGED <<holds, pending, served, link, changes>>

\* A connection, which supersedes one the bridge still has; what the bridge had
\* not read of that one is lost.
Connect(d) ==
  /\ ~link[d]
  /\ Open("late_hold") \/ looking[d] = <<>>
  /\ link' = [link EXCEPT ![d] = TRUE]
  /\ served' = [served EXCEPT ![d] = TRUE]
  /\ SaysAll(d, run[d], <<>>)
  /\ UNCHANGED <<holds, pending, looking, asks, run, letgo, changes, breaks>>

\* The bridge's process ends: holds, requests and logs are in its memory only.
BridgeRestart ==
  /\ Breaks
  /\ holds' = [s \in Session |-> Free]
  /\ pending' = [r \in Request |-> IF pending[r].outcome = "asked"
                                   THEN [pending[r] EXCEPT !.outcome = "lost"] ELSE pending[r]]
  /\ served' = [d \in Desktop |-> FALSE]
  /\ looking' = [d \in Desktop |-> <<>>]
  /\ up' = [d \in Desktop |-> <<>>]
  /\ asks' = [d \in Desktop |-> {}]
  /\ link' = [d \in Desktop |-> FALSE]
  /\ Fails(Desktop)
  /\ letgo' = [d \in Desktop |-> [r \in Reason |->
                 IF letgo[d][r].step = "stopping" THEN letgo[d][r] ELSE NotLettingGo]]
  /\ UNCHANGED <<run, changes>>
--------------------------------------------------------------------------------
WindowNext(d) ==
  \/ \E s \in Session, a \in Activity : Change(d, s, a)
  \/ \E k \in Slot : ReportGoes(d, k)
  \/ ConvergeGoes(d)
  \/ \E s \in Session : ContinueAsChat(d, s)
  \/ \E r \in Request : HandoffRequested(d, r)
  \/ \E r \in Reason : Stopped(d, r) \/ StopFails(d, r) \/ LetGo(d, r)

BridgeNext(d) ==
  \/ HoldCalled(d) \/ Held(d) \/ Released(d) \/ Listed(d) \/ Answered(d)
  \/ Noticed(d)

Next ==
  \/ \E d \in Desktop : WindowNext(d) \/ BridgeNext(d)
  \/ \E d \in Desktop : Drop(d) \/ Quit(d) \/ Reload(d) \/ Connect(d)
  \/ \E r \in Request, s \in Session : RequestHandoff(r, s)
  \/ \E r \in Request : TimesOut(r)
  \/ BridgeRestart

Spec == Init /\ [][Next]_vars

--------------------------------------------------------------------------------
(* Properties *)

Report == [phase : {"none", "holding", "releasing"}, wanted : [Session -> Activity],
           at : Session \cup {0}, rest : SUBSET Session, waits : BOOLEAN]
Outcome == {"none", "asked", "released", "busy", "unreachable", "notHeld", "lost"}

\* What the bridge keeps is of a desktop's session, and a request that is open was
\* asked of one; what a window has under way is of its own tabs.
TypeOK ==
  /\ holds \in [Session -> [client : Desktop \cup {NoOne}, busy : BOOLEAN]]
  /\ \A s \in Session : holds[s].client = NoOne => holds[s] = Free
  /\ pending \in [Request -> [s : Session \cup {0}, client : Desktop \cup {NoOne}, outcome : Outcome]]
  /\ \A r \in Request : pending[r].outcome = "asked" => pending[r].client \in Desktop
  /\ served \in [Desktop -> BOOLEAN] /\ link \in [Desktop -> BOOLEAN]
  /\ run \in [Desktop -> [Session -> Activity]]
  /\ sent \in [Desktop -> [Session -> Activity]]
  /\ report \in [Desktop -> [Slot -> Report]]
  /\ letgo \in [Desktop -> [Reason -> [step : {"no", "stopping", "waits", "goes"},
                                        s : Session \cup {0}]]]

\* A hold ends with the connection of the desktop that took it, so a session is
\* never kept from everyone by a desktop that is not there (releaseAll).
HoldsAreLive ==
  \A s \in Session : holds[s] # Free => served[holds[s].client]

\* Nobody waits for the answer of a desktop that is not there: it is told at once.
AskedAreThere ==
  \A r \in Request : pending[r].outcome = "asked" => served[pending[r].client]

\* Nothing of a window or of its calls is under way.
Quiet(d) ==
  /\ link[d] /\ up[d] = <<>> /\ looking[d] = <<>>
  /\ report[d] = [k \in Slot |-> NoReport]
  /\ conv[d] = NoConv
  /\ letgo[d] = [r \in Reason |-> NotLettingGo]

\* The bridge keeps for a desktop what its tabs run, and how.
Agrees(d) ==
  \A s \in Session :
    IF run[d][s] = "off" THEN holds[s].client # d
    ELSE holds[s] = [client |-> d, busy |-> run[d][s] = "working"]

\* A desktop that has nothing more to say has said it all: a session one of its
\* tabs runs is kept from other writers, one that none runs is free, whatever was
\* reported meanwhile, lost, superseded or forgotten by a reload.
Told == \A d \in Desktop : Quiet(d) => Agrees(d)

\* An asker is told that a session was released only when no hold would refuse the
\* turn it is about to send, and the terminal that had it runs it no more: unless
\* it started there since, which its desktop is about to say.
ReleasedIsFree ==
  [][\A r \in Request :
       LET s == pending[r].s
           d == pending[r].client
       IN pending'[r].outcome = "released" /\ pending[r].outcome # "released" =>
            /\ holds'[s] = Free
            /\ run[d][s] # "off" => ~link[d] \/ Concerns(up[d], s)]_vars
================================================================================
