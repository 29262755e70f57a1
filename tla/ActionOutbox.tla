------------------------------ MODULE ActionOutbox ------------------------------
(* What people decide about one conversation on phones that come and go, and   *)
(* how the bridge hears of it: sent at once, or kept in the phone's outbox and *)
(* sent late with its age before the bridge's state is read; requests that are *)
(* lost, time out, are sent again; phones that lose the link or are killed.    *)
(* Time is counted in decisions: one takes place at each moment.               *)
(* Left out: other PCs (out of reach, like a lost link), the PC's own name and *)
(* relay switch (kept and dated as the title and the status are), generated    *)
(* titles, failing database writes, answers later than 30 s on a working link. *)
EXTENDS Integers, Sequences, FiniteSets, FiniteSetsExt

CONSTANTS
  Phone,         \* paired phones
  Kind,          \* the kinds of what phones decide
  Desk,          \* who starts a turn on another client
  MaxDecisions,  \* a bound on what is decided, turns included
  MaxBreaks,     \* a bound on lost links and killed apps
  Windows        \* schedules left open, see Open

ASSUME OutboxAssumption ==
  /\ Desk \notin Phone
  /\ Kind \subseteq {"renameThread", "archiveThread", "unarchiveThread", "deleteThread"}
  /\ {MaxDecisions, MaxBreaks} \subseteq Nat

\* Schedules that are left out unless they are in Windows:
\*   late_arrival  something is decided while a request is on its way to the bridge
\*   behind_lost   something is decided out of reach while a request for the same,
\*                 sent before, has yet to time out
\*   same_title    a conversation is given a title it was given before
\*   killed        the app is killed while a decision sent at once has no answer
Open(w) == w \in Windows

VARIABLES
  taken,   \* everything decided so far, in order
  title,   \* the thread's title and decidedAt.title
  status,  \* its status and decidedAt.status
  active,  \* when a turn of it last started or ended
  there,   \* the bridge has the conversation
  link,    \* _phase is connected
  has,     \* the phone shows the conversation
  rows,    \* pending_actions, with their ids
  waits,   \* deliver calls waiting for an answer
  pass,    \* _syncing and _syncAgain: the pass under way
  net,     \* requests on their way
  ans,     \* answers to a phone's requests
  breaks

bridge == <<title, status, active, there>>
phone == <<link, has, rows, waits, pass>>
vars == <<taken, bridge, phone, net, ans, breaks>>

Filing == {"archiveThread", "unarchiveThread"}
Now == Len(taken)
Idle == [list |-> {}, again |-> FALSE, cut |-> FALSE]

\* PendingActionKind.supersedes
Supersedes(k) ==
  CASE k = "renameThread" -> {"renameThread"}
    [] k = "deleteThread" -> Kind
    [] OTHER -> Filing

Init ==
  /\ taken = <<>>
  /\ title = [by |-> 0, at |-> 0] /\ status = [by |-> 0, at |-> 0]
  /\ active = 0 /\ there = TRUE
  /\ link = [p \in Phone |-> FALSE]
  /\ has = [p \in Phone |-> TRUE]
  /\ rows = [p \in Phone |-> {}]
  /\ waits = [p \in Phone |-> {}]
  /\ pass = [p \in Phone |-> Idle]
  /\ net = [p \in Phone |-> <<>>]
  /\ ans = [p \in Phone |-> {}]
  /\ breaks = 0
--------------------------------------------------------------------------------
(* The phone *)

\* ageMs tells the time since d at the moment it is sent.
Request(d, late) == [d |-> d, late |-> late, age |-> IF late THEN Now - d ELSE 0]

\* SessionCoordinator.sendRequest
Send(p, m) == net' = [net EXCEPT ![p] = Append(@, m)]

\* A broken variant: a row is numbered by how many there are.
EnqueueCounted(r, d, k) ==
  LET rest == {e \in r : taken[e.d].kind \notin Supersedes(k)}
  IN rest \cup {[id |-> 1 + Cardinality(rest), d |-> d]}
\* enqueueAction: d, of kind k, into the rows r, for what it supersedes.
Enqueue(r, d, k) ==
  {e \in r : taken[e.d].kind \notin Supersedes(k)} \cup {[id |-> 1 + Max({0} \cup {e.id : e \in r}), d |-> d]}

\* Something is decided about the conversation, now, while it exists.
Decided(who, k, named) ==
  /\ Now < MaxDecisions /\ there
  /\ Open("late_arrival") \/ \A q \in Phone : net[q] = <<>>
  /\ taken' = Append(taken, [who |-> who, kind |-> k, named |-> named])

\* The title a rename gives: one of its own, or an earlier one.
Names(k) ==
  IF k # "renameThread" THEN {0}
  ELSE {Now + 1} \cup
       (IF Open("same_title") THEN {taken[d].named : d \in DOMAIN taken} \ {0} ELSE {})

\* ThreadManager._deliver and ActionOutbox.deliver
Act(p, k) ==
  LET d == Now + 1
  IN /\ has[p]
     /\ \E named \in Names(k) : Decided(p, k, named)
     /\ has' = [has EXCEPT ![p] = k # "deleteThread"]
     /\ \/ /\ link[p]
           /\ Send(p, Request(d, FALSE))
           /\ waits' = [waits EXCEPT ![p] = @ \cup {[d |-> d, cut |-> FALSE]}]
           /\ UNCHANGED rows
        \/ /\ ~link[p]
           /\ Open("behind_lost") \/
              \A w \in waits[p] : k \notin Supersedes(taken[w.d].kind)
           /\ rows' = [rows EXCEPT ![p] = Enqueue(@, d, k)]
           /\ UNCHANGED <<waits, net>>
     /\ UNCHANGED <<bridge, link, pass, ans, breaks>>

\* The answer to a deliver call, whatever it says.
Answered(p, d) ==
  /\ link[p] /\ [d |-> d, late |-> FALSE] \in ans[p]
  /\ ans' = [ans EXCEPT ![p] = @ \ {[d |-> d, late |-> FALSE]}]
  /\ waits' = [waits EXCEPT ![p] = {w \in @ : w.d # d}]
  /\ UNCHANGED <<taken, bridge, link, has, rows, pass, net, breaks>>

\* The bridge has yet to handle a request for d.
Travels(p, d) == \E i \in DOMAIN net[p] : net[p][i].d = d

\* RequestCorrelator: nobody answered in time, and the action is kept.
TimedOut(p) ==
  /\ \E w \in waits[p] :
       /\ w.cut /\ \A v \in waits[p] : w.d <= v.d
       /\ ~Travels(p, w.d)
       /\ waits' = [waits EXCEPT ![p] = @ \ {w}]
       /\ ans' = [ans EXCEPT ![p] = @ \ {[d |-> w.d, late |-> FALSE]}]
       /\ rows' = [rows EXCEPT ![p] = Enqueue(@, w.d, taken[w.d].kind)]
  /\ UNCHANGED <<taken, bridge, link, has, pass, net, breaks>>

\* The oldest of rows r.
Oldest(r) == {e \in r : \A f \in r : e.id <= f.id}

\* flush: the oldest of the rows r still to be sent goes with its age; with none
\* left, the pass goes on to sync/changes.
Flush(p, r, again) ==
  \/ /\ r = {}
     /\ pass' = [pass EXCEPT ![p] = Idle]
     /\ UNCHANGED net
  \/ \E e \in Oldest(r) :
       /\ Send(p, Request(e.d, TRUE))
       /\ pass' = [pass EXCEPT ![p] = [list |-> r, again |-> again, cut |-> FALSE]]

\* BridgeReplica.sync: a pass reads what is kept; one that is asked for while one
\* runs is folded into one more.
Sync(p) ==
  \/ /\ pass[p] = Idle
     /\ Flush(p, rows[p], FALSE)
  \/ /\ pass[p] # Idle
     /\ pass' = [pass EXCEPT ![p].again = TRUE]
     /\ UNCHANGED net

\* Anything that asks for a pass: the app resumed, a gap in the changes.
Asked(p) ==
  /\ link[p]
  /\ Sync(p)
  /\ UNCHANGED <<taken, bridge, link, has, rows, waits, ans, breaks>>

\* The bridge did it or refused it: its row goes, and the flush goes on. One more
\* pass follows the last when it was asked for.
Heard(p) ==
  /\ link[p]
  /\ \E e \in Oldest(pass[p].list) :
       LET rest == pass[p].list \ {e}
       IN /\ [d |-> e.d, late |-> TRUE] \in ans[p]
          /\ ans' = [ans EXCEPT ![p] = @ \ {[d |-> e.d, late |-> TRUE]}]
          /\ rows' = [rows EXCEPT ![p] = {f \in @ : f.d # e.d}]
          /\ IF rest = {} /\ pass[p].again
             THEN Flush(p, rows'[p], FALSE)
             ELSE Flush(p, rest, pass[p].again)
  /\ UNCHANGED <<taken, bridge, link, has, waits, breaks>>

\* A broken variant: _syncing is cleared only by a pass that came through.
FlushFailsOpen(p) ==
  /\ pass[p].cut
  /\ pass' = [pass EXCEPT ![p].cut = FALSE]
  /\ UNCHANGED <<taken, bridge, link, has, rows, waits, net, ans, breaks>>
\* Nobody answered the flush: the pass ends, with whatever was folded into it.
FlushFails(p) ==
  /\ pass[p].cut
  /\ \E e \in Oldest(pass[p].list) :
       /\ ~Travels(p, e.d)
       /\ ans' = [ans EXCEPT ![p] = @ \ {[d |-> e.d, late |-> TRUE]}]
  /\ pass' = [pass EXCEPT ![p] = Idle]
  /\ UNCHANGED <<taken, bridge, link, has, rows, waits, net, breaks>>

\* A change or an answer brings back what was deleted here and not at the bridge.
Learns(p) ==
  /\ link[p] /\ there /\ ~has[p]
  /\ has' = [has EXCEPT ![p] = TRUE]
  /\ UNCHANGED <<taken, bridge, link, rows, waits, pass, net, ans, breaks>>

Connect(p) ==
  /\ ~link[p]
  /\ link' = [link EXCEPT ![p] = TRUE]
  /\ Sync(p)
  /\ UNCHANGED <<taken, bridge, has, rows, waits, ans, breaks>>

Breaks(p) ==
  /\ breaks < MaxBreaks
  /\ breaks' = breaks + 1
  /\ link' = [link EXCEPT ![p] = FALSE]

\* The bridge got some of what is on its way, or none; what it answered may come
\* with the next connection, or not.
Drop(p) ==
  /\ link[p]
  /\ Breaks(p)
  /\ \E n \in 0..Len(net[p]) : net' = [net EXCEPT ![p] = SubSeq(@, 1, n)]
  /\ \E kept \in {ans[p], {}} : ans' = [ans EXCEPT ![p] = kept]
  /\ waits' = [waits EXCEPT ![p] = {[d |-> w.d, cut |-> TRUE] : w \in @}]
  /\ pass' = [pass EXCEPT ![p].cut = pass[p] # Idle]
  /\ UNCHANGED <<taken, bridge, has, rows>>

\* The app ends; what the bridge got of its requests it has handled.
Kill(p) ==
  /\ Open("killed") \/ waits[p] = {}
  /\ Breaks(p)
  /\ net' = [net EXCEPT ![p] = <<>>]
  /\ ans' = [ans EXCEPT ![p] = {}]
  /\ waits' = [waits EXCEPT ![p] = {}]
  /\ pass' = [pass EXCEPT ![p] = Idle]
  /\ UNCHANGED <<taken, bridge, has, rows>>
--------------------------------------------------------------------------------
(* The bridge *)

\* A broken variant: whatever is heard was decided now.
DecidedNow(m) == Now
\* decisionTime
DecidedAt(m) == IF m.late THEN Now - m.age ELSE Now

\* A broken variant: turns are forgotten.
LastNamed == Max({title.at, status.at})
\* lastDecision
LastDecision == Max({title.at, status.at, active})

\* renameThread, by hand
Rename(m, at) ==
  IF at < title.at \/ (title.by # 0 /\ taken[title.by].named = taken[m.d].named)
  THEN UNCHANGED bridge
  ELSE /\ title' = [by |-> m.d, at |-> at]
       /\ UNCHANGED <<status, active, there>>

\* #setStatus
SetStatus(m, at) ==
  IF at < status.at
  THEN UNCHANGED bridge
  ELSE /\ status' = [by |-> m.d, at |-> at]
       /\ UNCHANGED <<title, active, there>>

\* deleteThread: only one sent late has a date.
Delete(m, at) ==
  IF m.late /\ at < LastDecision
  THEN UNCHANGED bridge
  ELSE /\ there' = FALSE
       /\ UNCHANGED <<title, status, active>>

\* The handler of the request at the head, and its answer; a conversation that is
\* gone refuses everything.
Handle(p) ==
  /\ net[p] # <<>>
  /\ net' = [net EXCEPT ![p] = Tail(@)]
  /\ LET m == Head(net[p]) at == DecidedAt(m) k == taken[m.d].kind
     IN /\ ans' = [ans EXCEPT ![p] = @ \cup {[d |-> m.d, late |-> m.late]}]
        /\ \/ ~there /\ UNCHANGED bridge
           \/ there /\ k = "renameThread" /\ Rename(m, at)
           \/ there /\ k \in Filing /\ SetStatus(m, at)
           \/ there /\ k = "deleteThread" /\ Delete(m, at)
  /\ UNCHANGED <<taken, phone, breaks>>

\* A turn starts or ends, on another client.
StartTurn ==
  /\ Decided(Desk, "turn", 0)
  /\ active' = Now + 1
  /\ UNCHANGED <<title, status, there, phone, net, ans, breaks>>
--------------------------------------------------------------------------------
PhoneNext(p) ==
  \/ \E k \in Kind : Act(p, k)
  \/ \E d \in DOMAIN taken : Answered(p, d)
  \/ TimedOut(p) \/ Asked(p) \/ Heard(p) \/ FlushFails(p)
  \/ Learns(p) \/ Connect(p) \/ Drop(p) \/ Kill(p)

Next == StartTurn \/ \E p \in Phone : PhoneNext(p) \/ Handle(p)

\* What the bridge, the link and the timers bring about by themselves.
Goes(p) ==
  Handle(p) \/ (\E d \in DOMAIN taken : Answered(p, d)) \/ TimedOut(p)
    \/ Heard(p) \/ FlushFails(p) \/ Connect(p)

\* The PC is in reach sooner or later, a request or an answer on a link that stays
\* comes through, and a timer fires. Nothing is sure to ask for a pass but a new
\* connection: nobody need resume the app, and no change need come.
Fairness == WF_vars(\E p \in Phone : Goes(p))

Spec == Init /\ [][Next]_vars /\ Fairness
--------------------------------------------------------------------------------
(* Properties *)

\* What is kept, sent and waited for are decisions of that phone, each once in
\* the outbox, and a flush waits for an answer only to something it read.
TypeOK ==
  /\ \A p \in Phone :
       /\ \A e \in rows[p] : taken[e.d].who = p
       /\ \A e, f \in rows[p] : e.d = f.d \/ e.id = f.id => e = f
       /\ \A w \in waits[p] : taken[w.d].who = p
       /\ \A i \in DOMAIN net[p] : taken[net[p][i].d].who = p
       /\ pass[p].again \/ pass[p].cut => pass[p].list # {}
  /\ {title.by, title.at, status.by, status.at, active} \subseteq 0..Now
  /\ breaks \in 0..MaxBreaks

\* d is kept, on its way or waited for.
Carried(d) ==
  \E p \in Phone :
    \/ \E e \in rows[p] : e.d = d
    \/ \E w \in waits[p] : w.d = d
    \/ Travels(p, d)

\* d is the last of the decisions of kinds K, and its phone deleted nothing later.
Latest(K, d) ==
  /\ taken[d].kind \in K
  /\ \A e \in DOMAIN taken : e > d =>
       taken[e].kind \notin K /\ ~(taken[e].kind = "deleteThread" /\ taken[e].who = taken[d].who)

\* The bridge has heard of something decided after d.
Outdone(d) == \E e \in {title.by, status.by, active} : e > d

\* ActionOutbox: the latest action wins, whichever phone took it. Until the bridge
\* has it, it is still kept or on its way, and so is a deletion that nothing later
\* outdoes: lost requests, lost answers, actions sent twice and flushed late never
\* leave an older one in its place.
LatestWins ==
  there =>
    \A d \in DOMAIN taken :
      /\ Latest({"renameThread"}, d) =>
           Carried(d) \/ (title.by # 0 /\ taken[title.by].named = taken[d].named)
      /\ Latest(Filing, d) => Carried(d) \/ status.by = d
      /\ Latest({"deleteThread"}, d) => Carried(d) \/ Outdone(d)

\* deleteThread: nobody deletes work they had not seen. The conversation goes only
\* by a deletion decided after every turn and decision the bridge has heard.
DeletesWhatWasSeen ==
  [][there /\ ~there' =>
       \E p \in Phone :
         /\ net[p] # <<>> /\ net'[p] = Tail(net[p])
         /\ taken[Head(net[p]).d].kind = "deleteThread"
         /\ ~Outdone(Head(net[p]).d)]_vars

\* The phone is connected again while its last pass still waits for an answer that
\* was lost: the pass this connection asked for is folded into one that fails, and
\* BridgeReplica lets both go.
Folded(p) == link[p] /\ pass[p].cut

Keeps(p, d) == \E e \in rows[p] : e.d = d

\* ActionOutbox.flush: what a phone keeps while its PC is out of reach is sent, or
\* gives way to a later action, by the passes its connections start and nothing
\* else: whatever is lost, times out or is decided meanwhile, and in whichever pass
\* it is read. Only a connection that comes before its last pass has timed out may
\* leave it where it is.
KeptIsSent ==
  \A d \in 1..MaxDecisions :
    (\E p \in Phone : Keeps(p, d) /\ ~link[p]) ~> (\A p \in Phone : Keeps(p, d) => Folded(p))
================================================================================
