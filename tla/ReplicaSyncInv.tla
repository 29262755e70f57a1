----------------------------- MODULE ReplicaSyncInv -----------------------------
(* The inductive invariant behind ReplicaSync's cursor: whatever it covers, the *)
(* phone has.                                                                  *)
(*                                                                             *)
(* It follows a revision on its way: news waits, is on the link, is written;   *)
(* an answer stands, is on the link, is applied; and what is covered is at     *)
(* each station what the bridge has, or may have after a crash (Truths), or    *)
(* has changed since.                                                          *)
EXTENDS ReplicaSync, BridgeStoreInv

\* The schedules on which the cursor is sound.
CursorSchedules == Windows \subseteq {"stale_compare"}

Ours(c) == c.store = led.store
--------------------------------------------------------------------------------
(* News *)

OnLink == {link[i] : i \in DOMAIN link} \cap News
DueOf(s) == {due[s][i] : i \in DOMAIN due[s]}
Due == UNION {DueOf(s) : s \in Store}
Flushed == OnLink \cup Due
Heard == Flushed \cup UNION {NewsOf(s) : s \in Store}

\* The last change of what truth w is about may be newer than c; and what is
\* announced under the revision it may have is that change.
After(w, c) == \E r \in w.dates :
  r > c /\ \A n \in Heard : n.rev = r => n.id = w.on /\ Value(n) = w.is

(* News is announced once, in the order of its store's changes, no later than  *)
(* what the ledger on disk has; and what is due is what the bridge has.        *)
Distinct == \A n, m \in Heard : n.rev = m.rev => n = m

Settled(n) ==
  /\ n.rev > 0 /\ n.rev <= savedLed.rev
  /\ \A m \in NewsOf(StoreOf(n.id)) : n.rev < m.rev
  /\ \A w \in Truths({}) : w.on = n.id => After(w, n.rev - 1)

DueSays == \A s \in Store : \A n \in DueOf(s) : StoreOf(n.id) = s /\ ents[n.id] = Value(n)

NewsInv ==
  /\ Distinct
  /\ \A n \in Flushed : Settled(n)
  /\ DueSays
--------------------------------------------------------------------------------
(* Statements waiting for the database *)

LastOp(q) == q[Len(q)]
IsNewsJob(q) == /\ LastOp(q).kind = "write"
                /\ Len(q) = 1 \/ (Len(q) = 2 /\ q[1].kind = "save")
IsAnswerJob(q) == /\ LastOp(q).kind = "save"
                  /\ \A k \in 1 .. Len(q) - 1 : q[k].kind = "write"

Touches(op, e) == op.kind = "write" /\ (e \in op.drop \/ op.put[e] # Absent)
Brought(op, e) == IF e \in op.drop THEN Absent ELSE op.put[e]

(* Each caller writes a notification or the one answer.                        *)
JobsInv ==
  /\ \A i \in DOMAIN jobs : IsNewsJob(jobs[i]) \/ IsAnswerJob(jobs[i])
  /\ \A i, j \in DOMAIN jobs : IsAnswerJob(jobs[i]) /\ IsAnswerJob(jobs[j]) => i = j
  /\ (\E i \in DOMAIN jobs : IsAnswerJob(jobs[i])) => syncPc = "applying"

(* There is one request at a time, and so one answer on its way.               *)
OneAnswer ==
  /\ \A i, j \in DOMAIN link : link[i] \in Answer /\ link[j] \in Answer => i = j
  /\ (\E i \in DOMAIN link : link[i] \in Answer) => syncPc = "returning"

\* The notifications being written that say something of e, and those of them
\* that say anything but v.
NewsOn(e) == {i \in DOMAIN jobs : IsNewsJob(jobs[i]) /\ Touches(LastOp(jobs[i]), e)}
Wrong(e, v) == {i \in NewsOn(e) : Brought(LastOp(jobs[i]), e) # v}
\* Of two notifications being written, which is written last: one that has not
\* saved its cursor yet, then the one that waits further back.
Later(i, j) == Len(jobs[j]) < Len(jobs[i]) \/ (Len(jobs[j]) = Len(jobs[i]) /\ j < i)

\* Once every notification that waits is written, e is v.
Kept(e, v) ==
  \/ replica[e] = v /\ Wrong(e, v) = {}
  \/ \E i \in NewsOn(e) \ Wrong(e, v) : \A j \in Wrong(e, v) : Later(i, j)

\* e is v, or becomes v, and no statement that waits says otherwise.
Right(e, v) ==
  /\ \A i \in DOMAIN jobs : \A k \in DOMAIN jobs[i] :
       Touches(jobs[i][k], e) => Brought(jobs[i][k], e) = v
  /\ replica[e] = v \/ \E i \in DOMAIN jobs : \E k \in DOMAIN jobs[i] : Touches(jobs[i][k], e)
--------------------------------------------------------------------------------
(* The cursor *)

\* The cursors a waiting statement saves: of a notification, one the phone has
\* in memory or has passed; of an answer, the one the phone will have.
SavesInv == \A i \in DOMAIN jobs : \A k \in DOMAIN jobs[i] : jobs[i][k].kind = "save" =>
  LET c == jobs[i][k].cur
  IN IF IsAnswerJob(jobs[i]) /\ Len(jobs[i]) > 1
       THEN /\ cursor.store <= c.store /\ c.store <= led.store
            /\ c.store = cursor.store => cursor.rev <= c.rev
       ELSE /\ c.store <= cursor.store
            /\ c.store = cursor.store => c.rev <= cursor.rev

(* What the cursor covers is in the replica once the news that waits is        *)
(* written.                                                                    *)
CursorInv ==
  /\ cursor.store <= led.store /\ savedCursor.store <= cursor.store
  /\ savedCursor.store = cursor.store => savedCursor.rev <= cursor.rev
  /\ Ours(cursor) =>
       /\ Taken(cursor.rev, openRead)
       /\ \A w \in Truths(openRead) : After(w, cursor.rev) \/ Kept(w.on, w.is)
--------------------------------------------------------------------------------
(* An answer *)

\* News n, heard after an answer that stands at c, is not older than it.
Behind(n, c) == \A w \in Truths(openRead) : w.on = n.id => After(w, c) \/ Value(n) = w.is

\* Being applied: what it covers is in the replica or in a statement that waits,
\* and no statement says otherwise, nor will one of the news behind it.
ApplyInv == \A i \in DOMAIN jobs :
  IsAnswerJob(jobs[i]) /\ Len(jobs[i]) > 1 /\ Ours(LastOp(jobs[i]).cur) =>
    LET c == LastOp(jobs[i]).cur.rev
    IN /\ Taken(c, openRead)
       /\ \A w \in Truths(openRead) : After(w, c) \/ Right(w.on, w.is)
       /\ \A n \in OnLink : Behind(n, c)

\* What answer a says of e, and what it says it is.
Reads(a, e) == a.put[e] # Absent \/ e \in a.drop \/ a.reset
ReadAs(a, e) == IF e \in a.drop THEN Absent ELSE a.put[e]

\* On its way: it brings what has changed since the request's cursor, and of
\* what it leaves out no news is to come.
Brings(a, e, v) ==
  IF Reads(a, e) THEN ReadAs(a, e) = v
  ELSE Kept(e, v) /\ \A n \in Heard : n.id = e => n.rev <= asked.rev \/ n.rev > a.rev

AnswerInv(a, S) ==
  /\ a.store = led.store /\ Taken(a.rev, S)
  /\ ~a.reset => Ours(cursor) /\ asked.rev <= cursor.rev
  /\ Ours(cursor) => cursor.rev <= a.rev
  /\ \A w \in Truths(S) : After(w, a.rev) \/ Brings(a, w.on, w.is)
  /\ \A e \in a.drop : a.put[e] = Absent

LinkInv == \A i \in DOMAIN link : link[i] \in Answer =>
  /\ AnswerInv(link[i], openRead)
  /\ \A j \in DOMAIN link : j < i => link[j].rev <= link[i].rev
  /\ \A j \in DOMAIN link : j > i => Behind(link[j], link[i].rev)

ReadyInv == syncPc = "answered" =>
  /\ AnswerInv(answer, openRead \cup ReadOver(answer.rev))
  /\ \A n \in OnLink : n.rev <= answer.rev

AskedInv ==
  /\ syncPc \in {"requested", "listed"} => asked.store = cursor.store /\ asked.rev <= cursor.rev
  /\ syncPc = "listed" =>
       /\ listed.reset = NeedsReset(asked.store, asked.rev)
       /\ listed.put = Only(ChangedSince(Thread, IF listed.reset THEN 0 ELSE asked.rev), ents)

(* The inductive invariant.                                                    *)
IInv ==
  /\ TypeOK
  /\ BridgeInv
  /\ NewsInv
  /\ JobsInv
  /\ OneAnswer
  /\ SavesInv
  /\ CursorInv
  /\ ApplyInv
  /\ LinkInv
  /\ ReadyInv
  /\ AskedInv
================================================================================
