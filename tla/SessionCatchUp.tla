---------------------------- MODULE SessionCatchUp -----------------------------
(* The session between one phone and one run of its bridge, across the         *)
(* connections that carry it: OutboundLog, SessionRegistry and session-handler *)
(* on the bridge; SessionCoordinator and SecureChannel on the phone.           *)
(*                                                                             *)
(* Every message of the bridge takes the next number of the phone's outbound   *)
(* log, which outlives the connections and keeps the latest ones.  A phone     *)
(* that connects says the highest number it has applied, and the bridge        *)
(* replays what it keeps beyond it before anything new.  A number is never     *)
(* acknowledged: the phone refuses numbers at or below the last it applied on  *)
(* the connection, and whatever it jumps over is gone.                         *)
EXTENDS Integers, Sequences, FiniteSetsExt

CONSTANTS
  MaxSeq,     \* bound: messages the bridge sends
  MaxWindow,  \* MAX_BRIDGE_OUTBOUND_MESSAGES
  MaxConn,    \* bound: connections the phone dials
  Windows     \* the schedules the run lets happen, of those named below

ASSUME CatchUpAssumption ==
  /\ MaxSeq \in Nat \ {0} /\ MaxWindow \in Nat \ {0} /\ MaxConn \in Nat \ {0}
  /\ Windows \subseteq {"late_response", "queued_frame", "switched_pc", "behind_ready"}

Conn == 1 .. MaxConn
None == 0
Seq1 == 1 .. MaxSeq
Ready == 0  \* the frame that ends the handshake, on a wire of numbers

VARIABLES
  next,     \* #nextSeq
  oldest,   \* oldestSeq: the log keeps oldest .. next - 1
  sink,     \* the connection #sinks has for the phone, or None
  side,     \* the bridge's handler of each connection
  busy,     \* the handler is at router.dispatchRaw
  hello,    \* the resumeState of each clientHello whose handshake runs
  up,       \* what either end sends on the connection reaches the other
  wire,     \* frames on their way to the phone
  live,     \* the connection of _channel and _transport, or None
  dial,     \* the connection being opened, or None
  last,     \* _lastInboundSeq of each connection's channel
  inbound,  \* _inbound: frames queued with the channel they arrived on
  resume,   \* lastAppliedBridgeOutboundSeq of _activeMac
  saved,    \* lastAppliedBridgeOutboundSeq in the phone's database
  applied,  \* history: what was ever handed to the app
  got       \* history: what it was handed since the app started, in order

bridge == <<next, oldest, sink, side, busy>>
phone == <<live, dial, last, inbound, resume, saved>>
history == <<applied, got>>
vars == <<bridge, hello, up, wire, phone, history>>

Retained == oldest .. next - 1

Init ==
  /\ next = 1 /\ oldest = 1
  /\ sink = None
  /\ side = [c \in Conn |-> "none"]
  /\ busy = [c \in Conn |-> FALSE]
  /\ hello = [c \in Conn |-> 0]
  /\ up = [c \in Conn |-> FALSE]
  /\ wire = [c \in Conn |-> <<>>]
  /\ live = None /\ dial = None
  /\ last = [c \in Conn |-> 0]
  /\ inbound = <<>>
  /\ resume = 0 /\ saved = 0
  /\ applied = {} /\ got = <<>>
--------------------------------------------------------------------------------
(* The bridge *)

\* A broken variant: the byte cap may take the message just recorded.
RecordThenEvict ==
  /\ next <= MaxSeq
  /\ next' = next + 1
  /\ oldest' \in Max({oldest, next' - MaxWindow}) .. next'
\* record: the next number, and the window cut at its caps.  The byte cap may
\* cut it anywhere, but never takes the message just recorded.
Record ==
  /\ next <= MaxSeq
  /\ next' = next + 1
  /\ oldest' \in Max({oldest, next' - MaxWindow}) .. next

\* A broken variant: the first message the phone lacks is left out.
EntriesBeyond(seq) ==
  LET from == Max({oldest, seq + 2})
  IN  [i \in 1 .. next - from |-> from + i - 1]
\* entriesAfter
EntriesAfter(seq) ==
  LET from == Max({oldest, seq + 1})
  IN  [i \in 1 .. next - from |-> from + i - 1]

\* A frame put on connection c; a connection that is gone swallows it.
Carry(c, frames) ==
  wire' = IF c # None /\ up[c] THEN [wire EXCEPT ![c] = @ \o frames] ELSE wire

\* close() of connection c, if there is one: what was sent still arrives.
Closing(c) == [d \in Conn |-> up[d] /\ d # c]

\* SessionRegistry.notify
Notify ==
  /\ Record
  /\ Carry(sink, <<next>>)
  /\ UNCHANGED <<sink, side, busy, hello, up, phone, history>>

\* A broken variant: nothing is replayed.
AcceptLiveOnly(c) ==
  /\ side[c] = "hello"
  /\ Carry(c, <<Ready>>)
  /\ side' = [side EXCEPT ![c] = "serving"]
  /\ sink' = c
  /\ up' = Closing(sink)
  /\ hello' = [hello EXCEPT ![c] = 0]
  /\ UNCHANGED <<next, oldest, busy, phone, history>>
\* The handshake done: ready, the replay and the registration are one step.
\* The phone may have given the connection up meanwhile.
Accept(c) ==
  /\ side[c] = "hello"
  /\ Carry(c, <<Ready>> \o EntriesAfter(hello[c]))
  /\ side' = [side EXCEPT ![c] = "serving"]
  /\ sink' = c
  /\ up' = Closing(sink)
  /\ hello' = [hello EXCEPT ![c] = 0]
  /\ UNCHANGED <<next, oldest, busy, phone, history>>

Request(c) ==
  /\ side[c] = "serving" /\ ~busy[c]
  /\ live = c /\ up[c]
  /\ busy' = [busy EXCEPT ![c] = TRUE]
  /\ UNCHANGED <<next, oldest, sink, side, hello, up, wire, phone, history>>

\* The answer is recorded for the phone, and sent on the connection that asked.
\* late_response: another connection of the phone is registered by then.
Respond(c) ==
  /\ busy[c]
  /\ "late_response" \in Windows \/ sink \in {c, None}
  /\ Record
  /\ Carry(c, <<next>>)
  /\ busy' = [busy EXCEPT ![c] = FALSE]
  /\ UNCHANGED <<sink, side, hello, up, phone, history>>

\* A broken variant: whoever ends takes the sink with it.
TeardownAny(c) ==
  /\ side[c] \in {"hello", "serving"}
  /\ ~up[c] /\ ~busy[c]
  /\ side' = [side EXCEPT ![c] = "over"]
  /\ sink' = None
  /\ hello' = [hello EXCEPT ![c] = 0]
  /\ UNCHANGED <<next, oldest, busy, up, wire, phone, history>>
\* The handler learns that its connection is gone, once it is not answering.
Teardown(c) ==
  /\ side[c] \in {"hello", "serving"}
  /\ ~up[c] /\ ~busy[c]
  /\ side' = [side EXCEPT ![c] = "over"]
  /\ sink' = IF sink = c THEN None ELSE sink
  /\ hello' = [hello EXCEPT ![c] = 0]
  /\ UNCHANGED <<next, oldest, busy, up, wire, phone, history>>

\* The connection ends on its own: the bridge closes it, silent for too long,
\* and all it carries arrives; or the network goes, and only some of it does.
Break(c) ==
  /\ up[c]
  /\ up' = Closing(c)
  /\ \E n \in 0 .. Len(wire[c]) : wire' = [wire EXCEPT ![c] = SubSeq(@, 1, n)]
  /\ UNCHANGED <<bridge, hello, phone, history>>
--------------------------------------------------------------------------------
(* The phone *)

\* The highest number the phone knows it applied: _persistBridgeSeq.
Counted == IF live = None THEN resume ELSE Max({resume, last[live]})

\* What a channel starts from: nothing, or, taking over from a live one, what
\* that one has delivered (skipInboundThrough).
SkipThrough == IF live = None THEN 0 ELSE last[live]

\* disconnect() of connections D: nothing of theirs is read any more.
LetGo(D) ==
  /\ up' = [c \in Conn |-> up[c] /\ c \notin D]
  /\ wire' = [c \in Conn |-> IF c \in D THEN <<>> ELSE wire[c]]

\* Opens a connection: to reconnect, or beside a live one through the relay to
\* leave it for a direct host, after _persistBridgeSeq.
Dial(c) ==
  /\ dial = None
  /\ side[c] = "none" /\ \A d \in 1 .. c - 1 : side[d] # "none"
  /\ resume' = Counted
  /\ hello' = [hello EXCEPT ![c] = resume']
  /\ side' = [side EXCEPT ![c] = "hello"]
  /\ up' = [up EXCEPT ![c] = TRUE]
  /\ dial' = c
  /\ UNCHANGED <<next, oldest, sink, busy, wire, live, last, inbound, saved, history>>

\* The handshake fails or takes too long.
GiveUp ==
  /\ dial # None
  /\ LetGo({dial})
  /\ dial' = None
  /\ UNCHANGED <<bridge, hello, live, last, inbound, resume, saved, history>>

\* The new connection becomes the live one, and the one it replaces is let go.
\* queued_frame: frames of the old connection wait to be decrypted.
\* behind_ready: frames that arrived with ready go with the handshake's queue.
Commit ==
  /\ dial # None
  /\ wire[dial] # <<>>
  /\ "queued_frame" \in Windows \/ inbound = <<>>
  /\ \E n \in IF "behind_ready" \in Windows THEN 0 .. Len(wire[dial]) - 1 ELSE {0} :
       wire' = [c \in Conn |-> CASE c = dial -> SubSeq(wire[c], n + 2, Len(wire[c]))
                                 [] c = live -> <<>>
                                 [] OTHER    -> wire[c]]
  /\ up' = Closing(live)
  /\ last' = [last EXCEPT ![dial] = SkipThrough]
  /\ live' = dial
  /\ dial' = None
  /\ UNCHANGED <<bridge, hello, inbound, resume, saved, history>>

\* _handleRaw
Receive ==
  /\ live # None /\ wire[live] # <<>>
  /\ inbound' = Append(inbound, [conn |-> live, seq |-> Head(wire[live])])
  /\ wire' = [wire EXCEPT ![live] = Tail(@)]
  /\ UNCHANGED <<bridge, hello, up, live, dial, last, resume, saved, history>>

\* A broken variant: only the very next number is taken.
DecryptContiguous ==
  /\ inbound # <<>>
  /\ LET f == Head(inbound) IN
       IF f.seq = last[f.conn] + 1
         THEN /\ last' = [last EXCEPT ![f.conn] = f.seq]
              /\ applied' = applied \cup {f.seq}
              /\ got' = Append(got, f.seq)
         ELSE UNCHANGED <<last, history>>
  /\ inbound' = Tail(inbound)
  /\ UNCHANGED <<bridge, hello, up, wire, live, dial, resume, saved>>
\* A broken variant: the number the channel stands at is taken once more.
DecryptAgain ==
  /\ inbound # <<>>
  /\ LET f == Head(inbound) IN
       IF f.seq >= last[f.conn]
         THEN /\ last' = [last EXCEPT ![f.conn] = f.seq]
              /\ applied' = applied \cup {f.seq}
              /\ got' = Append(got, f.seq)
         ELSE UNCHANGED <<last, history>>
  /\ inbound' = Tail(inbound)
  /\ UNCHANGED <<bridge, hello, up, wire, live, dial, resume, saved>>
\* _receive: a number the channel has passed is dropped as a replay.
Decrypt ==
  /\ inbound # <<>>
  /\ LET f == Head(inbound) IN
       IF f.seq > last[f.conn]
         THEN /\ last' = [last EXCEPT ![f.conn] = f.seq]
              /\ applied' = applied \cup {f.seq}
              /\ got' = Append(got, f.seq)
         ELSE UNCHANGED <<last, history>>
  /\ inbound' = Tail(inbound)
  /\ UNCHANGED <<bridge, hello, up, wire, live, dial, resume, saved>>

\* The heartbeat's _persistBridgeSeq.
Checkpoint ==
  /\ resume < Counted
  /\ resume' = Counted
  /\ UNCHANGED <<bridge, hello, up, wire, live, dial, last, inbound, saved, history>>

\* recordBridgeOutboundSeq
Save ==
  /\ saved < resume
  /\ saved' = resume
  /\ UNCHANGED <<bridge, hello, up, wire, live, dial, last, inbound, resume, history>>

\* The live connection is dropped: its socket closed, a heartbeat got no
\* answer, or the user disconnected.  A connection being opened beside it is
\* given up too.  queued_frame: as in Commit.
Drop ==
  /\ live # None
  /\ "queued_frame" \in Windows \/ inbound = <<>>
  /\ resume' = Counted
  /\ LetGo({live, dial})
  /\ live' = None /\ dial' = None
  /\ UNCHANGED <<bridge, hello, last, inbound, saved, history>>

\* The phone connects to another PC, which lets this session go as Commit lets
\* go of the one it replaces, and comes back to it with what the database has.
\* switched_pc: something was applied since the last checkpoint.
SwitchAway ==
  /\ live # None /\ dial = None
  /\ saved = resume
  /\ "switched_pc" \in Windows \/ (inbound = <<>> /\ Counted = saved)
  /\ LetGo({live})
  /\ live' = None
  /\ UNCHANGED <<bridge, hello, dial, last, inbound, resume, saved, history>>

\* The system kills the app, and it starts again.
Kill ==
  /\ LetGo({live, dial})
  /\ live' = None /\ dial' = None
  /\ inbound' = <<>>
  /\ resume' = saved
  /\ got' = <<>>
  /\ UNCHANGED <<bridge, hello, last, saved, applied>>
--------------------------------------------------------------------------------
BridgeNext ==
  Notify \/ \E c \in Conn : Accept(c) \/ Request(c) \/ Respond(c) \/ Teardown(c) \/ Break(c)

PhoneNext ==
  \/ \E c \in Conn : Dial(c)
  \/ GiveUp \/ Commit \/ Receive \/ Decrypt
  \/ Checkpoint \/ Save \/ Drop \/ SwitchAway \/ Kill

Next == BridgeNext \/ PhoneNext

\* The phone reads what reached it, and works off what it read.
Fairness == WF_vars(Receive) /\ WF_vars(Decrypt)

Spec == Init /\ [][Next]_vars
FairSpec == Spec /\ Fairness
--------------------------------------------------------------------------------
(* Properties *)

\* Every variable has its type; the log keeps at most its window and at least
\* the latest message.
TypeOK ==
  /\ next \in 1 .. MaxSeq + 1 /\ oldest \in 1 .. next
  /\ next - oldest <= MaxWindow /\ (next > 1 => oldest < next)
  /\ sink \in Conn \cup {None}
  /\ side \in [Conn -> {"none", "hello", "serving", "over"}]
  /\ busy \in [Conn -> BOOLEAN] /\ up \in [Conn -> BOOLEAN]
  /\ hello \in [Conn -> 0 .. MaxSeq] /\ last \in [Conn -> 0 .. MaxSeq]
  /\ \A c \in Conn : wire[c] \in Seq(0 .. MaxSeq)
  /\ live \in Conn \cup {None} /\ dial \in Conn \cup {None}
  /\ inbound \in Seq([conn : Conn, seq : Seq1])
  /\ resume \in 0 .. MaxSeq /\ saved \in 0 .. resume
  /\ applied \subseteq Seq1 /\ got \in Seq(Seq1)

\* A number the phone counts as applied, in memory, on the live channel or in
\* its database, is that of a message it was handed, or of one the bridge no
\* longer keeps: nothing the bridge could still give is passed over for good.
\* (entriesAfter, skipInboundThrough, _persistBridgeSeq)
NothingSkipped ==
  \A k \in Retained : k <= Counted => k \in applied

\* While the app runs, it is handed messages in the order of their numbers and
\* none of them twice, over however many connections.  (session-handler's
\* replay before registering; decrypt's strictly increasing sequence)
AppliedInOrder == \A i, j \in DOMAIN got : i < j => got[i] < got[j]

\* A connection the bridge serves and that works is the one notifications go
\* to: a stale connection's end never takes the sink of its successor.
\* (SessionRegistry.register and unregister)
SinkServes ==
  /\ \A c \in Conn : side[c] = "serving" /\ up[c] => sink = c
  /\ sink # None => side[sink] = "serving"

\* A phone whose connection stays up is handed everything the bridge keeps,
\* whatever was lost before it.
Delivered ==
  (\E c \in Conn : <>[](live = c /\ up[c])) => <>[](Retained \subseteq applied)

\* The session keeps the promise of Delivery.
Promise == INSTANCE Delivery WITH sent <- next - 1, kept <- oldest, got <- applied
ImplementsDelivery == Promise!Spec
================================================================================
