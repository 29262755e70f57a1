------------------------------- MODULE RelayRoom -------------------------------
(* One room of the relay: the bridge's control sockets, its phones, and the    *)
(* channel the bridge opens for each phone it is told of.  A frame that asks   *)
(* for a signature to be verified is answered some time later; closes, frames  *)
(* and the alarm come in between.  What the room knows of a socket is in its   *)
(* attachment, so an eviction of the object changes nothing.                   *)
(* Keys, tickets and what forwarded frames contain are left out: whether a     *)
(* signature or a key is accepted is a choice.                                 *)
(* A socket sends one auth frame: the room sends it one challenge, which the   *)
(* bridge (relay-host.ts:265-282) and the app (relay_client.dart:98-135)       *)
(* answer once.  Until the first is verified the room would take a second      *)
(* (room.ts:129-137).                                                          *)
EXTENDS Integers, FiniteSets

CONSTANTS
  Channel,    \* a phone's connection, and the channel opened for it
  Host,       \* the control sockets the bridge opens, one after another
  AuthTicks,  \* RELAY_AUTH_TIMEOUT_MS
  DialTicks,  \* RELAY_DIAL_TIMEOUT_MS
  MaxSockets, \* RELAY_MAX_SOCKETS
  MaxPhones   \* RELAY_MAX_PHONE_CONNECTIONS

ASSUME RelayAssumption ==
  /\ AuthTicks \in Nat \ {0} /\ DialTicks \in Nat \ {0}
  /\ MaxSockets \in Nat /\ MaxPhones \in Nat

Socket == [route : {"phone", "channel"}, id : Channel] \cup [route : {"host"}, id : Host]
HostSocket == [route : {"host"}, id : Host]

PhoneOf(c) == [route |-> "phone", id |-> c]
ChannelOf(c) == [route |-> "channel", id |-> c]
HostOf(h) == [route |-> "host", id |-> h]

None == -1

VARIABLES
  conn,      \* each socket, as the relay's runtime has it
  step,      \* how far its attachment says it got
  deadline,  \* its attachment's deadline, in ticks from now, or None; kept while
             \* the socket is open, as nobody asks for it afterwards
  alarm,     \* the room's alarm, in ticks from now, or None
  dials,     \* dial frames on their way to the bridge, with the socket they are on
  opening,   \* channels the bridge is opening
  control,   \* the bridge's #control, or None
  listening  \* its listener for dials is on that socket

room == <<conn, step, deadline, alarm>>
bridge == <<dials, opening, control, listening>>
vars == <<room, bridge>>

Init ==
  /\ conn = [s \in Socket |-> "none"]
  /\ step = [s \in Socket |-> "new"]
  /\ deadline = [s \in Socket |-> None]
  /\ alarm = None
  /\ dials = {} /\ opening = {}
  /\ control = None /\ listening = FALSE
--------------------------------------------------------------------------------
\* close(): a socket already closing keeps the close it started.
Closing(S) == [s \in Socket |-> IF s \in S /\ conn[s] = "open" THEN "closing" ELSE conn[s]]

\* The deadlines d, of the sockets that are open in c.
Kept(d, c) == [s \in Socket |-> IF c[s] = "open" THEN d[s] ELSE None]

\* The other half of a phone or channel (#dropPeer's peerTag).
Peers(s) ==
  {u \in Socket : u.id = s.id /\ u.route # s.route /\ "host" \notin {u.route, s.route}}

\* #scheduleAlarm, with the deadlines at d, over alarm a.
Schedule(d, a) ==
  LET due == {d[s] : s \in Socket} \ {None}
  IN IF due = {}
     THEN alarm' = a
     ELSE \E first \in due :
            /\ \A x \in due : first <= x
            /\ alarm' = IF a = None \/ first < a THEN first ELSE a

\* An authenticated, open control socket.
IsHost(s) == s.route = "host" /\ conn[s] = "open" /\ step[s] = "authed"

\* getWebSockets
Sockets == {s \in Socket : conn[s] \in {"open", "closing"}}
Phones == {s \in Sockets : s.route = "phone"}

\* A socket is accepted.
Opened(s) ==
  /\ conn[s] = "none"
  /\ Cardinality(Sockets) < MaxSockets
  /\ conn' = [conn EXCEPT ![s] = "open"]
  /\ deadline' = [deadline EXCEPT ![s] = AuthTicks]
  /\ Schedule(deadline', alarm)
  /\ UNCHANGED step
--------------------------------------------------------------------------------
(* The room *)

PhoneConnects(c) ==
  /\ Cardinality(Phones) < MaxPhones
  /\ Opened(PhoneOf(c))
  /\ UNCHANGED bridge

\* RelayHost.#connect: the bridge holds one control socket.
HostConnects(h) ==
  /\ control = None
  /\ Opened(HostOf(h))
  /\ control' = h /\ listening' = FALSE
  /\ UNCHANGED <<dials, opening>>

\* RelayHost.#openChannel's connection arrives, or does not.
ChannelConnects(c) ==
  /\ c \in opening
  /\ Opened(ChannelOf(c))
  /\ opening' = opening \ {c}
  /\ UNCHANGED <<dials, control, listening>>
ChannelFails(c) ==
  /\ c \in opening
  /\ opening' = opening \ {c}
  /\ UNCHANGED <<room, dials, control, listening>>

\* webSocketMessage: the socket's one auth frame, whose signature is being verified.
Auth(s) ==
  /\ conn[s] = "open" /\ step[s] = "new"
  /\ step' = [step EXCEPT ![s] = "verifying"]
  /\ UNCHANGED <<conn, deadline, alarm, bridge>>

\* Neither an auth frame nor one of the control socket's: closed at once.
BadFrame(s) ==
  /\ conn[s] = "open" /\ step[s] # "paired"
  /\ conn' = Closing({s})
  /\ deadline' = Kept(deadline, conn')
  /\ UNCHANGED <<step, alarm, bridge>>

\* The signature or the key is refused.
Refused(s) ==
  /\ step[s] = "verifying"
  /\ conn' = Closing({s})
  /\ deadline' = Kept(deadline, conn')
  /\ step' = [step EXCEPT ![s] = "new"]
  /\ UNCHANGED <<alarm, bridge>>

\* A broken variant: the old control socket is left open.
HostReadyBeside(h) ==
  /\ step[HostOf(h)] = "verifying"
  /\ step' = [step EXCEPT ![HostOf(h)] = "authed"]
  /\ deadline' = [deadline EXCEPT ![HostOf(h)] = None]
  /\ UNCHANGED <<conn, alarm, bridge>>
\* #authHost: the control socket verified last replaces the others.
HostReady(h) ==
  /\ step[HostOf(h)] = "verifying"
  /\ conn' = Closing({s \in HostSocket : s # HostOf(h) /\ step[s] = "authed"})
  /\ step' = [step EXCEPT ![HostOf(h)] = "authed"]
  /\ deadline' = Kept([deadline EXCEPT ![HostOf(h)] = None], conn')
  /\ UNCHANGED <<alarm, bridge>>

\* A broken variant: no time for the dial is set.
PhoneReadyUntimed(c) ==
  /\ step[PhoneOf(c)] = "verifying"
  /\ \E h \in Host :
       /\ IsHost(HostOf(h))
       /\ step' = [step EXCEPT ![PhoneOf(c)] = "authed"]
       /\ deadline' = [deadline EXCEPT ![PhoneOf(c)] = None]
       /\ dials' = dials \cup {<<c, h>>}
  /\ UNCHANGED <<conn, alarm, opening, control, listening>>
\* A broken variant: what was left for the auth frame is added.
PhoneReadyLater(c) ==
  /\ step[PhoneOf(c)] = "verifying"
  /\ \E h \in Host :
       /\ IsHost(HostOf(h))
       /\ step' = [step EXCEPT ![PhoneOf(c)] = "authed"]
       /\ deadline' = Kept([deadline EXCEPT ![PhoneOf(c)] = @ + DialTicks], conn)
       /\ dials' = dials \cup {<<c, h>>}
  /\ Schedule(deadline', alarm)
  /\ UNCHANGED <<conn, opening, control, listening>>
\* #authPhone: the bridge is told, and has a time to open the channel.
PhoneReady(c) ==
  /\ step[PhoneOf(c)] = "verifying"
  /\ \E h \in Host :
       /\ IsHost(HostOf(h))
       /\ step' = [step EXCEPT ![PhoneOf(c)] = "authed"]
       /\ deadline' = Kept([deadline EXCEPT ![PhoneOf(c)] = DialTicks], conn)
       /\ dials' = dials \cup {<<c, h>>}
  /\ Schedule(deadline', alarm)
  /\ UNCHANGED <<conn, opening, control, listening>>

\* ... unless the bridge is not there.
BridgeOffline(c) ==
  /\ ~ \E h \in Host : IsHost(HostOf(h))
  /\ Refused(PhoneOf(c))

\* A broken variant: the phone may have gone.
PairAnyway(c) ==
  /\ step[ChannelOf(c)] = "verifying"
  /\ step' = [step EXCEPT ![PhoneOf(c)] = "paired", ![ChannelOf(c)] = "paired"]
  /\ deadline' = [deadline EXCEPT ![PhoneOf(c)] = None, ![ChannelOf(c)] = None]
  /\ UNCHANGED <<conn, alarm, bridge>>
\* #authChannel: the phone that waits for it, closing or not, is its other half.
Pair(c) ==
  /\ step[ChannelOf(c)] = "verifying"
  /\ IF conn[PhoneOf(c)] \in {"open", "closing"} /\ step[PhoneOf(c)] = "authed"
     THEN /\ step' = [step EXCEPT ![PhoneOf(c)] = "paired", ![ChannelOf(c)] = "paired"]
          /\ deadline' = [deadline EXCEPT ![PhoneOf(c)] = None, ![ChannelOf(c)] = None]
          /\ UNCHANGED conn
     ELSE /\ conn' = Closing({ChannelOf(c)})
          /\ step' = [step EXCEPT ![ChannelOf(c)] = "new"]
          /\ deadline' = Kept(deadline, conn')
  /\ UNCHANGED <<alarm, bridge>>

\* #setAllowed, from the bridge: phones are revoked, with their channels.
Revoke(C) ==
  /\ C # {} /\ \E h \in Host : IsHost(HostOf(h))
  /\ \A c \in C : step[PhoneOf(c)] \in {"authed", "paired"} /\ conn[PhoneOf(c)] # "gone"
  /\ conn' = Closing({PhoneOf(c) : c \in C} \cup {ChannelOf(c) : c \in C})
  /\ deadline' = Kept(deadline, conn')
  /\ UNCHANGED <<step, alarm, bridge>>

\* A socket is gone, its client's doing or the end of a close: webSocketClose,
\* webSocketError.  If the bridge still has it for its control socket, it
\* connects anew.
Closed(s) ==
  /\ conn[s] \in {"open", "closing"}
  /\ conn' = [Closing(Peers(s)) EXCEPT ![s] = "gone"]
  /\ deadline' = Kept(deadline, conn')
  /\ IF s.route = "host" /\ control = s.id
     THEN control' = None /\ listening' = FALSE
     ELSE UNCHANGED <<control, listening>>
  /\ UNCHANGED <<step, alarm, dials, opening>>

\* A broken variant: one alarm for all.
AlarmOnce ==
  /\ alarm = 0
  /\ conn' = Closing({s \in Socket : /\ deadline[s] = 0
                                     /\ step[s] \notin {"authed", "paired"} \/ s.route = "phone"})
  /\ deadline' = Kept(deadline, conn')
  /\ alarm' = None
  /\ UNCHANGED <<step, bridge>>
\* alarm(): sockets not authenticated in time and phones nobody dialled are
\* closed, and the alarm is set for the next of them.
Alarm ==
  /\ alarm = 0
  /\ conn' = Closing({s \in Socket :
                        /\ deadline[s] = 0
                        /\ \/ step[s] \in {"new", "verifying"}
                           \/ step[s] = "authed" /\ s.route = "phone"})
  /\ deadline' = Kept(deadline, conn')
  /\ Schedule(deadline', None)
  /\ UNCHANGED <<step, bridge>>

\* Time passes; an alarm may be late.
Less(n) == IF n \in {None, 0} THEN n ELSE n - 1
Tick ==
  /\ alarm > 0 \/ \E s \in Socket : deadline[s] > 0
  /\ alarm' = Less(alarm)
  /\ deadline' = [s \in Socket |-> Less(deadline[s])]
  /\ UNCHANGED <<conn, step, bridge>>
--------------------------------------------------------------------------------
(* The bridge *)

\* After `ready`: the allowed keys are read before dials are listened for.
Listens ==
  /\ control # None /\ ~listening /\ step[HostOf(control)] = "authed"
  /\ listening' = TRUE
  /\ UNCHANGED <<room, dials, opening, control>>

\* The bridge's connection breaks; the relay still has the old socket.
HalfOpen ==
  /\ control # None
  /\ control' = None /\ listening' = FALSE
  /\ UNCHANGED <<room, dials, opening>>

\* A dial is heard: the channel is opened.
DialHeard(c, h) ==
  /\ <<c, h>> \in dials /\ control = h /\ listening
  /\ dials' = dials \ {<<c, h>>}
  /\ opening' = opening \cup {c}
  /\ UNCHANGED <<room, control, listening>>

\* It is not: its connection broke, or nobody listens there yet.
DialLost(c, h) ==
  /\ <<c, h>> \in dials
  /\ control # h \/ ~listening \/ conn[HostOf(h)] # "open"
  /\ dials' = dials \ {<<c, h>>}
  /\ UNCHANGED <<room, opening, control, listening>>
--------------------------------------------------------------------------------
\* What becomes of a signature.
Verified(s) ==
  \/ Refused(s)
  \/ s.route = "host" /\ HostReady(s.id)
  \/ s.route = "phone" /\ (PhoneReady(s.id) \/ BridgeOffline(s.id))
  \/ s.route = "channel" /\ Pair(s.id)

Next ==
  \/ \E c \in Channel : PhoneConnects(c) \/ ChannelConnects(c) \/ ChannelFails(c)
  \/ \E h \in Host : HostConnects(h)
  \/ \E s \in Socket : Auth(s) \/ BadFrame(s) \/ Verified(s) \/ Closed(s)
  \/ \E C \in SUBSET Channel : Revoke(C)
  \/ Alarm \/ Tick
  \/ Listens \/ HalfOpen
  \/ \E c \in Channel, h \in Host : DialHeard(c, h) \/ DialLost(c, h)

\* Time passes, the alarm goes off, and a close that was started ends.  Nobody
\* has to authenticate, to answer a dial or to stay connected.
Fairness ==
  /\ WF_vars(Tick) /\ WF_vars(Alarm)
  /\ WF_vars(\E s \in Socket : conn[s] = "closing" /\ Closed(s))

Spec == Init /\ [][Next]_vars
FairSpec == Spec /\ Fairness
--------------------------------------------------------------------------------
(* Properties *)

Ticks == {None} \cup 0 .. AuthTicks \cup 0 .. DialTicks

\* Every variable has its type; nothing is put off for longer than one timeout.
TypeOK ==
  /\ conn \in [Socket -> {"none", "open", "closing", "gone"}]
  /\ step \in [Socket -> {"new", "verifying", "authed", "paired"}]
  /\ deadline \in [Socket -> Ticks] /\ alarm \in Ticks
  /\ dials \subseteq Channel \X Host /\ opening \subseteq Channel
  /\ control \in Host \cup {None} /\ listening \in BOOLEAN

\* A dial goes to one control socket: no other that still looks alive can
\* swallow it.  (#authHost)
OneHost == \A s, u \in Socket : IsHost(s) /\ IsHost(u) => s = u

\* Whatever has a deadline is looked at when it is over, though there is one
\* alarm for all and it is only ever moved forward.  (#scheduleAlarm, alarm)
AlarmCovers ==
  \A s \in Socket : deadline[s] # None =>
    alarm # None /\ alarm <= deadline[s]

\* A socket that nobody has answered for has a deadline.
Unsettled(s) == step[s] \in {"new", "verifying"} \/ (step[s] = "authed" /\ s.route = "phone")
HasDeadline == \A s \in Socket : conn[s] = "open" /\ Unsettled(s) => deadline[s] # None

\* Frames are forwarded between two halves that are both there: when one is
\* gone the other does not stay.  (#authChannel and #dropPeer)
BothHalves ==
  \A c \in Channel :
    /\ step[ChannelOf(c)] = "paired" => step[PhoneOf(c)] = "paired"
    /\ step[PhoneOf(c)] = "paired" => step[ChannelOf(c)] = "paired"
    /\ conn[PhoneOf(c)] = "gone" /\ step[ChannelOf(c)] = "paired" => conn[ChannelOf(c)] # "open"
    /\ conn[ChannelOf(c)] = "gone" => conn[PhoneOf(c)] # "open"

\* Nobody waits forever: a phone gets its channel or is closed, whatever the
\* bridge does with its dial, and however often the room is full.  (alarm)
NobodyWaits ==
  \A c \in Channel :
    conn[PhoneOf(c)] = "open" ~>
      \/ conn[PhoneOf(c)] # "open"
      \/ step[PhoneOf(c)] = "paired" /\ conn[ChannelOf(c)] = "open"
================================================================================
