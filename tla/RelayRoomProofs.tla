---------------------------- MODULE RelayRoomProofs ----------------------------
(* That RelayRoom, with any number of phones and control sockets, any timeouts *)
(* and any limits, keeps one control socket, looks at every deadline, and      *)
(* keeps the two halves of a phone's connection together.                      *)
EXTENDS RelayRoom, TLAPS

\* An attachment says nothing of a socket that was not opened.
NewInv == \A s \in Socket : conn[s] = "none" => step[s] = "new"

\* A channel comes after the phone it is for.
PhoneFirst ==
  \A c \in Channel :
    \/ c \in opening
    \/ \E h \in Host : <<c, h>> \in dials
    \/ conn[ChannelOf(c)] # "none"
    => conn[PhoneOf(c)] # "none"

\* What the theorems rest on.
IInv ==
  /\ TypeOK /\ OneHost /\ AlarmCovers /\ HasDeadline /\ BothHalves
  /\ NewInv /\ PhoneFirst
--------------------------------------------------------------------------------
(* The sockets *)

\* A socket is known by its route and its id.
LEMMA SocketFacts ==
  /\ \A c \in Channel : PhoneOf(c) \in Socket /\ ChannelOf(c) \in Socket
  /\ \A h \in Host : HostOf(h) \in Socket /\ HostOf(h) \in HostSocket
  /\ \A s \in HostSocket : s \in Socket /\ s.route = "host"
  /\ \A c, d \in Channel : PhoneOf(c) # ChannelOf(d)
  /\ \A c, d \in Channel : PhoneOf(c) = PhoneOf(d) => c = d
  /\ \A c, d \in Channel : ChannelOf(c) = ChannelOf(d) => c = d
  /\ \A c \in Channel, h \in Host : HostOf(h) # PhoneOf(c) /\ HostOf(h) # ChannelOf(c)
  /\ \A c \in Channel : PhoneOf(c).route = "phone" /\ PhoneOf(c).id = c
  /\ \A c \in Channel : ChannelOf(c).route = "channel" /\ ChannelOf(c).id = c
  /\ \A h \in Host : HostOf(h).route = "host" /\ HostOf(h).id = h
  /\ \A s \in Socket : /\ s.route = "phone" => s.id \in Channel /\ s = PhoneOf(s.id)
                       /\ s.route = "channel" => s.id \in Channel /\ s = ChannelOf(s.id)
                       /\ s.route = "host" => s.id \in Host /\ s = HostOf(s.id) /\ s \in HostSocket
                       /\ s.route \in {"phone", "channel", "host"}
  BY DEF Socket, HostSocket, PhoneOf, ChannelOf, HostOf

\* The other half of a socket.
LEMMA PeerFacts ==
  ASSUME NEW s \in Socket
  PROVE  /\ Peers(s) \subseteq Socket
         /\ \A c \in Channel : s = PhoneOf(c) => ChannelOf(c) \in Peers(s)
         /\ \A c \in Channel : s = ChannelOf(c) => PhoneOf(c) \in Peers(s)
  BY SocketFacts DEF Peers

\* What closing a set of sockets does to one of them.
LEMMA ClosingFacts ==
  ASSUME NEW S, conn \in [Socket -> {"none", "open", "closing", "gone"}]
  PROVE  /\ Closing(S) \in [Socket -> {"none", "open", "closing", "gone"}]
         /\ \A s \in Socket :
              /\ Closing(S)[s] = "open" => conn[s] = "open"
              /\ Closing(S)[s] = "none" <=> conn[s] = "none"
              /\ Closing(S)[s] = "gone" <=> conn[s] = "gone"
              /\ s \in S => Closing(S)[s] # "open"
              /\ s \notin S => Closing(S)[s] = conn[s]
  BY DEF Closing

\* What becomes of the deadlines.
LEMMA KeptFacts ==
  ASSUME NEW d \in [Socket -> Ticks], NEW c
  PROVE  /\ Kept(d, c) \in [Socket -> Ticks]
         /\ \A s \in Socket : /\ c[s] = "open" => Kept(d, c)[s] = d[s]
                              /\ Kept(d, c)[s] # None => Kept(d, c)[s] = d[s]
  BY DEF Kept, Ticks

\* Deadlines are numbers of ticks.
LEMMA TickFacts ==
  /\ AuthTicks \in Ticks /\ DialTicks \in Ticks /\ None \in Ticks
  /\ AuthTicks # None /\ DialTicks # None
  /\ \A n \in Ticks : n \in Int /\ (n # None => n >= 0)
  /\ \A n \in Ticks : Less(n) \in Ticks /\ (Less(n) = None <=> n = None)
  /\ \A m, n \in Ticks : m <= n /\ m # None => Less(m) <= Less(n)
  BY RelayAssumption DEF Ticks, None, Less

\* The alarm after #scheduleAlarm is not later than any deadline.
LEMMA ScheduleFacts ==
  ASSUME NEW d \in [Socket -> Ticks], NEW a \in Ticks, Schedule(d, a)
  PROVE  /\ alarm' \in Ticks
         /\ \A s \in Socket : d[s] # None => alarm' # None /\ alarm' <= d[s]
<1> DEFINE due == {d[s] : s \in Socket} \ {None}
<1>1. CASE due = {}
  BY <1>1 DEF Schedule
<1>2. CASE due # {}
  <2>1. PICK first \in due :
          /\ \A x \in due : first <= x
          /\ alarm' = IF a = None \/ first < a THEN first ELSE a
    BY <1>2 DEF Schedule
  <2>2. first \in Ticks /\ first # None
    BY <2>1
  <2>3. alarm' \in Ticks /\ alarm' # None /\ alarm' <= first
    BY <2>1, <2>2, TickFacts
  <2>4. ASSUME NEW s \in Socket, d[s] # None PROVE alarm' <= d[s]
    <3>1. d[s] \in due /\ first <= d[s]
      BY <2>1, <2>4
    <3> QED BY <3>1, <2>2, <2>3, TickFacts
  <2> QED BY <2>3, <2>4
<1> QED BY <1>1, <1>2
--------------------------------------------------------------------------------
(* The steps *)

\* A step that only closes sockets, and takes back what waited for a signature
\* of one that is not open any more.
LEMMA Shut ==
  ASSUME IInv,
         conn' \in [Socket -> {"none", "open", "closing", "gone"}],
         \A s \in Socket : /\ conn'[s] = "open" => conn[s] = "open"
                           /\ conn'[s] = "none" <=> conn[s] = "none",
         \A c \in Channel :
           /\ conn'[PhoneOf(c)] = "gone" /\ conn[PhoneOf(c)] # "gone" => conn'[ChannelOf(c)] # "open"
           /\ conn'[ChannelOf(c)] = "gone" /\ conn[ChannelOf(c)] # "gone" => conn'[PhoneOf(c)] # "open",
         deadline' = Kept(deadline, conn'),
         step' \in [Socket -> {"new", "verifying", "authed", "paired"}],
         \A s \in Socket : \/ step'[s] = step[s]
                           \/ step[s] = "verifying" /\ step'[s] = "new" /\ conn'[s] # "open",
         alarm' \in Ticks, AlarmCovers',
         dials' = dials, opening' = opening, control' \in Host \cup {None}, listening' \in BOOLEAN
  PROVE  IInv'
<1> USE DEF IInv
<1>1. /\ deadline \in [Socket -> Ticks] /\ deadline' \in [Socket -> Ticks]
      /\ \A s \in Socket : conn'[s] = "open" => deadline'[s] = deadline[s]
  BY KeptFacts DEF TypeOK
<1>2. TypeOK'
  BY <1>1 DEF TypeOK
<1>3. OneHost'
  BY DEF OneHost, IsHost
<1>4. HasDeadline'
  BY <1>1 DEF HasDeadline, Unsettled
<1>5. NewInv'
  BY DEF NewInv
<1>6. PhoneFirst'
  BY SocketFacts DEF PhoneFirst
<1>7. BothHalves'
  <2> SUFFICES ASSUME NEW c \in Channel
               PROVE  /\ step'[ChannelOf(c)] = "paired" => step'[PhoneOf(c)] = "paired"
                      /\ step'[PhoneOf(c)] = "paired" => step'[ChannelOf(c)] = "paired"
                      /\ conn'[PhoneOf(c)] = "gone" /\ step'[ChannelOf(c)] = "paired"
                           => conn'[ChannelOf(c)] # "open"
                      /\ conn'[ChannelOf(c)] = "gone" => conn'[PhoneOf(c)] # "open"
    BY DEF BothHalves
  <2>1. PhoneOf(c) \in Socket /\ ChannelOf(c) \in Socket
    BY SocketFacts
  <2> QED BY <2>1 DEF BothHalves
<1> QED BY <1>2, <1>3, <1>4, <1>5, <1>6, <1>7

\* A deadline that goes away needs no alarm.
LEMMA SameAlarm ==
  ASSUME TypeOK, AlarmCovers, NEW c, deadline' = Kept(deadline, c), alarm' = alarm
  PROVE  AlarmCovers'
  BY KeptFacts DEF TypeOK, AlarmCovers

\* Closing some sockets.
LEMMA CloseKeeps ==
  ASSUME IInv, NEW S, conn' = Closing(S), deadline' = Kept(deadline, conn'),
         step' \in [Socket -> {"new", "verifying", "authed", "paired"}],
         \A s \in Socket : \/ step'[s] = step[s]
                           \/ step[s] = "verifying" /\ step'[s] = "new" /\ conn'[s] # "open",
         alarm' = alarm, UNCHANGED bridge
  PROVE  IInv'
<1>1. /\ conn' \in [Socket -> {"none", "open", "closing", "gone"}]
      /\ \A s \in Socket : /\ conn'[s] = "open" => conn[s] = "open"
                           /\ conn'[s] = "none" <=> conn[s] = "none"
                           /\ conn'[s] = "gone" <=> conn[s] = "gone"
  BY ClosingFacts DEF IInv, TypeOK
<1>2. AlarmCovers' /\ alarm' \in Ticks
  BY SameAlarm DEF IInv, TypeOK
<1>3. dials' = dials /\ opening' = opening /\ control' \in Host \cup {None} /\ listening' \in BOOLEAN
  BY DEF IInv, TypeOK, bridge
<1> QED BY <1>1, <1>2, <1>3, Shut, SocketFacts

\* A malformed frame, and a revocation.
LEMMA BadFrameKeeps ==
  ASSUME IInv, NEW s \in Socket, BadFrame(s)
  PROVE  IInv'
  BY CloseKeeps DEF BadFrame, IInv, TypeOK
LEMMA RevokeKeeps ==
  ASSUME IInv, NEW C \in SUBSET Channel, Revoke(C)
  PROVE  IInv'
  BY CloseKeeps DEF Revoke, IInv, TypeOK

\* A signature that is refused.
LEMMA RefusedKeeps ==
  ASSUME IInv, NEW s \in Socket, Refused(s)
  PROVE  IInv'
<1>1. conn'[s] # "open"
  BY ClosingFacts DEF Refused, IInv, TypeOK
<1>2. /\ step' \in [Socket -> {"new", "verifying", "authed", "paired"}]
      /\ \A u \in Socket : \/ step'[u] = step[u]
                           \/ step[u] = "verifying" /\ step'[u] = "new" /\ conn'[u] # "open"
  BY <1>1 DEF Refused, IInv, TypeOK
<1> QED BY <1>2, CloseKeeps DEF Refused

\* A socket that is gone.
LEMMA ClosedKeeps ==
  ASSUME IInv, NEW s \in Socket, Closed(s)
  PROVE  IInv'
<1> USE DEF IInv
<1>1. /\ Closing(Peers(s)) \in [Socket -> {"none", "open", "closing", "gone"}]
      /\ \A u \in Socket : /\ Closing(Peers(s))[u] = "open" => conn[u] = "open" /\ u \notin Peers(s)
                           /\ Closing(Peers(s))[u] = "none" <=> conn[u] = "none"
                           /\ Closing(Peers(s))[u] = "gone" <=> conn[u] = "gone"
  BY ClosingFacts DEF TypeOK
<1>2. /\ conn' \in [Socket -> {"none", "open", "closing", "gone"}]
      /\ \A u \in Socket : /\ conn'[u] = "open" => conn[u] = "open" /\ u \notin Peers(s)
                           /\ conn'[u] = "none" <=> conn[u] = "none"
                           /\ conn'[u] = "gone" /\ conn[u] # "gone" => u = s
  BY <1>1 DEF Closed
<1>3. \A c \in Channel :
        /\ conn'[PhoneOf(c)] = "gone" /\ conn[PhoneOf(c)] # "gone" => conn'[ChannelOf(c)] # "open"
        /\ conn'[ChannelOf(c)] = "gone" /\ conn[ChannelOf(c)] # "gone" => conn'[PhoneOf(c)] # "open"
  BY <1>2, SocketFacts, PeerFacts
<1>4. AlarmCovers' /\ alarm' \in Ticks
  BY SameAlarm DEF TypeOK, Closed
<1>5. control' \in Host \cup {None} /\ listening' \in BOOLEAN
  BY DEF TypeOK, Closed
<1>6. /\ step' \in [Socket -> {"new", "verifying", "authed", "paired"}] /\ step' = step
      /\ deadline' = Kept(deadline, conn') /\ dials' = dials /\ opening' = opening
  BY DEF TypeOK, Closed
<1> QED BY <1>2, <1>3, <1>4, <1>5, <1>6, Shut

\* The alarm.
LEMMA AlarmKeeps ==
  ASSUME IInv, Alarm
  PROVE  IInv'
<1> USE DEF IInv
<1> DEFINE due == {s \in Socket : /\ deadline[s] = 0
                                  /\ \/ step[s] \in {"new", "verifying"}
                                     \/ step[s] = "authed" /\ s.route = "phone"}
<1>1. conn' = Closing(due) /\ deadline' = Kept(deadline, conn') /\ step' = step
  BY DEF Alarm
<1>2. /\ conn' \in [Socket -> {"none", "open", "closing", "gone"}]
      /\ \A s \in Socket : /\ conn'[s] = "open" => conn[s] = "open"
                           /\ conn'[s] = "none" <=> conn[s] = "none"
                           /\ conn'[s] = "gone" <=> conn[s] = "gone"
  <2> HIDE DEF due
  <2> QED BY <1>1, ClosingFacts DEF TypeOK
<1>3. deadline' \in [Socket -> Ticks]
  BY <1>1, KeptFacts DEF TypeOK
<1>4. Schedule(deadline', None)
  BY DEF Alarm
<1>5. alarm' \in Ticks /\ AlarmCovers'
  BY <1>3, <1>4, ScheduleFacts, TickFacts DEF AlarmCovers
<1>6. dials' = dials /\ opening' = opening /\ control' \in Host \cup {None} /\ listening' \in BOOLEAN
  BY DEF Alarm, TypeOK, bridge
<1>7. step' \in [Socket -> {"new", "verifying", "authed", "paired"}]
  BY <1>1 DEF TypeOK
<1> QED BY <1>1, <1>2, <1>5, <1>6, <1>7, Shut, SocketFacts

\* A socket that is accepted.
LEMMA OpenedKeeps ==
  ASSUME IInv, NEW s \in Socket, Opened(s),
         \A c \in Channel : s = ChannelOf(c) => conn[PhoneOf(c)] # "none",
         dials' = dials, opening' \subseteq opening,
         control' \in Host \cup {None}, listening' \in BOOLEAN
  PROVE  IInv'
<1> USE DEF IInv
<1>1. /\ conn[s] = "none" /\ step[s] = "new"
      /\ conn' = [conn EXCEPT ![s] = "open"]
      /\ deadline' = [deadline EXCEPT ![s] = AuthTicks]
      /\ Schedule(deadline', alarm) /\ step' = step
  BY DEF Opened, NewInv
<1>2. deadline' \in [Socket -> Ticks]
  BY <1>1, TickFacts DEF TypeOK
<1>3. alarm' \in Ticks /\ AlarmCovers'
  BY <1>1, <1>2, ScheduleFacts DEF TypeOK, AlarmCovers
<1>4. TypeOK'
  BY <1>1, <1>2, <1>3 DEF TypeOK
<1>5. OneHost'
  BY <1>1 DEF TypeOK, OneHost, IsHost
<1>6. HasDeadline'
  BY <1>1, TickFacts DEF TypeOK, HasDeadline, Unsettled
<1>7. BothHalves'
  <2> SUFFICES ASSUME NEW c \in Channel
               PROVE  /\ step[ChannelOf(c)] = "paired" <=> step[PhoneOf(c)] = "paired"
                      /\ conn'[PhoneOf(c)] = "gone" /\ step[ChannelOf(c)] = "paired"
                           => conn'[ChannelOf(c)] # "open"
                      /\ conn'[ChannelOf(c)] = "gone" => conn'[PhoneOf(c)] # "open"
    BY <1>1 DEF BothHalves
  <2>1. PhoneOf(c) \in Socket /\ ChannelOf(c) \in Socket /\ PhoneOf(c) # ChannelOf(c)
    BY SocketFacts
  <2>2. conn[ChannelOf(c)] # "none" => conn[PhoneOf(c)] # "none"
    BY DEF PhoneFirst
  <2> QED BY <1>1, <2>1, <2>2 DEF TypeOK, BothHalves
<1>8. NewInv'
  BY <1>1 DEF TypeOK, NewInv
<1>9. PhoneFirst'
  BY <1>1, SocketFacts DEF TypeOK, PhoneFirst
<1> QED BY <1>3, <1>4, <1>5, <1>6, <1>7, <1>8, <1>9

\* An auth frame.
LEMMA AuthKeeps ==
  ASSUME IInv, NEW s \in Socket, Auth(s)
  PROVE  IInv'
<1> USE DEF IInv
<1>1. /\ conn[s] = "open" /\ step[s] = "new" /\ step' = [step EXCEPT ![s] = "verifying"]
      /\ conn' = conn /\ deadline' = deadline /\ alarm' = alarm
      /\ dials' = dials /\ opening' = opening /\ control' = control /\ listening' = listening
  BY DEF Auth, bridge
<1>2. TypeOK' /\ AlarmCovers'
  BY <1>1 DEF TypeOK, AlarmCovers
<1>3. OneHost' /\ NewInv'
  BY <1>1 DEF TypeOK, OneHost, IsHost, NewInv
<1>4. HasDeadline'
  BY <1>1 DEF TypeOK, HasDeadline, Unsettled
<1>5. BothHalves'
  <2>1. \A u \in Socket : step'[u] = "paired" <=> step[u] = "paired"
    BY <1>1 DEF TypeOK
  <2> QED BY <1>1, <2>1, SocketFacts DEF BothHalves
<1>6. PhoneFirst'
  BY <1>1 DEF PhoneFirst
<1> QED BY <1>2, <1>3, <1>4, <1>5, <1>6

\* A control socket whose signature is good.
LEMMA HostReadyKeeps ==
  ASSUME IInv, NEW h \in Host, HostReady(h)
  PROVE  IInv'
<1> USE DEF IInv
<1> DEFINE others == {s \in HostSocket : s # HostOf(h) /\ step[s] = "authed"}
<1>1. /\ step[HostOf(h)] = "verifying" /\ step' = [step EXCEPT ![HostOf(h)] = "authed"]
      /\ conn' = Closing(others)
      /\ deadline' = Kept([deadline EXCEPT ![HostOf(h)] = None], conn')
      /\ alarm' = alarm /\ dials' = dials /\ opening' = opening
      /\ control' = control /\ listening' = listening
  BY DEF HostReady, bridge
<1>2. /\ conn' \in [Socket -> {"none", "open", "closing", "gone"}]
      /\ \A s \in Socket : /\ conn'[s] = "open" => conn[s] = "open"
                           /\ conn'[s] = "none" <=> conn[s] = "none"
                           /\ conn'[s] = "gone" <=> conn[s] = "gone"
                           /\ s \in others => conn'[s] # "open"
  <2> HIDE DEF others
  <2> QED BY <1>1, ClosingFacts DEF TypeOK
<1>3. HostOf(h) \in Socket /\ HostOf(h).route = "host"
  BY SocketFacts
<1>4. [deadline EXCEPT ![HostOf(h)] = None] \in [Socket -> Ticks]
  BY TickFacts DEF TypeOK
<1>5. /\ deadline' \in [Socket -> Ticks]
      /\ \A s \in Socket : /\ deadline'[s] # None => deadline'[s] = deadline[s]
                           /\ s # HostOf(h) /\ conn'[s] = "open" => deadline'[s] = deadline[s]
  <2> DEFINE d == [deadline EXCEPT ![HostOf(h)] = None]
  <2>1. /\ d \in [Socket -> Ticks] /\ d[HostOf(h)] = None
        /\ \A s \in Socket : s # HostOf(h) => d[s] = deadline[s]
    BY <1>3, <1>4 DEF TypeOK
  <2>2. deadline' = Kept(d, conn')
    BY <1>1
  <2> HIDE DEF d
  <2> QED BY <2>1, <2>2, KeptFacts
<1>6. TypeOK' /\ AlarmCovers'
  BY <1>1, <1>2, <1>5 DEF TypeOK, AlarmCovers
<1>7. OneHost'
  <2> SUFFICES ASSUME NEW s \in Socket, IsHost(s)' PROVE s = HostOf(h)
    BY DEF OneHost
  <2>1. s \in HostSocket /\ conn'[s] = "open" /\ step'[s] = "authed"
    BY SocketFacts DEF IsHost
  <2>2. s \notin others
    BY <1>2, <2>1
  <2> QED BY <1>1, <2>1, <2>2 DEF TypeOK
<1>8. HasDeadline'
  <2> SUFFICES ASSUME NEW s \in Socket, conn'[s] = "open", Unsettled(s)'
               PROVE  deadline'[s] # None
    BY DEF HasDeadline
  <2>1. s # HostOf(h)
    BY <1>1, <1>3 DEF TypeOK, Unsettled
  <2>2. conn[s] = "open" /\ Unsettled(s)
    BY <1>1, <1>2, <2>1 DEF TypeOK, Unsettled
  <2> QED BY <1>5, <2>1, <2>2 DEF HasDeadline
<1>9. NewInv'
  BY <1>1, <1>2, <1>3 DEF TypeOK, NewInv
<1>10. BothHalves'
  BY <1>1, <1>2, SocketFacts DEF TypeOK, BothHalves
<1>11. PhoneFirst'
  BY <1>1, <1>2, SocketFacts DEF PhoneFirst
<1> QED BY <1>6, <1>7, <1>8, <1>9, <1>10, <1>11

\* A phone that is let in.
LEMMA PhoneReadyKeeps ==
  ASSUME IInv, NEW c \in Channel, PhoneReady(c)
  PROVE  IInv'
<1> USE DEF IInv
<1> DEFINE p == PhoneOf(c)
<1>1. PICK h \in Host : dials' = dials \cup {<<c, h>>}
  BY DEF PhoneReady
<1>2. /\ step[p] = "verifying" /\ step' = [step EXCEPT ![p] = "authed"]
      /\ deadline' = Kept([deadline EXCEPT ![p] = DialTicks], conn)
      /\ Schedule(deadline', alarm) /\ conn' = conn /\ opening' = opening
      /\ control' = control /\ listening' = listening
  BY DEF PhoneReady
<1>3. p \in Socket /\ p.route = "phone"
  BY SocketFacts
<1>4. [deadline EXCEPT ![p] = DialTicks] \in [Socket -> Ticks]
  BY TickFacts DEF TypeOK
<1>5. /\ deadline' \in [Socket -> Ticks]
      /\ \A s \in Socket : conn[s] = "open" =>
           deadline'[s] = IF s = p THEN DialTicks ELSE deadline[s]
  <2> DEFINE d == [deadline EXCEPT ![p] = DialTicks]
  <2>1. /\ d \in [Socket -> Ticks] /\ d[p] = DialTicks
        /\ \A s \in Socket : s # p => d[s] = deadline[s]
    BY <1>3, <1>4 DEF TypeOK
  <2>2. deadline' = Kept(d, conn)
    BY <1>2
  <2> HIDE DEF d
  <2> QED BY <2>1, <2>2, KeptFacts
<1>6. alarm' \in Ticks /\ AlarmCovers'
  BY <1>2, <1>5, ScheduleFacts DEF TypeOK, AlarmCovers
<1>7. TypeOK'
  <2>1. dials' \subseteq Channel \X Host
    BY <1>1 DEF TypeOK
  <2>2. step' \in [Socket -> {"new", "verifying", "authed", "paired"}]
    BY <1>2 DEF TypeOK
  <2> QED BY <1>2, <1>5, <1>6, <2>1, <2>2 DEF TypeOK
<1>8. OneHost' /\ NewInv'
  BY <1>2, <1>3 DEF TypeOK, OneHost, IsHost, NewInv
<1>9. HasDeadline'
  BY <1>2, <1>3, <1>5, TickFacts DEF TypeOK, HasDeadline, Unsettled
<1>10. BothHalves'
  BY <1>2, <1>3, SocketFacts DEF TypeOK, BothHalves
<1>11. conn[p] # "none"
  BY <1>2, <1>3 DEF NewInv
<1>12. PhoneFirst'
  BY <1>1, <1>2, <1>11 DEF PhoneFirst
<1> QED BY <1>6, <1>7, <1>8, <1>9, <1>10, <1>12

\* A channel whose signature is good.
LEMMA PairKeeps ==
  ASSUME IInv, NEW c \in Channel, Pair(c)
  PROVE  IInv'
<1> USE DEF IInv
<1> DEFINE p == PhoneOf(c)
           h == ChannelOf(c)
<1>1. p \in Socket /\ h \in Socket /\ p # h /\ p.route = "phone" /\ h.route = "channel"
  BY SocketFacts
<1>2. CASE conn[p] \in {"open", "closing"} /\ step[p] = "authed"
  <2>1. /\ step[h] = "verifying" /\ step' = [step EXCEPT ![p] = "paired", ![h] = "paired"]
        /\ deadline' = [deadline EXCEPT ![p] = None, ![h] = None]
        /\ conn' = conn /\ alarm' = alarm /\ dials' = dials /\ opening' = opening
        /\ control' = control /\ listening' = listening
    BY <1>2 DEF Pair, bridge
  <2>2. TypeOK' /\ AlarmCovers'
    BY <1>1, <2>1, TickFacts DEF TypeOK, AlarmCovers
  <2>3. OneHost'
    BY <1>1, <2>1 DEF TypeOK, OneHost, IsHost
  <2>4. NewInv'
    BY <1>1, <1>2, <2>1 DEF TypeOK, NewInv
  <2>5. HasDeadline'
    BY <1>1, <2>1 DEF TypeOK, HasDeadline, Unsettled
  <2>6. BothHalves'
    BY <1>1, <1>2, <2>1, SocketFacts DEF TypeOK, BothHalves
  <2>7. PhoneFirst'
    BY <2>1 DEF PhoneFirst
  <2> QED BY <2>2, <2>3, <2>4, <2>5, <2>6, <2>7
<1>3. CASE ~(conn[p] \in {"open", "closing"} /\ step[p] = "authed")
  <2>1. /\ step[h] = "verifying" /\ step' = [step EXCEPT ![h] = "new"]
        /\ conn' = Closing({h}) /\ deadline' = Kept(deadline, conn')
        /\ alarm' = alarm /\ UNCHANGED bridge
    BY <1>3 DEF Pair
  <2>2. conn'[h] # "open"
    BY <1>1, <2>1, ClosingFacts DEF TypeOK
  <2>3. /\ step' \in [Socket -> {"new", "verifying", "authed", "paired"}]
        /\ \A s \in Socket : \/ step'[s] = step[s]
                             \/ step[s] = "verifying" /\ step'[s] = "new" /\ conn'[s] # "open"
    BY <1>1, <2>1, <2>2 DEF TypeOK
  <2> QED BY <2>1, <2>3, CloseKeeps
<1> QED BY <1>2, <1>3

\* Time.
LEMMA TickKeeps ==
  ASSUME IInv, Tick
  PROVE  IInv'
<1> USE DEF IInv
<1>1. /\ alarm' = Less(alarm) /\ deadline' = [s \in Socket |-> Less(deadline[s])]
      /\ conn' = conn /\ step' = step /\ dials' = dials /\ opening' = opening
      /\ control' = control /\ listening' = listening
  BY DEF Tick, bridge
<1>2. /\ alarm' \in Ticks /\ deadline' \in [Socket -> Ticks]
      /\ \A s \in Socket : deadline'[s] = None <=> deadline[s] = None
  BY <1>1, TickFacts DEF TypeOK
<1>3. TypeOK'
  BY <1>1, <1>2 DEF TypeOK
<1>4. AlarmCovers'
  BY <1>1, <1>2, TickFacts DEF TypeOK, AlarmCovers
<1>5. HasDeadline'
  BY <1>1, <1>2 DEF HasDeadline, Unsettled
<1>6. OneHost' /\ BothHalves' /\ NewInv' /\ PhoneFirst'
  BY <1>1 DEF OneHost, IsHost, BothHalves, NewInv, PhoneFirst
<1> QED BY <1>3, <1>4, <1>5, <1>6

\* What the bridge does by itself changes nothing in the room.
LEMMA RoomUnchanged ==
  ASSUME IInv, UNCHANGED room,
         dials' \subseteq dials,
         opening' \subseteq opening \cup {c \in Channel : \E h \in Host : <<c, h>> \in dials},
         control' \in Host \cup {None}, listening' \in BOOLEAN
  PROVE  IInv'
<1> USE DEF IInv
<1>1. conn' = conn /\ step' = step /\ deadline' = deadline /\ alarm' = alarm
  BY DEF room
<1>2. TypeOK'
  BY <1>1 DEF TypeOK
<1>3. OneHost' /\ BothHalves' /\ NewInv' /\ AlarmCovers' /\ HasDeadline'
  BY <1>1 DEF OneHost, IsHost, BothHalves, NewInv, AlarmCovers, HasDeadline, Unsettled
<1>4. PhoneFirst'
  BY <1>1 DEF PhoneFirst
<1> QED BY <1>2, <1>3, <1>4
--------------------------------------------------------------------------------
(* The theorems *)

\* The room starts without sockets.
LEMMA InitIInv == Init => IInv
<1> SUFFICES ASSUME Init PROVE IInv
  OBVIOUS
<1>1. TypeOK
  BY TickFacts DEF Init, TypeOK
<1>2. OneHost /\ AlarmCovers /\ HasDeadline /\ NewInv
  BY DEF Init, OneHost, IsHost, AlarmCovers, HasDeadline, NewInv
<1>3. BothHalves /\ PhoneFirst
  BY SocketFacts DEF Init, BothHalves, PhoneFirst
<1> QED BY <1>1, <1>2, <1>3 DEF IInv

\* Every step keeps the invariant.
LEMMA NextIInv == IInv /\ [Next]_vars => IInv'
<1> SUFFICES ASSUME IInv, [Next]_vars PROVE IInv'
  OBVIOUS
<1> USE SocketFacts
<1>0. TypeOK
  BY DEF IInv
<1>1. ASSUME NEW c \in Channel, PhoneConnects(c) PROVE IInv'
  <2>1. Opened(PhoneOf(c)) /\ UNCHANGED bridge
    BY <1>1 DEF PhoneConnects
  <2> QED BY <1>0, <2>1, OpenedKeeps DEF bridge, TypeOK
<1>2. ASSUME NEW c \in Channel, ChannelConnects(c) PROVE IInv'
  <2>1. conn[PhoneOf(c)] # "none"
    BY <1>2 DEF ChannelConnects, IInv, PhoneFirst
  <2> QED BY <1>0, <1>2, <2>1, OpenedKeeps DEF ChannelConnects, TypeOK
<1>3. ASSUME NEW h \in Host, HostConnects(h) PROVE IInv'
  BY <1>0, <1>3, OpenedKeeps DEF HostConnects, TypeOK
<1>4. ASSUME NEW c \in Channel, ChannelFails(c) PROVE IInv'
  BY <1>0, <1>4, RoomUnchanged DEF ChannelFails, TypeOK
<1>5. CASE Listens \/ HalfOpen
  <2>1. UNCHANGED room /\ dials' = dials /\ opening' = opening
        /\ control' \in Host \cup {None} /\ listening' \in BOOLEAN
    <3>1. CASE Listens
      BY <1>0, <3>1 DEF Listens, TypeOK
    <3>2. CASE HalfOpen
      BY <1>0, <3>2 DEF HalfOpen, TypeOK
    <3> QED BY <1>5, <3>1, <3>2
  <2> QED BY <2>1, RoomUnchanged
<1>6. ASSUME NEW c \in Channel, NEW h \in Host, DialHeard(c, h) \/ DialLost(c, h) PROVE IInv'
  BY <1>0, <1>6, RoomUnchanged DEF DialHeard, DialLost, TypeOK
<1>7. ASSUME NEW s \in Socket, Verified(s) PROVE IInv'
  <2>1. CASE Refused(s)
    BY <2>1, RefusedKeeps
  <2>2. CASE s.route = "host" /\ HostReady(s.id)
    BY <2>2, HostReadyKeeps
  <2>3. CASE s.route = "phone" /\ PhoneReady(s.id)
    BY <2>3, PhoneReadyKeeps
  <2>4. CASE s.route = "phone" /\ BridgeOffline(s.id)
    BY <2>4, RefusedKeeps DEF BridgeOffline
  <2>5. CASE s.route = "channel" /\ Pair(s.id)
    BY <2>5, PairKeeps
  <2> QED BY <1>7, <2>1, <2>2, <2>3, <2>4, <2>5 DEF Verified
<1>8. CASE UNCHANGED vars
  BY <1>0, <1>8, RoomUnchanged DEF vars, bridge, TypeOK
<1> QED BY <1>1, <1>2, <1>3, <1>4, <1>5, <1>6, <1>7, <1>8, AuthKeeps, BadFrameKeeps,
           ClosedKeeps, RevokeKeeps, AlarmKeeps, TickKeeps DEF Next

\* The invariant holds whatever the sockets, the bridge and the clock do.
THEOREM Invariance == Spec => []IInv
<1>1. Init => IInv
  BY InitIInv
<1>2. IInv /\ [Next]_vars => IInv'
  BY NextIInv
<1> QED BY <1>1, <1>2, PTL DEF Spec

\* Every variable has its type, and nothing is put off for longer than one
\* timeout.  (#authPhone, #scheduleAlarm)
THEOREM RoomTypes == Spec => []TypeOK
<1>1. IInv => TypeOK
  BY DEF IInv
<1> QED BY <1>1, Invariance, PTL

\* There is never a second control socket that dials could go to.  (#authHost)
THEOREM OneControlSocket == Spec => []OneHost
<1>1. IInv => OneHost
  BY DEF IInv
<1> QED BY <1>1, Invariance, PTL

\* The alarm is never later than a deadline.  (#scheduleAlarm, alarm)
THEOREM DeadlinesAreKept == Spec => []AlarmCovers
<1>1. IInv => AlarmCovers
  BY DEF IInv
<1> QED BY <1>1, Invariance, PTL

\* An open socket that is not authenticated, or whose dial is not answered, has
\* a deadline.  (fetch, #authPhone)
THEOREM NobodyWaitsUntimed == Spec => []HasDeadline
<1>1. IInv => HasDeadline
  BY DEF IInv
<1> QED BY <1>1, Invariance, PTL

\* The halves of a phone's connection are paired together, and neither stays
\* when the other is gone.  (#authChannel, #dropPeer)
THEOREM HalvesStayTogether == Spec => []BothHalves
<1>1. IInv => BothHalves
  BY DEF IInv
<1> QED BY <1>1, Invariance, PTL
================================================================================
