------------------------------- MODULE TurnQueue -------------------------------
(* The turns of one conversation in the bridge's AgentManager: sent, queued    *)
(* behind the running one, handed to the agent at a pause of it, promoted when *)
(* it ends, held back when it was stopped, sent now, withdrawn.                *)
(*                                                                             *)
(* Every handler is cut at its awaits; requests and the agent's events come    *)
(* between any two pieces.  The agent and its adapter are the environment: a   *)
(* run is named by the turn it was started for, ends when it likes (a stop is  *)
(* one reason), and takes a further message only while it runs.                *)
EXTENDS Integers, Sequences, FiniteSets, SequencesExt

CONSTANTS
  MaxTurn,  \* bound: messages sent
  Windows   \* the schedules the run lets happen, of those named below

ASSUME TurnAssumption ==
  /\ MaxTurn \in Nat \ {0}
  /\ Windows \subseteq {"overlap", "stop_race", "late_pause", "clear_race", "failed_end"}

Turn == 1 .. MaxTurn
None == 0

VARIABLES
  at,       \* what the manager and the store hold of each turn, see Position
  active,   \* #activeTurnByThread
  queue,    \* #queueByThread
  paused,   \* #queuePausedByThread
  nextUp,   \* #sendNextAfterStop
  offer,    \* #steerInFlight: the queued turn offered to a run
  missed,   \* #missedPause
  shows,    \* #turnOfRun: the turn each run answers, None before and after
  inStep,   \* #runningStepsOfRun is not empty
  end,      \* the handler of each run's terminal event
  live,     \* the runs the agent works on
  given,    \* history: how often each message was given to the agent
  held      \* history: the turns waiting when the agent was stopped or broke

waiting == <<queue, paused, nextUp>>
offering == <<offer, missed>>
agent == <<shows, inStep, live, given>>
vars == <<at, active, waiting, offering, agent, end, held>>

Position ==
  {"unsent",
   "storing",     \* sendTurn, the thread found idle: awaits startTurn
   "parking",     \* #enqueueTurn: awaits queueTurn
   "queued",
   "promoting",   \* #drainQueue: awaits beginQueuedTurn
   "preparing",   \* #runTurn before adapter.sendTurn, called by sendTurn
   "launching",   \* the same, called by #drainQueue
   "running",
   "failing",     \* #drainQueue's catch: awaits failTurn
   "cancelling",  \* #cancelQueuedTurn: awaits the store
   "stuck",       \* #runTurn threw and nobody caught it
   "ended", "cancelled"}

NoOffer == [stage |-> "none", turn |-> None, of |-> None, run |-> None]
NoEnd == [stage |-> "none", kind |-> "completed", turn |-> None]

Init ==
  /\ at = [t \in Turn |-> "unsent"]
  /\ active = None
  /\ queue = <<>> /\ paused = FALSE /\ nextUp = None
  /\ offer = NoOffer /\ missed = FALSE
  /\ shows = [r \in Turn |-> None]
  /\ inStep = [r \in Turn |-> FALSE]
  /\ live = {}
  /\ end = [r \in Turn |-> NoEnd]
  /\ given = [t \in Turn |-> 0]
  /\ held = {}
--------------------------------------------------------------------------------
Moved(t, p) == [at EXCEPT ![t] = p]

\* #runOfTurn: the run that answers turn t.
RunOf(t) == IF \E r \in Turn : shows[r] = t THEN CHOOSE r \in Turn : shows[r] = t ELSE t

\* The turn that an event of run r is about.
TurnOf(r) == IF shows[r] = None THEN r ELSE shows[r]

\* The queue without turn t.
Without(t) ==
  IF t \in Range(queue) THEN RemoveAt(queue, CHOOSE i \in DOMAIN queue : queue[i] = t) ELSE queue

\* Turns on their way to the agent that #activeTurnByThread does not show yet.
Starting == {t \in Turn : at[t] \in {"storing", "promoting"}}

\* overlap: a second turn is started over one of them.
MayStart == "overlap" \in Windows \/ Starting = {}

\* #deliveringByThread
Delivering == IF offer.stage \in {"offered", "read", "taken", "placing"} THEN offer.turn ELSE None

\* The agent was stopped or broke, and the pause that follows is not set yet.
Stopping ==
  \/ \E r \in Turn : \/ end[r].stage \in {"booking", "settling"} /\ end[r].kind = "broken"
                     \/ end[r].stage = "failing"
  \/ \E t \in Turn : at[t] = "failing"

\* stop_race: the queue moves on in that time.
MayGoOn == "stop_race" \in Windows \/ queue = <<>> \/ ~Stopping

\* #drainQueue up to its await, with the turns at f, queue q and pause p.
Drain(f, q, p) ==
  IF p \/ active # None \/ q = <<>>
  THEN at' = f /\ queue' = q
  ELSE MayStart /\ at' = [f EXCEPT ![Head(q)] = "promoting"] /\ queue' = Tail(q)

\* #pauseQueue
\* late_pause: a later turn runs by now, and is being handed a queued message.
Pause ==
  /\ "late_pause" \in Windows \/ Delivering = None
  /\ paused' = (paused \/ queue # <<>>)

\* The turns a stop or failure holds back: not those behind a message the
\* person sent now.
HeldBack == IF queue # <<>> /\ Head(queue) = nextUp THEN {} ELSE Range(queue)
--------------------------------------------------------------------------------
(* Sending *)

\* sendTurn up to its first write.
Send(t) ==
  /\ at[t] = "unsent" /\ \A u \in 1 .. t - 1 : at[u] # "unsent"
  /\ \/ (active # None \/ queue # <<>>)
        /\ at' = Moved(t, "parking")
     \/ active = None /\ queue = <<>> /\ MayStart
        /\ at' = Moved(t, "storing")
  /\ UNCHANGED <<active, waiting, offering, agent, end, held>>

\* startTurn done: #runTurn.
Store(t) ==
  /\ at[t] = "storing"
  /\ at' = Moved(t, "preparing")
  /\ active' = t
  /\ UNCHANGED <<waiting, offering, agent, end, held>>

\* A broken variant: whoever queues last does not look whether the turn it
\* queued behind has ended.
ParkOnly(t) ==
  /\ at[t] = "parking"
  /\ at' = Moved(t, "queued") /\ queue' = Append(queue, t)
  /\ UNCHANGED <<active, paused, nextUp, offering, agent, end, held>>
\* queueTurn done: in the queue, which is drained if nothing runs.
Park(t) ==
  /\ at[t] = "parking"
  /\ MayGoOn
  /\ Drain(Moved(t, "queued"), Append(queue, t), paused)
  /\ UNCHANGED <<active, paused, nextUp, offering, agent, end, held>>

\* beginQueuedTurn done: #runTurn.
Begin(t) ==
  /\ at[t] = "promoting"
  /\ at' = Moved(t, "launching")
  /\ active' = t
  /\ UNCHANGED <<waiting, offering, agent, end, held>>

\* #drainQueue's catch: the turn could not be promoted or started.
StartFails(t) ==
  /\ at[t] \in {"promoting", "launching"}
  /\ at' = Moved(t, "failing")
  /\ active' = None
  /\ held' = HeldBack
  /\ UNCHANGED <<waiting, offering, agent, end>>

\* ... and the queue is held.
StartFailed(t) ==
  /\ at[t] = "failing"
  /\ at' = Moved(t, "ended")
  /\ Pause
  /\ UNCHANGED <<active, queue, nextUp, offering, agent, end, held>>

\* A turn that sendTurn started itself has no catch: it stays active, with no
\* run behind it, until the conversation is closed.
StartThrows(t) ==
  /\ at[t] = "preparing"
  /\ at' = Moved(t, "stuck")
  /\ UNCHANGED <<active, waiting, offering, agent, end, held>>

\* adapter.sendTurn
Hand(t) ==
  /\ at[t] \in {"preparing", "launching"}
  /\ at' = Moved(t, "running")
  /\ live' = live \cup {t}
  /\ shows' = [shows EXCEPT ![t] = t]
  /\ given' = [given EXCEPT ![t] = @ + 1]
  /\ UNCHANGED <<active, waiting, offering, inStep, end, held>>
--------------------------------------------------------------------------------
(* Handing a queued message to the running agent *)

\* What #deliverAtPause offers when the runs are inside steps or not.  Whether
\* the agent takes input while it works, or waits for an answer itself, is not
\* kept: whoever looks may also find that it does not.
Offers(step) ==
  IF paused \/ nextUp # None \/ active = None \/ queue = <<>>
  THEN {}
  ELSE {[stage |-> "offered", turn |-> Head(queue), of |-> active, run |-> r] :
          r \in {r \in {RunOf(active)} : ~step[r]}}

\* #trackStep, a step that starts.
StepStarts(r) ==
  /\ r \in live
  /\ inStep' = [inStep EXCEPT ![r] = TRUE]
  /\ UNCHANGED <<at, active, waiting, offering, shows, live, given, end, held>>

\* A step that ends, as the last one or not: a pause, unless an offer is out.
StepEnds(r) ==
  /\ r \in live
  /\ \E still \in {FALSE, inStep[r]} : inStep' = [inStep EXCEPT ![r] = still]
  /\ IF offer.stage = "none"
     THEN offer' \in {offer} \cup Offers(inStep') /\ UNCHANGED missed
     ELSE /\ missed' = TRUE
          /\ offer' = IF offer.stage = "taken" /\ offer.run = r /\ ~inStep'[r]
                      THEN [offer EXCEPT !.stage = "placing"] ELSE offer
  /\ UNCHANGED <<at, active, waiting, shows, live, given, end, held>>

\* The run reads the message (adapter.steerTurn will say so).
AgentReads ==
  /\ offer.stage = "offered" /\ offer.run \in live
  /\ offer' = [offer EXCEPT !.stage = "read"]
  /\ given' = [given EXCEPT ![offer.turn] = @ + 1]
  /\ UNCHANGED <<at, active, waiting, missed, shows, inStep, live, end, held>>

\* steerTurn has said so: the message takes its place when the step ends.
OfferTaken ==
  /\ offer.stage = "read"
  /\ offer' = [offer EXCEPT !.stage = IF inStep[offer.run] THEN "taken" ELSE "placing"]
  /\ UNCHANGED <<at, active, waiting, missed, agent, end, held>>

\* The offer is over (#steer's and #deliverAtPause's finally): a run's end that
\* waited for it goes on, and a pause missed because of it is taken.
Release ==
  /\ offer' \in IF missed THEN {NoOffer} \cup Offers(inStep) ELSE {NoOffer}
  /\ missed' = FALSE
  /\ end' = [r \in Turn |-> IF end[r].stage = "waiting"
                            THEN [end[r] EXCEPT !.stage = "woken"] ELSE end[r]]

\* Refused, failed, the run was over, or (#attemptSteer after the steps settled)
\* another turn is active by now: the message stays queued.
OfferRefused ==
  /\ \/ offer.stage = "offered"
     \/ offer.stage = "placing" /\ active # offer.of
  /\ Release
  /\ UNCHANGED <<at, active, waiting, agent, held>>

\* A broken variant: the message stays in the queue.
HandOffKept ==
  /\ offer.stage = "placing" /\ active = offer.of
  /\ at' = [at EXCEPT ![TurnOf(offer.run)] = "ended", ![offer.turn] = "running"]
  /\ shows' = [shows EXCEPT ![offer.run] = offer.turn]
  /\ active' = offer.turn
  /\ offer' = [offer EXCEPT !.stage = "handed"]
  /\ UNCHANGED <<waiting, missed, inStep, live, given, end, held>>
\* A broken variant: the run goes on under the message that was answered.
HandOffUnmapped ==
  /\ offer.stage = "placing" /\ active = offer.of
  /\ at' = [at EXCEPT ![TurnOf(offer.run)] = "ended", ![offer.turn] = "running"]
  /\ active' = offer.turn
  /\ queue' = Without(offer.turn)
  /\ offer' = [offer EXCEPT !.stage = "handed"]
  /\ UNCHANGED <<paused, nextUp, missed, shows, inStep, live, given, end, held>>
\* #handOff: the turn that was answered ends and the run goes on under this one.
HandOff ==
  /\ offer.stage = "placing" /\ active = offer.of
  /\ at' = [at EXCEPT ![TurnOf(offer.run)] = "ended", ![offer.turn] = "running"]
  /\ shows' = [shows EXCEPT ![offer.run] = offer.turn]
  /\ active' = offer.turn
  /\ queue' = Without(offer.turn)
  /\ offer' = [offer EXCEPT !.stage = "handed"]
  /\ UNCHANGED <<paused, nextUp, missed, inStep, live, given, end, held>>

\* handOffTurn is on disk.
HandedOff ==
  /\ offer.stage = "handed"
  /\ Release
  /\ UNCHANGED <<at, active, waiting, agent, held>>
--------------------------------------------------------------------------------
(* The end of a run *)

\* A broken variant: an end does not wait for an offer.
AgentEndsAtOnce(r, kind) ==
  /\ r \in live
  /\ live' = live \ {r}
  /\ inStep' = [inStep EXCEPT ![r] = FALSE]
  /\ offer' = IF offer.stage = "taken" /\ offer.run = r
              THEN [offer EXCEPT !.stage = "placing"] ELSE offer
  /\ end' = [end EXCEPT ![r] = [NoEnd EXCEPT !.kind = kind, !.stage = "woken"]]
  /\ UNCHANGED <<at, active, waiting, missed, shows, given, held>>
\* #onEvent, a terminal event: the run is inside no step any more, and its end
\* waits for the message it is being offered.
AgentEnds(r, kind) ==
  /\ r \in live
  /\ live' = live \ {r}
  /\ inStep' = [inStep EXCEPT ![r] = FALSE]
  /\ offer' = IF offer.stage = "taken" /\ offer.run = r
              THEN [offer EXCEPT !.stage = "placing"] ELSE offer
  /\ end' = [end EXCEPT ![r] = [NoEnd EXCEPT !.kind = kind, !.stage =
               IF offer.stage = "none" THEN "woken" ELSE "waiting"]]
  /\ UNCHANGED <<at, active, waiting, missed, shows, given, held>>

\* A CLI that outlives its own end reports it once more, some time later.
AgentEndsAgain(r) ==
  /\ r \notin live /\ given[r] > 0 /\ at[r] = "ended" /\ end[r].stage = "none"
  /\ end' = [end EXCEPT ![r] = [NoEnd EXCEPT !.stage =
               IF offer.stage = "none" THEN "woken" ELSE "waiting"]]
  /\ UNCHANGED <<at, active, waiting, offering, agent, held>>

\* The event's turn is named now.  After an error or a stop the thread is free
\* at once; a completion first asks whether the turn has ended already.
EndTaken(r) ==
  /\ end[r].stage = "woken"
  /\ \/ /\ end[r].kind = "completed"
        /\ end' = [end EXCEPT ![r].stage = "checking", ![r].turn = TurnOf(r)]
        /\ UNCHANGED <<active, held>>
     \/ /\ end[r].kind = "broken"
        /\ end' = [end EXCEPT ![r].stage = "booking", ![r].turn = TurnOf(r)]
        /\ active' = None
        /\ held' = HeldBack
  /\ UNCHANGED <<at, waiting, offering, agent>>

\* A broken variant: a second completion is taken as well.
EndCheckedTwice(r) ==
  /\ end[r].stage = "checking"
  /\ end' = [end EXCEPT ![r].stage = "booking"]
  /\ active' = None
  /\ UNCHANGED <<at, waiting, offering, agent, held>>
\* #hasEnded has answered: a turn ends once.
EndChecked(r) ==
  /\ end[r].stage = "checking"
  /\ IF at[end[r].turn] \in {"ended", "cancelled"}
     THEN end' = [end EXCEPT ![r] = NoEnd] /\ UNCHANGED active
     ELSE end' = [end EXCEPT ![r].stage = "booking"] /\ active' = None
  /\ UNCHANGED <<at, waiting, offering, agent, held>>

\* The end is on disk: #forgetRun.
Booked(r) ==
  /\ end[r].stage = "booking"
  /\ at' = Moved(end[r].turn, "ended")
  /\ shows' = [shows EXCEPT ![r] = None]
  /\ end' = [end EXCEPT ![r].stage = "settling"]
  /\ UNCHANGED <<active, waiting, offering, inStep, live, given, held>>

\* #onEvent's catch: the end could not be written.
\* failed_end: another turn was started meanwhile, and is forgotten.
BookFails(r) ==
  /\ end[r].stage = "booking"
  /\ "failed_end" \in Windows \/ active = None
  /\ end' = [end EXCEPT ![r].stage = "failing"]
  /\ shows' = [shows EXCEPT ![r] = None]
  /\ active' = None
  /\ held' = IF end[r].kind = "completed" /\ Starting = {} THEN HeldBack ELSE held
  /\ UNCHANGED <<at, waiting, offering, inStep, live, given>>

\* ... so the turn is failed, and the queue held.
BookFailed(r) ==
  /\ end[r].stage = "failing"
  /\ at' = Moved(end[r].turn, "ended")
  /\ end' = [end EXCEPT ![r] = NoEnd]
  /\ Pause
  /\ UNCHANGED <<active, queue, nextUp, offering, agent, held>>

\* The last part of a completed run's end: the next message runs.
Continue(r) ==
  /\ end[r].stage = "settling" /\ end[r].kind = "completed"
  /\ end' = [end EXCEPT ![r] = NoEnd]
  /\ nextUp' = None
  /\ MayGoOn /\ Drain(at, queue, paused)
  /\ UNCHANGED <<active, paused, offering, agent, held>>

\* A broken variant: the queue is held only if a message was sent now.
HoldOrGoOn(r) ==
  /\ end[r].stage = "settling" /\ end[r].kind = "broken"
  /\ end' = [end EXCEPT ![r] = NoEnd]
  /\ nextUp' = None
  /\ Drain(at, queue, FALSE)
  /\ UNCHANGED <<active, paused, offering, agent, held>>
\* #holdOrSendNext: the message sent now runs, or the queue is held.
HoldOrSendNext(r) ==
  /\ end[r].stage = "settling" /\ end[r].kind = "broken"
  /\ end' = [end EXCEPT ![r] = NoEnd]
  /\ nextUp' = None
  /\ IF queue # <<>> /\ Head(queue) = nextUp
     THEN paused' = FALSE /\ Drain(at, queue, FALSE)
     ELSE Pause /\ UNCHANGED <<at, queue>>
  /\ UNCHANGED <<active, offering, agent, held>>
--------------------------------------------------------------------------------
(* What the person asks of the queue *)

\* cancelTurn of a queued turn: out of the queue, then cancelled in the store.
\* (Of the running turn, it asks the agent to stop and changes nothing here.)
CancelQueued(t) ==
  /\ at[t] = "queued" /\ t \in Range(queue) /\ t # Delivering
  /\ at' = Moved(t, "cancelling")
  /\ queue' = Without(t)
  /\ UNCHANGED <<active, paused, nextUp, offering, agent, end, held>>
\* A broken variant: nothing lifts the pause of an emptied queue.
CancelledOnly(t) ==
  /\ at[t] = "cancelling"
  /\ at' = Moved(t, "cancelled")
  /\ UNCHANGED <<active, waiting, offering, agent, end, held>>
Cancelled(t) ==
  /\ at[t] = "cancelling"
  /\ at' = Moved(t, "cancelled")
  /\ paused' = (paused /\ queue # <<>>)
  /\ UNCHANGED <<active, queue, nextUp, offering, agent, end, held>>

\* Message t first in the queue.
Foremost(t) == <<t>> \o Without(t)

\* A broken variant: the message keeps its old place as well.
SendNowTwice(t) ==
  /\ t \in Range(queue) /\ t # Delivering /\ active # None
  /\ queue' = <<t>> \o queue
  /\ nextUp' = t
  /\ held' = {}
  /\ UNCHANGED <<at, paused, active, offering, agent, end>>
\* sendQueuedNow.  While a turn runs, it is being stopped for this one, unless
\* the adapter could not be asked; otherwise this one starts.
SendNow(t) ==
  /\ t \in Range(queue) /\ t # Delivering
  /\ \/ /\ active # None
        /\ queue' = Foremost(t)
        /\ nextUp' \in {t, None}
        /\ UNCHANGED <<at, paused>>
     \/ /\ active = None
        /\ paused' = FALSE
        /\ Drain(at, Foremost(t), FALSE)
        /\ UNCHANGED nextUp
  /\ held' = {}
  /\ UNCHANGED <<active, offering, agent, end>>

\* resumeQueue
Resume ==
  /\ paused' = FALSE
  /\ Drain(at, queue, FALSE)
  /\ held' = {}
  /\ UNCHANGED <<active, nextUp, offering, agent, end>>

\* A broken variant: what is dropped is not marked.
ClearUnmarked ==
  /\ queue # <<>>
  /\ queue' = <<>>
  /\ paused' = FALSE
  /\ held' = {}
  /\ UNCHANGED <<at, active, nextUp, offering, agent, end>>
\* clearQueue: the marks in the store follow one by one, with nothing between
\* them that depends on the others.
\* clear_race: a message the agent is taking is withdrawn too.
Clear ==
  /\ queue # <<>>
  /\ "clear_race" \in Windows \/ Delivering \notin Range(queue)
  /\ at' = [t \in Turn |-> IF t \in Range(queue) THEN "cancelled" ELSE at[t]]
  /\ queue' = <<>>
  /\ paused' = FALSE
  /\ held' = {}
  /\ UNCHANGED <<active, nextUp, offering, agent, end>>
--------------------------------------------------------------------------------
\* What the manager does by itself for turn t, for run r, and for an offer.
TurnStep(t) ==
  \/ Store(t) \/ Park(t) \/ Begin(t) \/ Hand(t)
  \/ StartFails(t) \/ StartFailed(t) \/ Cancelled(t)
EndStep(r) ==
  \/ EndTaken(r) \/ EndChecked(r) \/ Booked(r) \/ BookFails(r) \/ BookFailed(r)
  \/ Continue(r) \/ HoldOrSendNext(r)
OfferStep ==
  \/ AgentReads \/ OfferTaken \/ OfferRefused \/ HandOff \/ HandedOff

Next ==
  \/ \E t \in Turn : TurnStep(t) \/ Send(t) \/ StartThrows(t) \/ CancelQueued(t) \/ SendNow(t)
  \/ \E r \in Turn : EndStep(r) \/ StepStarts(r) \/ StepEnds(r) \/ AgentEndsAgain(r)
  \/ \E r \in Turn, kind \in {"completed", "broken"} : AgentEnds(r, kind)
  \/ OfferStep \/ Resume \/ Clear

\* The promises of the manager are kept going by the event loop; the agent ends
\* its runs, if only because somebody stops it, and answers an offer.
Fairness ==
  /\ \A t \in Turn : WF_vars(TurnStep(t))
  /\ \A r \in Turn : WF_vars(EndStep(r)) /\ WF_vars(\E kind \in {"completed", "broken"} : AgentEnds(r, kind))
  /\ WF_vars(OfferStep)

Spec == Init /\ [][Next]_vars
FairSpec == Spec /\ Fairness
--------------------------------------------------------------------------------
(* Properties *)

\* Every variable has its type, and no message is in the queue twice.
TypeOK ==
  /\ at \in [Turn -> Position] /\ active \in Turn \cup {None}
  /\ queue \in Seq(Turn) /\ IsInjective(queue) /\ paused \in BOOLEAN
  /\ nextUp \in Turn \cup {None}
  /\ offer \in [stage : {"none", "offered", "read", "taken", "placing", "handed"},
                turn : Turn \cup {None}, of : Turn \cup {None}, run : Turn \cup {None}]
  /\ missed \in BOOLEAN
  /\ shows \in [Turn -> Turn \cup {None}] /\ inStep \in [Turn -> BOOLEAN] /\ live \subseteq Turn
  /\ end \in [Turn -> [stage : {"none", "waiting", "woken", "checking", "booking", "settling", "failing"},
                       kind : {"completed", "broken"}, turn : Turn \cup {None}]]
  /\ given \in [Turn -> Nat] /\ held \subseteq Turn

\* What the store keeps as queued is what the live queue will run: no message
\* is left waiting with nobody to start it.  (#enqueueTurn, #drainQueue,
\* #handOff, clearQueue)
NobodyStranded == \A t \in Turn : at[t] = "queued" <=> t \in Range(queue)

\* The agent never reads a message twice: one that it took while its run was
\* ending is not run again from the queue.  (#steerInFlight and #onEvent)
NeverTwice == \A t \in Turn : given[t] <= 1

\* The bridge drives one turn at a time.  (sendTurn's header)
Driven == {t \in Turn : at[t] \in {"preparing", "launching"}} \cup {shows[r] : r \in live}
OneTurn == Cardinality(Driven) <= 1 /\ Cardinality(live) <= 1

\* What a working run says is shown under the turn the thread has active, so
\* that a stop reaches it; and a turn that shows as running has a run that
\* will end it.  (#handOff, #forgetRun, #onEvent)
Shown ==
  /\ \A r \in live : at[shows[r]] = "running" /\ active = shows[r]
  /\ \A t \in Turn : at[t] = "running" =>
       \E r \in Turn : \/ shows[r] = t /\ (r \in live \/ end[r].stage # "none")
                       \/ end[r].stage = "failing" /\ end[r].turn = t

\* A pause has something behind it.  (#pauseQueue and #cancelQueuedTurn)
PausedMeansWaiting == paused => queue # <<>> \/ \E t \in Turn : at[t] = "cancelling"

\* What waited when the agent was stopped or broke goes on waiting until the
\* person says otherwise.  (#queuePausedByThread)
StopHolds == \A t \in held : at[t] \in {"queued", "cancelling", "cancelled"}

\* A queued message is run, handed over or withdrawn, unless the queue is held
\* for the person or a turn that could not start keeps the thread.
Served ==
  \A t \in Turn :
    at[t] = "queued" ~> (at[t] # "queued" \/ paused \/ \E u \in Turn : at[u] = "stuck")

\* The manager keeps the promise of Conversation.
Answering(t) == at[t] \in {"preparing", "launching", "stuck"} \/ \E r \in live : shows[r] = t
Phase(t) ==
  IF at[t] \in {"unsent", "storing", "parking"} THEN "unsent"
  ELSE IF at[t] \in {"queued", "promoting"} THEN "waiting"
  ELSE IF at[t] \in {"cancelling", "cancelled"} THEN "dropped"
  ELSE IF Answering(t) THEN "answering" ELSE "over"
Promise == INSTANCE Conversation WITH phase <- [t \in Turn |-> Phase(t)]
ImplementsConversation == Promise!Spec
================================================================================
