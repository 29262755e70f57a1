------------------------------ MODULE TurnQueueInv -----------------------------
(* The inductive invariant of TurnQueue, on the schedules where one turn is    *)
(* started at a time, no written end is forgotten for another turn's, and a    *)
(* message being handed over is not withdrawn.                                 *)
EXTENDS TurnQueue

SafeSchedules == Windows \cap {"overlap", "failed_end", "clear_race"} = {}

\* At most one turn is on its way to the agent, over an idle thread; the one
\* that has it is active.
StartInv ==
  /\ \A t, u \in Starting : t = u
  /\ Starting # {} => active = None
  /\ \A t \in Turn : at[t] \in {"preparing", "launching", "stuck"} => active = t

\* A turn is shown by one run, which works or whose end is being dealt with,
\* and is active until that end is booked.
ShowInv ==
  /\ \A r, s \in Turn : shows[r] = shows[s] /\ shows[r] # None => r = s
  /\ \A r \in Turn : shows[r] # None =>
       /\ at[shows[r]] = "running" /\ at[r] \in {"running", "ended"}
       /\ r \in live \/ end[r].stage \in {"waiting", "woken", "checking", "booking"}
       /\ end[r].stage = "booking" \/ active = shows[r]
  /\ \A r \in live : shows[r] # None /\ end[r].stage = "none"

\* The turn an end is about; an end reported once more finds it ended.
EndFits(r) ==
  /\ end[r].stage # "none" => at[r] \in {"running", "ended"}
  /\ end[r].stage \in {"waiting", "woken"} =>
       shows[r] # None \/ (at[r] = "ended" /\ end[r].kind = "completed")
  /\ end[r].stage \in {"checking", "booking"} =>
       /\ end[r].turn \in Turn
       /\ \/ shows[r] # None /\ shows[r] = end[r].turn
          \/ end[r].stage = "checking" /\ shows[r] = None /\ at[end[r].turn] = "ended"
  /\ end[r].stage = "settling" => shows[r] = None
  /\ end[r].stage = "failing" =>
       /\ shows[r] = None /\ end[r].turn \in Turn
       /\ at[end[r].turn] \in {"running", "ended"}
       /\ \A s \in Turn : shows[s] # end[r].turn
EndInv == \A r \in Turn : EndFits(r)

\* A run that took the message goes on, or its end waits for the hand-over; the
\* message is queued and the turn it was offered under active.
Launched == {"preparing", "launching", "stuck", "running", "failing", "ended"}
Read == offer.stage \in {"read", "taken", "placing"}
Readable ==
  /\ offer.stage = "offered"
  /\ offer.run \in live \/ at[offer.run] \in {"preparing", "launching"}
OfferInv ==
  /\ active # None => at[active] \in Launched
  /\ offer.stage # "none" =>
       /\ offer.turn \in Turn /\ offer.of \in Turn /\ offer.run \in Turn
       /\ at[offer.run] \in Launched
  /\ Read => shows[offer.run] # None
              /\ (offer.run \in live \/ end[offer.run].stage = "waiting")
  /\ Read \/ Readable => at[offer.turn] = "queued" /\ active = offer.of

\* What the agent was not given yet.
GivenInv ==
  \A t \in Turn :
    /\ given[t] <= 1
    /\ at[t] \in {"unsent", "storing", "parking", "queued", "promoting", "preparing", "launching"}
         /\ ~(Read /\ offer.turn = t) => given[t] = 0

\* A turn that shows as running is shown by a run or being failed.
RunningInv ==
  \A t \in Turn : at[t] = "running" =>
    \E r \in Turn : shows[r] = t \/ (end[r].stage = "failing" /\ end[r].turn = t)

\* What the theorems on TurnQueue rest on: the promises of sendTurn, #steer and
\* #onEvent, with what ties the queue, the runs and an offer to the active turn.
IInv ==
  /\ TypeOK /\ NobodyStranded /\ StartInv /\ ShowInv
  /\ EndInv /\ OfferInv /\ GivenInv /\ RunningInv

\* What PausedMeansWaiting rests on: nothing is handed over from a held queue,
\* so a hand-over cannot empty one.
PauseInv ==
  /\ PausedMeansWaiting
  /\ Delivering # None => ~paused
================================================================================
