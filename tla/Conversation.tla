----------------------------- MODULE Conversation ------------------------------
(* What the bridge promises of one conversation, however its messages are      *)
(* sent, queued, handed over, stopped and withdrawn: the agent answers one at  *)
(* a time, and a message that was answered, failed or withdrawn never comes    *)
(* back.                                                                       *)
CONSTANT Turn

VARIABLE phase  \* of each message

Init == phase = [t \in Turn |-> "unsent"]

Idle == \A t \in Turn : phase[t] # "answering"

Move(t, from, to) == phase[t] \in from /\ phase' = [phase EXCEPT ![t] = to]

Wait(t) == Move(t, {"unsent"}, "waiting")

Answer(t) == Idle /\ Move(t, {"unsent", "waiting"}, "answering")

\* The agent takes message t into the answer it is giving to message s.
Join(s, t) ==
  /\ phase[s] = "answering" /\ phase[t] = "waiting"
  /\ phase' = [phase EXCEPT ![s] = "over", ![t] = "answering"]

\* Answered, stopped or failed; or taken by an agent that finished with it.
Finish(t) == Move(t, {"waiting", "answering"}, "over")

Withdraw(T) ==
  /\ \A t \in T : phase[t] = "waiting"
  /\ phase' = [t \in Turn |-> IF t \in T THEN "dropped" ELSE phase[t]]

Next ==
  \/ \E t \in Turn : Wait(t) \/ Answer(t) \/ Finish(t)
  \/ \E s, t \in Turn : Join(s, t)
  \/ \E T \in SUBSET Turn : Withdraw(T)

Spec == Init /\ [][Next]_phase
================================================================================
