------------------------------- MODULE Delivery --------------------------------
(* What the catch-up of architecture/02a 5.9.2 promises, whatever connections  *)
(* come and go: the messages of the bridge are handed to the phone's app in    *)
(* the order of their numbers, and none the bridge still keeps is passed over. *)
(* It follows when each is handed over first; a repeat is a stutter here, and  *)
(* the session's own invariant AppliedInOrder forbids it.                      *)
EXTENDS Integers

VARIABLES
  sent,  \* the number of the latest message
  kept,  \* the oldest message the bridge still keeps
  got    \* the messages handed to the app

Init == sent = 0 /\ kept = 1 /\ got = {}

Send ==
  /\ sent' = sent + 1
  /\ kept' \in kept .. sent'
  /\ UNCHANGED got

Take(k) ==
  /\ k \in (1 .. sent) \ got
  /\ \A j \in kept .. k - 1 : j \in got
  /\ got' = got \cup {k}
  /\ UNCHANGED <<sent, kept>>

Next == Send \/ \E k \in 1 .. sent : Take(k)

Spec == Init /\ [][Next]_<<sent, kept, got>>
================================================================================
