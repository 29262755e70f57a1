----------------------------- MODULE StoreClientInv -----------------------------
(* The inductive invariant behind StoreClient's two promises, for the          *)
(* schedules on which the bridge keeps them.                                   *)
EXTENDS StoreClient, BridgeStoreInv

SameStore == copy.store = led.store

\* The last change of what truth w is about may be newer than c.
Newer(w, c) == \E r \in w.dates : r > c

(* What the copy has otherwise than it is, or may be after a crash, has        *)
(* changed since.                                                              *)
CopyInv ==
  /\ copy.store <= led.store
  /\ SameStore =>
       /\ Taken(copy.rev, openRead)
       /\ \A w \in Truths(openRead) : Newer(w, copy.rev) \/ copy.ents[w.on] = w.is

(* The inductive invariant.                                                    *)
IInv ==
  /\ TypeOK
  /\ BridgeInv
  /\ CopyInv
================================================================================
