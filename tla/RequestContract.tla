-------------------------- MODULE RequestContract --------------------------
(* What the request deadline of the Java server promises, without timers:  *)
(* every request has Timeout ticks to be answered, each on its own; when   *)
(* one of them is not, its channel is shut and no other; and a channel is  *)
(* shut by the server for no other reason than such a request, or an       *)
(* answer after which the connection was not to be kept.                   *)
EXTENDS Naturals

CONSTANTS Channels, PerChannel, Timeout

VARIABLES
    fate,   \* of each request of a channel
    clock,  \* ticks a waiting request has waited
    shut    \* why a channel is no longer served, or "open"

vars == <<fate, clock, shut>>

Requests == 1 .. PerChannel
Waiting(c) == {i \in Requests : fate[c][i] = "waiting"}

Init ==
    /\ fate = [c \in Channels |-> [i \in Requests |-> "none"]]
    /\ clock = [c \in Channels |-> [i \in Requests |-> 0]]
    /\ shut = [c \in Channels |-> "open"]

(* A request may still arrive, and an answer leave, while its channel is   *)
(* being shut.                                                             *)
Arrive(c, i) ==
    /\ fate[c][i] = "none"
    /\ fate' = [fate EXCEPT ![c][i] = "waiting"]
    /\ UNCHANGED <<clock, shut>>

Answer(c, i) ==
    /\ i \in Waiting(c)
    /\ fate' = [fate EXCEPT ![c][i] = "answered"]
    /\ clock' = [clock EXCEPT ![c][i] = 0]
    /\ \/ UNCHANGED shut
       \/ shut[c] = "open" /\ shut' = [shut EXCEPT ![c] = "answer"]

(* Of the requests of channel c, one has run out of time.                  *)
Expire(c) ==
    /\ shut[c] = "open"
    /\ \E i \in Waiting(c) : clock[c][i] = Timeout
    /\ shut' = [shut EXCEPT ![c] = "deadline"]
    /\ UNCHANGED <<fate, clock>>

(* The connection goes away, and with it what waits on the channels it     *)
(* carried.                                                                *)
Drop(C) ==
    /\ fate' = [c \in Channels |-> [i \in Requests |->
                  IF c \in C /\ i \in Waiting(c) THEN "dropped" ELSE fate[c][i]]]
    /\ clock' = [c \in Channels |-> [i \in Requests |->
                  IF c \in C /\ i \in Waiting(c) THEN 0 ELSE clock[c][i]]]
    /\ shut' = [c \in Channels |->
                  IF c \in C /\ shut[c] = "open" THEN "gone" ELSE shut[c]]

(* Time passes unless an open channel is due to be shut.                   *)
Tick ==
    /\ \A c \in Channels : shut[c] = "open" =>
           \A i \in Waiting(c) : clock[c][i] < Timeout
    /\ clock' = [c \in Channels |-> [i \in Requests |->
                  IF i \in Waiting(c) /\ clock[c][i] <= Timeout
                  THEN clock[c][i] + 1 ELSE clock[c][i]]]
    /\ UNCHANGED <<fate, shut>>

Next ==
    \/ \E c \in Channels : Expire(c) \/ \E i \in Requests : Arrive(c, i) \/ Answer(c, i)
    \/ \E C \in SUBSET Channels : Drop(C)
    \/ Tick

Spec == Init /\ [][Next]_vars
=============================================================================
