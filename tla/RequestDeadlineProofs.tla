----------------------- MODULE RequestDeadlineProofs -----------------------
(* Theorems about RequestDeadline for any channels, number of requests and *)
(* timeout.                                                                *)
EXTENDS RequestDeadline, TLAPS

----------------------------------------------------------------------------
(* The inductive invariant, by subject.                                    *)

(* Requests are read one after the other, and one at a time waits for its  *)
(* body; the queue of the handler holds the deadline of that one.          *)
QueueOf(c) ==
    /\ \A i \in Requests : i > read[c] => stage[c][i] = "none"
    /\ \A i \in Requests : stage[c][i] = "body" => awaiting[c] = <<i>>
    /\ ~Aggregating(c) => awaiting[c] = <<>>

QueueInv == \A c \in Channels : QueueOf(c)

(* A final response took the deadline of the request it answers, which no  *)
(* other one answers; an informational one took none and asks for nothing. *)
WriteOf(c, k) ==
    LET w == outbound[c][k]
    IN  /\ w.final => /\ w.deadline = w.request
                      /\ stage[c][w.request] \in {"written", "dropped"}
        /\ ~w.final => w.deadline = NoDeadline /\ ~w.close

WriteInv ==
    \A c \in Channels :
        /\ \A k \in DOMAIN outbound[c] : WriteOf(c, k)
        /\ \A k, l \in DOMAIN outbound[c] :
              outbound[c][k].final /\ outbound[c][l].final /\ k # l =>
                  outbound[c][k].request # outbound[c][l].request

(* Timers are those of unanswered requests; on an open channel of all.     *)
ArmedOf(c) ==
    /\ armed[c] \subseteq pending[c]
    /\ armed[c] \subseteq Unanswered(c)
    /\ state[c] = "active" => armed[c] = Unanswered(c) /\ pending[c] = armed[c]
    /\ state[c] = "inactive" => pending[c] = {}

ArmedInv == \A c \in Channels : ArmedOf(c)

(* Only an unanswered request has an age.                                  *)
AgeInv ==
    \A c \in Channels, i \in Requests :
        /\ i \notin Unanswered(c) => age[c][i] = 0
        /\ state[c] = "active" => age[c][i] <= Timeout

(* A channel is open until it has a cause to end, and until then none of   *)
(* its requests is given up; a deadline as the cause goes with a reset.    *)
CauseOf(c) ==
    /\ cause[c] = "none" => state[c] = "active"
    /\ \A i \in Requests : stage[c][i] = "dropped" => cause[c] # "none"
    /\ protocol = "http2" /\ cause[c] = "deadline" => reset[c]

CauseInv == \A c \in Channels : CauseOf(c)

IInv == TypeOK /\ QueueInv /\ WriteInv /\ ArmedInv /\ AgeInv /\ CauseInv

(* What the actions of the next-state relation come down to.               *)
HeadEffect(c, i, to) ==
    /\ i = read[c] + 1
    /\ stage' = [stage EXCEPT ![c][i] = to]
    /\ awaiting' = [awaiting EXCEPT ![c] = IF to = "body" THEN <<i>> ELSE <<>>]
    /\ \/ outbound' = outbound /\ to = "body"
       \/ \E w \in Write :
            /\ outbound' = [outbound EXCEPT ![c] = Append(@, w)]
            /\ w.request = i
            /\ w.final <=> to = "written"
            /\ w.deadline = IF w.final THEN i ELSE NoDeadline
            /\ w.close => w.final

LastEffect(c, i, w) ==
    /\ stage[c][i] = "body"
    /\ stage' = [stage EXCEPT ![c][i] = "written"]
    /\ awaiting' = [awaiting EXCEPT ![c] = <<>>]
    /\ outbound' = [outbound EXCEPT ![c] = Append(@, w)]
    /\ w.request = i
    /\ w.final
    /\ w.deadline = i

Settles(c, w) == w.final /\ stage[c][w.request] = "written"

DoneEffect(c, w) ==
    /\ outbound[c] # <<>> /\ w = Head(outbound[c])
    /\ outbound' = [outbound EXCEPT ![c] = Tail(@)]
    /\ armed' = [armed EXCEPT ![c] = @ \ {w.deadline}]
    /\ pending' = [pending EXCEPT ![c] = @ \ {w.deadline}]
    /\ \A d \in Channels, j \in Requests :
          LET settled == d = c /\ j = w.request /\ Settles(c, w)
          IN  /\ stage'[d][j] = IF settled THEN "answered" ELSE stage[d][j]
              /\ age'[d][j] = IF settled THEN 0 ELSE age[d][j]
    /\ \/ w.close /\ Close(c, "response")
       \/ ~w.close /\ UNCHANGED <<state, cause, reset>>
    /\ UNCHANGED <<protocol, read, ended, awaiting>>

----------------------------------------------------------------------------
(* Of the status codes that occur only 100 is not a final one.             *)
LEMMA FinalCodes == ((100 >= 200) = FALSE) /\ ((413 >= 200) = TRUE) /\ ((200 >= 200) = TRUE)
  OBVIOUS

(* What the handler does with a head and its response, if there is one: it *)
(* queues the deadline and takes it again for a final response only.       *)
LEMMA ReadHeadEffect ==
    ASSUME TypeOK, QueueInv, NEW c \in Channels, ReadHead(c)
    PROVE  \E i \in Requests, to \in {"body", "written"} : HeadEffect(c, i, to)
<1> DEFINE i == read[c] + 1
           queue == Append(awaiting[c], i)
<1>1. i \in Requests
  BY DEF ReadHead
<1>0. SUFFICES \E to \in {"body", "written"} : HeadEffect(c, i, to)
  BY <1>1
<1>2. awaiting[c] = <<>>
  BY DEF ReadHead, QueueInv, QueueOf
<1>3. queue = <<i>>
  BY <1>1, <1>2
<1>4. Rest(queue) = <<>> /\ Oldest(queue) = i
  BY <1>1, <1>3 DEF Rest, Oldest
<1> HIDE DEF queue, i
<1>5. CASE /\ StageGoes(c, i, "body")
           /\ awaiting' = [awaiting EXCEPT ![c] = queue]
           /\ UNCHANGED outbound
  <2>1. HeadEffect(c, i, "body")
    BY <1>3, <1>5 DEF StageGoes, HeadEffect, i
  <2>2. QED
    BY <2>1
<1>6. CASE /\ StageGoes(c, i, "body")
           /\ Respond(c, i, 100, FALSE, queue)
  <2> DEFINE w == [request |-> i, final |-> 100 >= 200, close |-> FALSE,
                   deadline |-> IF Takes(100) THEN Oldest(queue) ELSE NoDeadline]
  <2>1. w \in Write
    BY <1>1 DEF Write, Takes
  <2>2. /\ awaiting' = [awaiting EXCEPT ![c] = <<i>>]
        /\ outbound' = [outbound EXCEPT ![c] = Append(@, w)]
    <3>1. outbound' = [outbound EXCEPT ![c] = Append(@, w)]
      BY <1>6 DEF Respond
    <3>2. awaiting' = [awaiting EXCEPT ![c] = <<i>>]
      BY <1>6, <1>3 DEF Respond, Takes
    <3>3. QED
      BY <3>1, <3>2
  <2>3. stage' = [stage EXCEPT ![c][i] = "body"]
    BY <1>6 DEF StageGoes
  <2>4. w.request = i /\ ~w.final /\ w.deadline = NoDeadline /\ ~w.close
    <3>1. ~w.final
      BY FinalCodes, Zenon
    <3>2. w.request = i /\ w.deadline = NoDeadline /\ ~w.close
      BY DEF Takes
    <3>3. QED
      BY <3>1, <3>2
  <2> HIDE DEF w
  <2>5. HeadEffect(c, i, "body")
    BY <2>1, <2>2, <2>3, <2>4 DEF HeadEffect, i
  <2>6. QED
    BY <2>5
<1>7. ASSUME StageGoes(c, i, "written"),
             NEW close \in BOOLEAN, Respond(c, i, 413, close, queue)
      PROVE  HeadEffect(c, i, "written")
  <2> DEFINE w == [request |-> i, final |-> 413 >= 200, close |-> close,
                   deadline |-> IF Takes(413) THEN Oldest(queue) ELSE NoDeadline]
  <2>1. w \in Write
    BY <1>1, <1>4 DEF Write, Takes
  <2>2. /\ awaiting' = [awaiting EXCEPT ![c] = <<>>]
        /\ outbound' = [outbound EXCEPT ![c] = Append(@, w)]
    <3>1. outbound' = [outbound EXCEPT ![c] = Append(@, w)]
      BY <1>7 DEF Respond
    <3>2. awaiting' = [awaiting EXCEPT ![c] = <<>>]
      BY <1>7, <1>4 DEF Respond, Takes
    <3>3. QED
      BY <3>1, <3>2
  <2>3. stage' = [stage EXCEPT ![c][i] = "written"]
    BY <1>7 DEF StageGoes
  <2>4. w.request = i /\ w.final /\ w.deadline = i
    <3>1. w.final
      BY FinalCodes, Zenon
    <3>2. w.request = i /\ w.deadline = i
      BY <1>4 DEF Takes
    <3>3. QED
      BY <3>1, <3>2
  <2> HIDE DEF w
  <2>5. QED
    BY <2>1, <2>2, <2>3, <2>4 DEF HeadEffect, i
<1>8. \/ /\ StageGoes(c, i, "body")
         /\ awaiting' = [awaiting EXCEPT ![c] = queue]
         /\ UNCHANGED outbound
      \/ StageGoes(c, i, "body") /\ Respond(c, i, 100, FALSE, queue)
      \/ /\ StageGoes(c, i, "written")
         /\ \E close \in BOOLEAN : Respond(c, i, 413, close, queue)
  BY DEF ReadHead, queue, i
<1>9. QED
  BY <1>5, <1>6, <1>7, <1>8

(* The response to the request whose body is complete takes its deadline.  *)
LEMMA ReadLastEffect ==
    ASSUME TypeOK, QueueInv, NEW c \in Channels, ReadLast(c)
    PROVE  \E i \in Requests, w \in Write : LastEffect(c, i, w)
<1>1. PICK i \in Requests, close \in BOOLEAN :
        /\ stage[c][i] = "body"
        /\ StageGoes(c, i, "written")
        /\ Respond(c, i, 200, close, awaiting[c])
  BY DEF ReadLast
<1>2. awaiting[c] = <<i>>
  BY <1>1 DEF QueueInv, QueueOf
<1>3. Rest(awaiting[c]) = <<>> /\ Oldest(awaiting[c]) = i
  BY <1>2 DEF Rest, Oldest
<1> DEFINE w == [request |-> i, final |-> 200 >= 200, close |-> close,
                 deadline |-> IF Takes(200) THEN Oldest(awaiting[c]) ELSE NoDeadline]
<1>4. w \in Write
  BY <1>3 DEF Write, Takes
<1>5. /\ awaiting' = [awaiting EXCEPT ![c] = <<>>]
      /\ outbound' = [outbound EXCEPT ![c] = Append(@, w)]
  <2>1. outbound' = [outbound EXCEPT ![c] = Append(@, w)]
    BY <1>1 DEF Respond
  <2>2. awaiting' = [awaiting EXCEPT ![c] = <<>>]
    BY <1>1, <1>3 DEF Respond, Takes
  <2>3. QED
    BY <2>1, <2>2
<1>6. stage' = [stage EXCEPT ![c][i] = "written"]
  BY <1>1 DEF StageGoes
<1>7. w.request = i /\ w.final /\ w.deadline = i
  <2>1. w.final
    BY FinalCodes, Zenon
  <2>2. w.request = i /\ w.deadline = i
    BY <1>3 DEF Takes
  <2>3. QED
    BY <2>1, <2>2
<1> HIDE DEF w
<1>8. QED
  BY <1>1, <1>4, <1>5, <1>6, <1>7 DEF LastEffect

(* A promise that completes settles at most the request it is for.         *)
LEMMA WriteCompletesEffect ==
    ASSUME TypeOK, NEW c \in Channels, WriteCompletes(c)
    PROVE  \E w \in Write : DoneEffect(c, w)
<1> DEFINE w == Head(outbound[c])
<1>1. outbound[c] # <<>> /\ w \in Write
  BY DEF WriteCompletes, TypeOK
<1>2. w.request \in Requests
  BY <1>1 DEF Write
<1>3. \A d \in Channels, j \in Requests :
          LET settled == d = c /\ j = w.request /\ Settles(c, w)
          IN  stage'[d][j] = IF settled THEN "answered" ELSE stage[d][j]
  <2>1. stage' = [stage EXCEPT ![c][w.request] = IF Settles(c, w) THEN "answered" ELSE @]
    BY DEF WriteCompletes, Settles
  <2>2. QED
    BY <1>2, <2>1 DEF TypeOK
<1>4. \A d \in Channels, j \in Requests :
          LET settled == d = c /\ j = w.request /\ Settles(c, w)
          IN  age'[d][j] = IF settled THEN 0 ELSE age[d][j]
  <2>1. age' = [age EXCEPT ![c][w.request] = IF Settles(c, w) THEN 0 ELSE @]
    BY DEF WriteCompletes, Settles
  <2>2. QED
    BY <1>2, <2>1 DEF TypeOK
<1>5. \/ w.close /\ Close(c, "response")
      \/ ~w.close /\ UNCHANGED <<state, cause, reset>>
  BY DEF WriteCompletes
<1>6. /\ outbound' = [outbound EXCEPT ![c] = Tail(@)]
      /\ armed' = [armed EXCEPT ![c] = @ \ {w.deadline}]
      /\ pending' = [pending EXCEPT ![c] = @ \ {w.deadline}]
      /\ UNCHANGED <<protocol, read, ended, awaiting>>
  BY DEF WriteCompletes
<1> HIDE DEF w
<1>7. DoneEffect(c, w)
  BY <1>1, <1>3, <1>4, <1>5, <1>6 DEF DoneEffect, w
<1>8. QED
  BY <1>1, <1>7

(* Every step keeps the types.                                             *)
LEMMA TypeStep ==
    ASSUME IInv, [Next]_vars
    PROVE  TypeOK'
<1> USE DEF IInv, TypeOK
<1>1. CASE UNCHANGED vars
  BY <1>1 DEF vars, handlerVars, streamVars
<1>2. ASSUME NEW c \in Channels, ReadHead(c) PROVE TypeOK'
  <2>1. PICK i \in Requests, to \in {"body", "written"} : HeadEffect(c, i, to)
    BY <1>2, ReadHeadEffect
  <2>2. stage' \in [Channels -> [Requests -> {"none", "body", "written", "answered",
                                              "dropped"}]]
    BY <2>1 DEF HeadEffect
  <2>3. (IF to = "body" THEN <<i>> ELSE <<>>) \in Seq(Requests)
    OBVIOUS
  <2>4. awaiting' \in [Channels -> Seq(Requests)]
    BY <2>1, <2>3 DEF HeadEffect
  <2>5. outbound' \in [Channels -> Seq(Write)]
    <3>1. CASE outbound' = outbound
      BY <3>1
    <3>2. ASSUME NEW w \in Write, outbound' = [outbound EXCEPT ![c] = Append(@, w)]
          PROVE  outbound' \in [Channels -> Seq(Write)]
      BY <3>2
    <3>3. QED
      BY <2>1, <3>1, <3>2 DEF HeadEffect
  <2>6. read' \in [Channels -> 0 .. PerChannel]
    BY <1>2, PerChannelAssumption DEF ReadHead, Requests
  <2>7. armed' \in [Channels -> SUBSET Requests] /\ pending' \in [Channels -> SUBSET Requests]
    BY <1>2 DEF ReadHead
  <2>8. UNCHANGED <<protocol, state, cause, age, ended, reset>>
    BY <1>2 DEF ReadHead, streamVars
  <2>9. QED
    BY <2>2, <2>4, <2>5, <2>6, <2>7, <2>8
<1>3. ASSUME NEW c \in Channels, ReadLast(c) PROVE TypeOK'
  <2>1. PICK i \in Requests, w \in Write : LastEffect(c, i, w)
    BY <1>3, ReadLastEffect
  <2>2. QED
    BY <1>3, <2>1 DEF ReadLast, LastEffect
<1>4. ASSUME NEW c \in Channels, WriteCompletes(c) PROVE TypeOK'
  <2>1. outbound' \in [Channels -> Seq(Write)]
    BY <1>4 DEF WriteCompletes
  <2>2. armed' \in [Channels -> SUBSET Requests] /\ pending' \in [Channels -> SUBSET Requests]
    BY <1>4 DEF WriteCompletes
  <2>3. stage' \in [Channels -> [Requests -> {"none", "body", "written", "answered",
                                              "dropped"}]]
    BY <1>4 DEF WriteCompletes
  <2>4. age' \in [Channels -> [Requests -> 0 .. Timeout + 1]]
    <3>1. PICK i, n : age' = [age EXCEPT ![c][i] = n] /\ n \in {age[c][i], 0}
      BY <1>4 DEF WriteCompletes
    <3>2. 0 \in 0 .. Timeout + 1
      BY TimeoutAssumption
    <3>3. QED
      BY <3>1, <3>2
  <2>5. /\ state' \in [Channels -> {"active", "resetting", "closing", "inactive"}]
        /\ cause' \in [Channels -> {"none", "deadline", "response", "gone"}]
        /\ reset' \in [Channels -> BOOLEAN]
    <3>1. CASE UNCHANGED <<state, cause, reset>>
      BY <3>1
    <3>2. CASE Close(c, "response")
      BY <3>2 DEF Close
    <3>3. QED
      BY <1>4, <3>1, <3>2 DEF WriteCompletes
  <2>6. QED
    BY <1>4, <2>1, <2>2, <2>3, <2>4, <2>5 DEF WriteCompletes
<1>5. ASSUME NEW c \in Channels, ResetFlushed(c) PROVE TypeOK'
  BY <1>5 DEF ResetFlushed, handlerVars, streamVars
<1>6. ASSUME NEW C \in SUBSET Channels, Inactive(C) PROVE TypeOK'
  <2>1. /\ state' \in [Channels -> {"active", "resetting", "closing", "inactive"}]
        /\ cause' \in [Channels -> {"none", "deadline", "response", "gone"}]
    BY <1>6 DEF Inactive
  <2>2. armed' \in [Channels -> SUBSET Requests] /\ pending' \in [Channels -> SUBSET Requests]
    BY <1>6 DEF Inactive
  <2>3. awaiting' \in [Channels -> Seq(Requests)]
    BY <1>6 DEF Inactive
  <2>4. stage' \in [Channels -> [Requests -> {"none", "body", "written", "answered",
                                              "dropped"}]]
    BY <1>6 DEF Inactive
  <2>5. age' \in [Channels -> [Requests -> 0 .. Timeout + 1]]
    BY <1>6, TimeoutAssumption DEF Inactive
  <2>6. QED
    BY <1>6, <2>1, <2>2, <2>3, <2>4, <2>5 DEF Inactive, streamVars
<1>7. ASSUME NEW c \in Channels, NEW i \in Requests, FireDeadline(c, i) PROVE TypeOK'
  BY <1>7 DEF FireDeadline, Close
<1>8. CASE Tick
  <2>1. \A c \in Channels, i \in Requests :
            age[c][i] \in 0 .. Timeout + 1 /\ (age[c][i] <= Timeout => age[c][i] + 1 \in 0 .. Timeout + 1)
    BY TimeoutAssumption
  <2>2. age' \in [Channels -> [Requests -> 0 .. Timeout + 1]]
    BY <1>8, <2>1 DEF Tick
  <2>3. QED
    BY <1>8, <2>2 DEF Tick, handlerVars, streamVars
<1>9. QED
  BY <1>1, <1>2, <1>3, <1>4, <1>5, <1>6, <1>7, <1>8 DEF Next, Fire, Closed, PeerLeaves






(* Every step keeps the order of requests and their place in the queue.    *)
LEMMA QueueStep ==
    ASSUME IInv, [Next]_vars
    PROVE  QueueInv'
<1> SUFFICES ASSUME NEW d \in Channels PROVE QueueOf(d)'
  BY DEF QueueInv
<1>0. TypeOK /\ QueueInv /\ QueueOf(d)
  BY DEF IInv, QueueInv
<1>1. CASE UNCHANGED <<read, stage, awaiting>>
  BY <1>0, <1>1 DEF QueueOf, Aggregating
<1>2. ASSUME NEW c \in Channels, ReadHead(c) PROVE QueueOf(d)'
  <2>1. PICK i \in Requests, to \in {"body", "written"} : HeadEffect(c, i, to)
    BY <1>0, <1>2, ReadHeadEffect
  <2>2. /\ read' = [read EXCEPT ![c] = i]
        /\ ~Aggregating(c)
    BY <1>2, <2>1 DEF ReadHead, HeadEffect
  <2>3. CASE d # c
    BY <1>0, <2>1, <2>2, <2>3 DEF QueueOf, HeadEffect, Aggregating, TypeOK
  <2>4. CASE d = c
    <3>1. \A j \in Requests : stage'[d][j] = IF j = i THEN to ELSE stage[d][j]
      BY <1>0, <2>1, <2>4 DEF HeadEffect, TypeOK
    <3>2. read'[d] = i /\ i = read[d] + 1 /\ read[d] \in Nat
      BY <1>0, <2>1, <2>2, <2>4 DEF HeadEffect, TypeOK
    <3>3. awaiting'[d] = IF to = "body" THEN <<i>> ELSE <<>>
      BY <1>0, <2>1, <2>4 DEF HeadEffect, TypeOK
    <3>4. \A j \in Requests : stage[d][j] # "body"
      BY <2>2, <2>4 DEF Aggregating
    <3>5. \A j \in Requests : j > read'[d] => stage'[d][j] = "none"
      BY <1>0, <3>1, <3>2 DEF QueueOf, Requests
    <3>6. QED
      BY <3>1, <3>3, <3>4, <3>5 DEF QueueOf, Aggregating
  <2>5. QED
    BY <2>3, <2>4
<1>3. ASSUME NEW c \in Channels, ReadLast(c) PROVE QueueOf(d)'
  <2>1. PICK i \in Requests, w \in Write : LastEffect(c, i, w)
    BY <1>0, <1>3, ReadLastEffect
  <2>2. read' = read
    BY <1>3 DEF ReadLast
  <2>3. CASE d # c
    BY <1>0, <2>1, <2>2, <2>3 DEF QueueOf, LastEffect, Aggregating, TypeOK
  <2>4. CASE d = c
    <3>1. \A j \in Requests : stage'[d][j] = IF j = i THEN "written" ELSE stage[d][j]
      BY <1>0, <2>1, <2>4 DEF LastEffect, TypeOK
    <3>2. awaiting'[d] = <<>>
      BY <1>0, <2>1, <2>4 DEF LastEffect, TypeOK
    <3>3. stage[d][i] = "body" /\ awaiting[d] = <<i>>
      BY <1>0, <2>1, <2>4 DEF LastEffect, QueueOf
    <3>4. \A j \in Requests : stage[d][j] = "body" => j = i
      BY <1>0, <3>3 DEF QueueOf
    <3>5. \A j \in Requests : j > read'[d] => stage'[d][j] = "none"
      BY <1>0, <2>2, <3>1, <3>3 DEF QueueOf
    <3>6. QED
      BY <3>1, <3>2, <3>4, <3>5 DEF QueueOf, Aggregating
  <2>5. QED
    BY <2>3, <2>4
<1>4. ASSUME NEW c \in Channels, WriteCompletes(c) PROVE QueueOf(d)'
  <2>1. UNCHANGED <<read, awaiting>>
    BY <1>4 DEF WriteCompletes
  <2>2. \A j \in Requests :
            \/ stage'[d][j] = stage[d][j]
            \/ stage[d][j] = "written" /\ stage'[d][j] = "answered"
    <3>1. PICK w \in Write : DoneEffect(c, w)
      BY <1>0, <1>4, WriteCompletesEffect
    <3>2. \A j \in Requests :
            stage'[d][j] = IF d = c /\ j = w.request /\ Settles(c, w)
                           THEN "answered" ELSE stage[d][j]
      BY <3>1 DEF DoneEffect
    <3>3. QED
      BY <3>2 DEF Settles
  <2>3. QED
    BY <1>0, <2>1, <2>2 DEF QueueOf, Aggregating
<1>5. ASSUME NEW C \in SUBSET Channels, Inactive(C) PROVE QueueOf(d)'
  <2>1. read' = read /\ awaiting'[d] = IF d \in C THEN <<>> ELSE awaiting[d]
    BY <1>5 DEF Inactive
  <2>2. \A j \in Requests :
            stage'[d][j] = IF d \in C /\ stage[d][j] \in {"body", "written"}
                           THEN "dropped" ELSE stage[d][j]
    BY <1>5 DEF Inactive, Unanswered
  <2>3. QED
    BY <1>0, <2>1, <2>2 DEF QueueOf, Aggregating
<1>6. CASE UNCHANGED vars
  BY <1>1, <1>6 DEF vars, handlerVars
<1>7. ASSUME NEW c \in Channels, ResetFlushed(c) PROVE QueueOf(d)'
  BY <1>1, <1>7 DEF ResetFlushed, handlerVars
<1>8. ASSUME NEW c \in Channels, NEW i \in Requests, FireDeadline(c, i) PROVE QueueOf(d)'
  BY <1>1, <1>8 DEF FireDeadline
<1>9. CASE Tick
  BY <1>1, <1>9 DEF Tick, handlerVars
<1>10. QED
  BY <1>2, <1>3, <1>4, <1>5, <1>6, <1>7, <1>8, <1>9 DEF Next, Fire, Closed, PeerLeaves
(* The members of a sequence of writes.                                    *)
LEMMA WriteMember ==
    ASSUME NEW q \in Seq(Write), NEW k \in DOMAIN q
    PROVE  q[k] \in Write /\ q[k].request \in Requests
<1>1. q[k] \in Write
  OBVIOUS
<1>2. QED
  BY <1>1 DEF Write

(* The stages of the requests of final responses only go from written to   *)
(* dropped while those responses wait.                                     *)
LEMMA WriteKept ==
    ASSUME TypeOK, WriteInv, NEW d \in Channels, outbound'[d] = outbound[d],
           \A j \in Requests : stage[d][j] \in {"written", "dropped"} =>
                                   stage'[d][j] \in {"written", "dropped"}
    PROVE  /\ \A k \in DOMAIN outbound'[d] : WriteOf(d, k)'
           /\ \A k, l \in DOMAIN outbound'[d] :
                 outbound'[d][k].final /\ outbound'[d][l].final /\ k # l =>
                     outbound'[d][k].request # outbound'[d][l].request
<1>1. outbound[d] \in Seq(Write)
  BY DEF TypeOK
<1>2. \A k \in DOMAIN outbound[d] : outbound[d][k] \in Write /\ outbound[d][k].request \in Requests
  BY <1>1, WriteMember
<1>3. QED
  BY <1>2 DEF WriteInv, WriteOf

(* A response for a request that had none before takes its place in line.  *)
LEMMA WriteAppended ==
    ASSUME TypeOK, WriteInv, NEW d \in Channels, NEW w \in Write, NEW i \in Requests,
           outbound'[d] = Append(outbound[d], w),
           w.request = i, stage[d][i] \notin {"written", "dropped"},
           \A j \in Requests \ {i} : stage'[d][j] = stage[d][j],
           w.final => w.deadline = i /\ stage'[d][i] = "written",
           ~w.final => w.deadline = NoDeadline /\ ~w.close
    PROVE  /\ \A k \in DOMAIN outbound'[d] : WriteOf(d, k)'
           /\ \A k, l \in DOMAIN outbound'[d] :
                 outbound'[d][k].final /\ outbound'[d][l].final /\ k # l =>
                     outbound'[d][k].request # outbound'[d][l].request
<1> DEFINE q == outbound[d]
<1>0. q \in Seq(Write)
  BY DEF TypeOK
<1>1. PICK n \in Nat : n = Len(q) + 1
  BY <1>0
<1>2. /\ DOMAIN outbound'[d] = 1 .. n
      /\ outbound'[d][n] = w
      /\ \A k \in 1 .. n : k # n => k \in DOMAIN q /\ outbound'[d][k] = q[k]
  BY <1>0, <1>1
<1>3. \A k \in DOMAIN q : q[k] \in Write /\ q[k].request \in Requests
  BY <1>0, WriteMember
<1>4. \A k \in DOMAIN q : /\ WriteOf(d, k)
                          /\ q[k].final => q[k].request # i
  BY <1>3 DEF WriteInv, WriteOf
<1>5. \A k \in 1 .. n : k # n => WriteOf(d, k)'
  BY <1>2, <1>3, <1>4 DEF WriteOf
<1>6. WriteOf(d, n)'
  <2>1. outbound'[d][n] = w
    BY <1>2
  <2>2. CASE w.final
    BY <2>1, <2>2 DEF WriteOf
  <2>3. CASE ~w.final
    BY <2>1, <2>3 DEF WriteOf
  <2>4. QED
    BY <2>2, <2>3
<1>7. \A k, l \in DOMAIN q : q[k].final /\ q[l].final /\ k # l => q[k].request # q[l].request
  BY DEF WriteInv
<1> HIDE DEF q
<1>8. \A k, l \in 1 .. n :
         outbound'[d][k].final /\ outbound'[d][l].final /\ k # l =>
             outbound'[d][k].request # outbound'[d][l].request
  <2>1. SUFFICES ASSUME NEW k \in 1 .. n, NEW l \in 1 .. n, k # l,
                        outbound'[d][k].final, outbound'[d][l].final
                 PROVE  outbound'[d][k].request # outbound'[d][l].request
    OBVIOUS
  <2>2. CASE k = n
    BY <1>2, <1>4, <2>1, <2>2
  <2>3. CASE l = n
    BY <1>2, <1>4, <2>1, <2>3
  <2>4. CASE k # n /\ l # n
    BY <1>2, <1>7, <2>1, <2>4
  <2>5. QED
    BY <2>2, <2>3, <2>4
<1>9. \A k \in DOMAIN outbound'[d] : WriteOf(d, k)'
  BY <1>2, <1>5, <1>6
<1>10. QED
  BY <1>2, <1>8, <1>9

(* Every step keeps what is known of the responses that wait.              *)
LEMMA WriteStep ==
    ASSUME IInv, [Next]_vars
    PROVE  WriteInv'
<1> DEFINE Holds(d) ==
        /\ \A k \in DOMAIN outbound'[d] : WriteOf(d, k)'
        /\ \A k, l \in DOMAIN outbound'[d] :
              outbound'[d][k].final /\ outbound'[d][l].final /\ k # l =>
                  outbound'[d][k].request # outbound'[d][l].request
<1> SUFFICES ASSUME NEW d \in Channels PROVE Holds(d)
  BY DEF WriteInv
<1>0. TypeOK /\ QueueInv /\ WriteInv
  BY DEF IInv
<1> HIDE DEF Holds
<1>1. ASSUME UNCHANGED <<stage, outbound>> PROVE Holds(d)
  BY <1>0, <1>1, WriteKept DEF Holds
<1>2. ASSUME NEW c \in Channels, ReadHead(c) PROVE Holds(d)
  <2>1. PICK i \in Requests, to \in {"body", "written"} : HeadEffect(c, i, to)
    BY <1>0, <1>2, ReadHeadEffect
  <2>2. stage[c][i] = "none"
    BY <1>0, <2>1 DEF HeadEffect, QueueInv, QueueOf, TypeOK, Requests
  <2>3. \A e \in Channels, j \in Requests :
            stage'[e][j] = IF e = c /\ j = i THEN to ELSE stage[e][j]
    BY <1>0, <2>1 DEF HeadEffect, TypeOK
  <2>4. CASE outbound'[d] = outbound[d]
    BY <1>0, <2>2, <2>3, <2>4, WriteKept DEF Holds
  <2>5. CASE outbound'[d] # outbound[d]
    <3>1. PICK w \in Write :
            /\ outbound' = [outbound EXCEPT ![c] = Append(@, w)]
            /\ w.request = i
            /\ w.final <=> to = "written"
            /\ w.deadline = IF w.final THEN i ELSE NoDeadline
            /\ w.close => w.final
      BY <2>1, <2>5 DEF HeadEffect
    <3>2. d = c /\ outbound'[d] = Append(outbound[d], w)
      BY <1>0, <2>5, <3>1 DEF TypeOK
    <3>3. /\ w.final => w.deadline = i /\ stage'[d][i] = "written"
          /\ ~w.final => w.deadline = NoDeadline /\ ~w.close
          /\ stage[d][i] \notin {"written", "dropped"}
          /\ \A j \in Requests \ {i} : stage'[d][j] = stage[d][j]
      BY <2>2, <2>3, <3>1, <3>2
    <3>4. QED
      BY <1>0, <3>1, <3>2, <3>3, WriteAppended DEF Holds
  <2>6. QED
    BY <2>4, <2>5
<1>3. ASSUME NEW c \in Channels, ReadLast(c) PROVE Holds(d)
  <2>1. PICK i \in Requests, w \in Write : LastEffect(c, i, w)
    BY <1>0, <1>3, ReadLastEffect
  <2>2. \A e \in Channels, j \in Requests :
            stage'[e][j] = IF e = c /\ j = i THEN "written" ELSE stage[e][j]
    BY <1>0, <2>1 DEF LastEffect, TypeOK
  <2>3. CASE d # c
    <3>1. outbound'[d] = outbound[d]
      BY <1>0, <2>1, <2>3 DEF LastEffect, TypeOK
    <3>2. QED
      BY <1>0, <2>2, <2>3, <3>1, WriteKept DEF Holds
  <2>4. CASE d = c
    <3>1. /\ outbound'[d] = Append(outbound[d], w)
          /\ w.request = i /\ w.final /\ w.deadline = i
          /\ stage[d][i] \notin {"written", "dropped"}
      BY <1>0, <2>1, <2>4 DEF LastEffect, TypeOK
    <3>2. /\ stage'[d][i] = "written"
          /\ \A j \in Requests \ {i} : stage'[d][j] = stage[d][j]
      BY <2>2, <2>4
    <3>3. QED
      BY <1>0, <3>1, <3>2, WriteAppended DEF Holds
  <2>5. QED
    BY <2>3, <2>4
<1>4. ASSUME NEW c \in Channels, WriteCompletes(c) PROVE Holds(d)
  <2>1. PICK w \in Write : DoneEffect(c, w)
    BY <1>0, <1>4, WriteCompletesEffect
  <2>2. \A e \in Channels, j \in Requests :
            stage'[e][j] = IF e = c /\ j = w.request /\ Settles(c, w)
                           THEN "answered" ELSE stage[e][j]
    BY <2>1 DEF DoneEffect
  <2>3. CASE d # c
    <3>1. outbound'[d] = outbound[d]
      BY <1>0, <2>1, <2>3 DEF DoneEffect, TypeOK
    <3>2. QED
      BY <1>0, <2>2, <2>3, <3>1, WriteKept DEF Holds
  <2>4. CASE d = c
    <3> DEFINE q == outbound[d]
    <3>1. q \in Seq(Write) /\ q # <<>> /\ w = q[1] /\ outbound'[d] = Tail(q)
      BY <1>0, <2>1, <2>4 DEF DoneEffect, TypeOK
    <3>2. /\ DOMAIN Tail(q) = 1 .. Len(q) - 1
          /\ \A k \in 1 .. Len(q) - 1 : k + 1 \in DOMAIN q /\ k + 1 # 1 /\ Tail(q)[k] = q[k + 1]
      BY <3>1
    <3>3. \A k \in DOMAIN q : q[k] \in Write /\ q[k].request \in Requests
      BY <3>1, WriteMember
    <3>4. /\ \A k \in DOMAIN q : WriteOf(d, k)
          /\ \A k, l \in DOMAIN q : q[k].final /\ q[l].final /\ k # l =>
                                        q[k].request # q[l].request
      BY <1>0 DEF WriteInv
    <3>5. \A k \in DOMAIN q : k # 1 /\ q[k].final =>
              stage'[d][q[k].request] = stage[d][q[k].request]
      <4>1. 1 \in DOMAIN q
        BY <3>1
      <4>2. QED
        BY <2>2, <2>4, <3>1, <3>3, <3>4, <4>1 DEF Settles
    <3> HIDE DEF q
    <3>6. \A k \in 1 .. Len(q) - 1 : WriteOf(d, k)'
      <4>1. TAKE k \in 1 .. Len(q) - 1
      <4>2. outbound'[d][k] = q[k + 1] /\ k + 1 \in DOMAIN q /\ k + 1 # 1
        BY <3>1, <3>2
      <4>3. WriteOf(d, k + 1)
        BY <3>4, <4>2
      <4>4. QED
        BY <3>3, <3>5, <4>2, <4>3 DEF WriteOf, q
    <3>7. \A k, l \in 1 .. Len(q) - 1 :
              outbound'[d][k].final /\ outbound'[d][l].final /\ k # l =>
                  outbound'[d][k].request # outbound'[d][l].request
      <4>1. TAKE k, l \in 1 .. Len(q) - 1
      <4>2. /\ outbound'[d][k] = q[k + 1] /\ k + 1 \in DOMAIN q
            /\ outbound'[d][l] = q[l + 1] /\ l + 1 \in DOMAIN q
        BY <3>1, <3>2
      <4>3. k # l => k + 1 # l + 1
        OBVIOUS
      <4>4. QED
        BY <3>4, <4>2, <4>3
    <3>8. QED
      BY <3>1, <3>2, <3>6, <3>7 DEF Holds
  <2>5. QED
    BY <2>3, <2>4
<1>5. ASSUME NEW C \in SUBSET Channels, Inactive(C) PROVE Holds(d)
  <2>1. outbound'[d] = outbound[d]
    BY <1>5 DEF Inactive
  <2>2. \A j \in Requests : stage[d][j] \in {"written", "dropped"} =>
                                stage'[d][j] \in {"written", "dropped"}
    BY <1>5 DEF Inactive
  <2>3. QED
    BY <1>0, <2>1, <2>2, WriteKept DEF Holds
<1>6. CASE UNCHANGED vars
  BY <1>1, <1>6 DEF vars
<1>7. ASSUME NEW c \in Channels, ResetFlushed(c) PROVE Holds(d)
  BY <1>1, <1>7 DEF ResetFlushed
<1>8. ASSUME NEW c \in Channels, NEW i \in Requests, FireDeadline(c, i) PROVE Holds(d)
  BY <1>1, <1>8 DEF FireDeadline
<1>9. CASE Tick
  BY <1>1, <1>9 DEF Tick
<1>10. QED
  BY <1>2, <1>3, <1>4, <1>5, <1>6, <1>7, <1>8, <1>9 DEF Next, Fire, Closed, PeerLeaves
(* Closing a channel leaves it with a cause and not open, and what was not *)
(* open before is as it was; no other channel changes.                     *)
LEMMA CloseEffect ==
    ASSUME TypeOK, NEW c \in Channels, NEW why \in {"deadline", "response"}, Close(c, why)
    PROVE  /\ \A d \in Channels :
                 /\ state'[d] = IF d = c /\ state[d] = "active" THEN "closing" ELSE state[d]
                 /\ cause'[d] = IF d = c /\ cause[d] = "none" THEN why ELSE cause[d]
                 /\ reset[d] => reset'[d]
           /\ state'[c] # "active"
           /\ cause'[c] # "none"
  BY DEF Close, TypeOK

(* Every step keeps the timers in step with the requests.                  *)
LEMMA ArmedStep ==
    ASSUME IInv, [Next]_vars
    PROVE  ArmedInv'
<1> SUFFICES ASSUME NEW d \in Channels PROVE ArmedOf(d)'
  BY DEF ArmedInv
<1>0. TypeOK /\ QueueInv /\ WriteInv /\ ArmedOf(d)
  BY DEF IInv, ArmedInv
<1>1. ASSUME UNCHANGED <<stage, armed, pending>>, state'[d] = state[d] PROVE ArmedOf(d)'
  BY <1>0, <1>1 DEF ArmedOf, Unanswered
<1>2. ASSUME NEW c \in Channels, ReadHead(c) PROVE ArmedOf(d)'
  <2>1. PICK i \in Requests, to \in {"body", "written"} : HeadEffect(c, i, to)
    BY <1>0, <1>2, ReadHeadEffect
  <2>2. \A e \in Channels, j \in Requests :
            stage'[e][j] = IF e = c /\ j = i THEN to ELSE stage[e][j]
    BY <1>0, <2>1 DEF HeadEffect, TypeOK
  <2>3. /\ armed' = [armed EXCEPT ![c] = @ \cup {i}]
        /\ pending' = [pending EXCEPT ![c] = @ \cup {i}]
        /\ state' = state
        /\ state[c] # "inactive"
    BY <1>0, <1>2, <2>1 DEF ReadHead, HeadEffect, TypeOK
  <2>4. Unanswered(d)' = IF d = c THEN Unanswered(d) \cup {i} ELSE Unanswered(d)
    BY <2>2 DEF Unanswered
  <2>5. QED
    BY <1>0, <2>3, <2>4 DEF ArmedOf, TypeOK
<1>3. ASSUME NEW c \in Channels, ReadLast(c) PROVE ArmedOf(d)'
  <2>1. PICK i \in Requests, w \in Write : LastEffect(c, i, w)
    BY <1>0, <1>3, ReadLastEffect
  <2>2. Unanswered(d)' = Unanswered(d)
    BY <1>0, <2>1 DEF LastEffect, TypeOK, Unanswered
  <2>3. UNCHANGED <<state, armed, pending>>
    BY <1>3 DEF ReadLast
  <2>4. QED
    BY <1>0, <2>2, <2>3 DEF ArmedOf
<1>4. ASSUME NEW c \in Channels, WriteCompletes(c) PROVE ArmedOf(d)'
  <2>1. PICK w \in Write : DoneEffect(c, w)
    BY <1>0, <1>4, WriteCompletesEffect
  <2>2. \A j \in Requests :
            stage'[d][j] = IF d = c /\ j = w.request /\ Settles(c, w)
                           THEN "answered" ELSE stage[d][j]
    BY <2>1 DEF DoneEffect
  <2>3. /\ armed'[d] = IF d = c THEN armed[d] \ {w.deadline} ELSE armed[d]
        /\ pending'[d] = IF d = c THEN pending[d] \ {w.deadline} ELSE pending[d]
    BY <1>0, <2>1 DEF DoneEffect, TypeOK
  <2>4. \/ state'[d] = state[d]
        \/ state[d] = "active" /\ state'[d] = "closing"
    <3>1. CASE Close(c, "response")
      BY <1>0, <3>1, CloseEffect
    <3>2. CASE UNCHANGED state
      BY <3>2
    <3>3. QED
      BY <2>1, <3>1, <3>2 DEF DoneEffect
  <2>5. w.request \in Requests
    BY DEF Write
  <2>6. /\ w.final => w.deadline = w.request
        /\ ~w.final => w.deadline = NoDeadline
        /\ w.final => stage[c][w.request] \in {"written", "dropped"}
    <3>1. w = outbound[c][1] /\ 1 \in DOMAIN outbound[c]
      BY <1>0, <2>1 DEF DoneEffect, TypeOK
    <3>2. WriteOf(c, 1)
      BY <1>0, <3>1 DEF WriteInv
    <3>3. QED
      BY <3>1, <3>2 DEF WriteOf
  <2>7. NoDeadline \notin Requests
    BY DEF NoDeadline, Requests
  <2>8. d = c => Unanswered(d)' = Unanswered(d) \ {w.deadline}
    <3>1. CASE w.final
      BY <2>2, <2>5, <2>6, <3>1 DEF Unanswered, Settles
    <3>2. CASE ~w.final
      BY <2>2, <2>6, <2>7, <3>2 DEF Unanswered, Settles
    <3>3. QED
      BY <3>1, <3>2
  <2>9. d # c => Unanswered(d)' = Unanswered(d)
    BY <2>2 DEF Unanswered
  <2>10. QED
    BY <1>0, <2>3, <2>4, <2>8, <2>9 DEF ArmedOf
<1>5. ASSUME NEW C \in SUBSET Channels, Inactive(C) PROVE ArmedOf(d)'
  <2>1. CASE d \in C
    BY <1>0, <1>5, <2>1 DEF Inactive, ArmedOf, DeadlinesToCancel, TypeOK
  <2>2. CASE d \notin C
    <3>1. /\ state'[d] = state[d] /\ armed'[d] = armed[d] /\ pending'[d] = pending[d]
          /\ \A j \in Requests : stage'[d][j] = stage[d][j]
      BY <1>5, <2>2 DEF Inactive
    <3>2. Unanswered(d)' = Unanswered(d)
      BY <3>1 DEF Unanswered
    <3>3. QED
      BY <1>0, <3>1, <3>2 DEF ArmedOf
  <2>3. QED
    BY <2>1, <2>2
<1>6. CASE UNCHANGED vars
  BY <1>1, <1>6 DEF vars, handlerVars
<1>7. ASSUME NEW c \in Channels, ResetFlushed(c) PROVE ArmedOf(d)'
  <2>1. UNCHANGED <<stage, armed, pending>>
    BY <1>7 DEF ResetFlushed, handlerVars
  <2>2. \/ state'[d] = state[d]
        \/ state'[d] = "closing" /\ state[d] = "resetting"
    BY <1>0, <1>7 DEF ResetFlushed, TypeOK
  <2>3. QED
    BY <1>0, <2>1, <2>2 DEF ArmedOf, Unanswered
<1>8. ASSUME NEW c \in Channels, NEW i \in Requests, FireDeadline(c, i) PROVE ArmedOf(d)'
  <2>1. UNCHANGED <<stage, pending>> /\ i \in armed[c] /\ armed' = [armed EXCEPT ![c] = @ \ {i}]
    BY <1>8 DEF FireDeadline
  <2>2. /\ state'[d] = "active" => state[d] = "active" /\ d # c
        /\ state'[d] = "inactive" => state[d] = "inactive"
    <3>1. CASE protocol = "http1" /\ Close(c, "deadline")
      BY <1>0, <3>1, CloseEffect
    <3>2. CASE state' = [state EXCEPT ![c] = IF @ = "active" THEN "resetting" ELSE @]
      BY <1>0, <3>2 DEF TypeOK
    <3>3. QED
      BY <1>8, <3>1, <3>2 DEF FireDeadline
  <2>3. QED
    BY <1>0, <2>1, <2>2 DEF ArmedOf, Unanswered, TypeOK
<1>9. CASE Tick
  BY <1>1, <1>9 DEF Tick, handlerVars
<1>10. QED
  BY <1>2, <1>3, <1>4, <1>5, <1>6, <1>7, <1>8, <1>9 DEF Next, Fire, Closed, PeerLeaves
(* Every step keeps the ages of the requests on open channels in bounds.   *)
LEMMA AgeStep ==
    ASSUME IInv, [Next]_vars
    PROVE  AgeInv'
<1> DEFINE Holds(d, j) ==
        /\ stage'[d][j] \notin {"body", "written"} => age'[d][j] = 0
        /\ state'[d] = "active" => age'[d][j] <= Timeout
<1> SUFFICES ASSUME NEW d \in Channels, NEW j \in Requests PROVE Holds(d, j)
  BY DEF AgeInv, Unanswered
<1>0. /\ TypeOK /\ QueueInv /\ ArmedOf(d)
      /\ stage[d][j] \notin {"body", "written"} => age[d][j] = 0
      /\ state[d] = "active" => age[d][j] <= Timeout
      /\ age[d][j] \in Nat
      /\ Timeout \in Nat
  BY TimeoutAssumption DEF IInv, ArmedInv, AgeInv, Unanswered, TypeOK
<1>1. ASSUME stage'[d][j] = stage[d][j] \/ stage'[d][j] \in {"body", "written"},
             age'[d][j] = age[d][j],
             state'[d] = "active" => state[d] = "active"
      PROVE  Holds(d, j)
  BY <1>0, <1>1
<1> HIDE DEF Holds
<1>2. ASSUME NEW c \in Channels, ReadHead(c) PROVE Holds(d, j)
  <2>1. PICK i \in Requests, to \in {"body", "written"} : HeadEffect(c, i, to)
    BY <1>0, <1>2, ReadHeadEffect
  <2>2. stage'[d][j] = stage[d][j] \/ stage'[d][j] \in {"body", "written"}
    BY <1>0, <2>1 DEF HeadEffect, TypeOK
  <2>3. UNCHANGED <<state, age>>
    BY <1>2 DEF ReadHead
  <2>4. QED
    BY <1>1, <2>2, <2>3
<1>3. ASSUME NEW c \in Channels, ReadLast(c) PROVE Holds(d, j)
  <2>1. PICK i \in Requests, w \in Write : LastEffect(c, i, w)
    BY <1>0, <1>3, ReadLastEffect
  <2>2. stage'[d][j] = stage[d][j] \/ stage'[d][j] \in {"body", "written"}
    BY <1>0, <2>1 DEF LastEffect, TypeOK
  <2>3. UNCHANGED <<state, age>>
    BY <1>3 DEF ReadLast
  <2>4. QED
    BY <1>1, <2>2, <2>3
<1>4. ASSUME NEW c \in Channels, WriteCompletes(c) PROVE Holds(d, j)
  <2>1. PICK w \in Write : DoneEffect(c, w)
    BY <1>0, <1>4, WriteCompletesEffect
  <2>2. \/ age'[d][j] = 0
        \/ stage'[d][j] = stage[d][j] /\ age'[d][j] = age[d][j]
    BY <2>1 DEF DoneEffect
  <2>3. state'[d] = "active" => state[d] = "active"
    <3>1. CASE Close(c, "response")
      BY <1>0, <3>1, CloseEffect
    <3>2. CASE UNCHANGED state
      BY <3>2
    <3>3. QED
      BY <2>1, <3>1, <3>2 DEF DoneEffect
  <2>4. CASE age'[d][j] = 0
    BY <1>0, <2>4 DEF Holds
  <2>5. QED
    BY <1>1, <2>2, <2>3, <2>4
<1>5. ASSUME NEW C \in SUBSET Channels, Inactive(C) PROVE Holds(d, j)
  <2>1. state'[d] = "active" => state[d] = "active"
    BY <1>5 DEF Inactive
  <2>2. \/ age'[d][j] = 0
        \/ stage'[d][j] = stage[d][j] /\ age'[d][j] = age[d][j]
    BY <1>5 DEF Inactive
  <2>3. CASE age'[d][j] = 0
    BY <1>0, <2>3 DEF Holds
  <2>4. QED
    BY <1>1, <2>1, <2>2, <2>3
<1>6. CASE UNCHANGED vars
  BY <1>1, <1>6 DEF vars
<1>7. ASSUME NEW c \in Channels, ResetFlushed(c) PROVE Holds(d, j)
  <2>1. state'[d] = "active" => state[d] = "active"
    BY <1>0, <1>7 DEF ResetFlushed, TypeOK
  <2>2. UNCHANGED <<stage, age>>
    BY <1>7 DEF ResetFlushed
  <2>3. QED
    BY <1>1, <2>1, <2>2
<1>8. ASSUME NEW c \in Channels, NEW i \in Requests, FireDeadline(c, i) PROVE Holds(d, j)
  <2>1. state'[d] = "active" => state[d] = "active"
    <3>1. CASE protocol = "http1" /\ Close(c, "deadline")
      BY <1>0, <3>1, CloseEffect
    <3>2. CASE state' = [state EXCEPT ![c] = IF @ = "active" THEN "resetting" ELSE @]
      BY <1>0, <3>2 DEF TypeOK
    <3>3. QED
      BY <1>8, <3>1, <3>2 DEF FireDeadline
  <2>2. UNCHANGED <<stage, age>>
    BY <1>8 DEF FireDeadline
  <2>3. QED
    BY <1>1, <2>1, <2>2
<1>9. CASE Tick
  <2>1. UNCHANGED <<stage, state>>
    BY <1>9 DEF Tick
  <2>2. CASE j \notin Unanswered(d)
    <3>1. age'[d][j] = age[d][j]
      BY <1>9, <2>2 DEF Tick
    <3>2. QED
      BY <1>1, <2>1, <3>1
  <2>3. CASE j \in Unanswered(d)
    <3>1. stage'[d][j] \in {"body", "written"}
      BY <2>1, <2>3 DEF Unanswered
    <3>2. state[d] = "active" => age[d][j] < Timeout
      BY <1>0, <1>9, <2>3 DEF Tick, ArmedOf
    <3>3. age'[d][j] \in {age[d][j], age[d][j] + 1}
      BY <1>9, <2>3 DEF Tick
    <3>4. QED
      BY <1>0, <2>1, <3>1, <3>2, <3>3 DEF Holds
  <2>4. QED
    BY <2>2, <2>3
<1>10. QED
  BY <1>2, <1>3, <1>4, <1>5, <1>6, <1>7, <1>8, <1>9 DEF Next, Fire, Closed, PeerLeaves

(* Every step keeps the causes.                                            *)
LEMMA CauseStep ==
    ASSUME IInv, [Next]_vars
    PROVE  CauseInv'
<1> SUFFICES ASSUME NEW d \in Channels PROVE CauseOf(d)'
  BY DEF CauseInv
<1>0. TypeOK /\ QueueInv /\ CauseOf(d)
  BY DEF IInv, CauseInv
<1>1. ASSUME UNCHANGED protocol, state'[d] = state[d], cause'[d] = cause[d], reset'[d] = reset[d],
             \A j \in Requests : stage'[d][j] = "dropped" => stage[d][j] = "dropped"
      PROVE  CauseOf(d)'
  BY <1>0, <1>1 DEF CauseOf
<1>2. ASSUME NEW c \in Channels, ReadHead(c) PROVE CauseOf(d)'
  <2>1. PICK i \in Requests, to \in {"body", "written"} : HeadEffect(c, i, to)
    BY <1>0, <1>2, ReadHeadEffect
  <2>2. \A j \in Requests : stage'[d][j] = "dropped" => stage[d][j] = "dropped"
    BY <1>0, <2>1 DEF HeadEffect, TypeOK
  <2>3. UNCHANGED <<protocol, state, cause, reset>>
    BY <1>2 DEF ReadHead, streamVars
  <2>4. QED
    BY <1>1, <2>2, <2>3
<1>3. ASSUME NEW c \in Channels, ReadLast(c) PROVE CauseOf(d)'
  <2>1. PICK i \in Requests, w \in Write : LastEffect(c, i, w)
    BY <1>0, <1>3, ReadLastEffect
  <2>2. \A j \in Requests : stage'[d][j] = "dropped" => stage[d][j] = "dropped"
    BY <1>0, <2>1 DEF LastEffect, TypeOK
  <2>3. UNCHANGED <<protocol, state, cause, reset>>
    BY <1>3 DEF ReadLast
  <2>4. QED
    BY <1>1, <2>2, <2>3
<1>4. ASSUME NEW c \in Channels, WriteCompletes(c) PROVE CauseOf(d)'
  <2>1. PICK w \in Write : DoneEffect(c, w)
    BY <1>0, <1>4, WriteCompletesEffect
  <2>2. \A j \in Requests : stage'[d][j] = "dropped" => stage[d][j] = "dropped"
    BY <2>1 DEF DoneEffect
  <2>3. protocol' = protocol
    BY <2>1 DEF DoneEffect
  <2>4. CASE Close(c, "response")
    <3>1. /\ cause'[d] = "none" => cause[d] = "none" /\ state'[d] = state[d]
          /\ cause'[d] = "deadline" => cause[d] = "deadline"
          /\ reset[d] => reset'[d]
      BY <1>0, <2>4, CloseEffect
    <3>2. QED
      BY <1>0, <2>2, <2>3, <3>1 DEF CauseOf
  <2>5. CASE UNCHANGED <<state, cause, reset>>
    BY <1>1, <2>2, <2>3, <2>5
  <2>6. QED
    BY <2>1, <2>4, <2>5 DEF DoneEffect
<1>5. ASSUME NEW C \in SUBSET Channels, Inactive(C) PROVE CauseOf(d)'
  <2>1. UNCHANGED <<protocol, reset>>
    BY <1>5 DEF Inactive, streamVars
  <2>2. CASE d \in C
    BY <1>0, <1>5, <2>1, <2>2 DEF Inactive, CauseOf
  <2>3. CASE d \notin C
    <3>1. state'[d] = state[d] /\ cause'[d] = cause[d] /\ \A j \in Requests : stage'[d][j] = stage[d][j]
      BY <1>5, <2>3 DEF Inactive
    <3>2. QED
      BY <1>1, <2>1, <3>1
  <2>4. QED
    BY <2>2, <2>3
<1>6. CASE UNCHANGED vars
  BY <1>1, <1>6 DEF vars, streamVars
<1>7. ASSUME NEW c \in Channels, ResetFlushed(c) PROVE CauseOf(d)'
  <2>1. UNCHANGED <<protocol, cause, stage, reset>>
    BY <1>7 DEF ResetFlushed, streamVars
  <2>2. state'[d] = state[d] \/ state[d] = "resetting"
    BY <1>0, <1>7 DEF ResetFlushed, TypeOK
  <2>3. QED
    BY <1>0, <2>1, <2>2 DEF CauseOf
<1>8. ASSUME NEW c \in Channels, NEW i \in Requests, FireDeadline(c, i) PROVE CauseOf(d)'
  <2>1. UNCHANGED <<protocol, stage>>
    BY <1>8 DEF FireDeadline
  <2>2. CASE protocol = "http1" /\ Close(c, "deadline")
    <3>1. /\ cause'[d] = "none" => cause[d] = "none" /\ state'[d] = state[d]
          /\ cause[d] # "none" => cause'[d] # "none"
      BY <1>0, <2>2, CloseEffect
    <3>2. QED
      BY <1>0, <2>1, <2>2, <3>1 DEF CauseOf
  <2>3. CASE /\ reset' = [reset EXCEPT ![c] = TRUE]
             /\ state' = [state EXCEPT ![c] = IF @ = "active" THEN "resetting" ELSE @]
             /\ cause' = [cause EXCEPT ![c] = IF @ = "none" THEN "deadline" ELSE @]
    <3>1. d # c => state'[d] = state[d] /\ cause'[d] = cause[d] /\ reset'[d] = reset[d]
      BY <1>0, <2>3 DEF TypeOK
    <3>2. d = c => cause'[d] # "none" /\ reset'[d]
      BY <1>0, <2>3 DEF TypeOK
    <3>3. d # c => CauseOf(d)'
      BY <1>1, <2>1, <3>1
    <3>4. d = c => CauseOf(d)'
      BY <3>2 DEF CauseOf
    <3>5. QED
      BY <3>3, <3>4
  <2>4. QED
    BY <1>8, <2>2, <2>3 DEF FireDeadline
<1>9. CASE Tick
  BY <1>1, <1>9 DEF Tick, streamVars
<1>10. QED
  BY <1>2, <1>3, <1>4, <1>5, <1>6, <1>7, <1>8, <1>9 DEF Next, Fire, Closed, PeerLeaves

(* The invariant holds at the start.                                       *)
LEMMA InitIInv == Init => IInv
<1> SUFFICES ASSUME Init PROVE IInv
  OBVIOUS
<1> USE DEF Init
<1>1. TypeOK
  BY PerChannelAssumption, TimeoutAssumption DEF TypeOK
<1>2. QueueInv
  BY DEF QueueInv, QueueOf, Aggregating
<1>3. WriteInv
  <2>1. \A c \in Channels : outbound[c] = <<>>
    OBVIOUS
  <2>2. DOMAIN << >> = {}
    OBVIOUS
  <2>3. QED
    BY <2>1, <2>2, Zenon DEF WriteInv
<1>4. ArmedInv
  BY DEF ArmedInv, ArmedOf, Unanswered
<1>5. AgeInv
  BY TimeoutAssumption DEF AgeInv, Unanswered
<1>6. CauseInv
  BY DEF CauseInv, CauseOf
<1>7. QED
  BY <1>1, <1>2, <1>3, <1>4, <1>5, <1>6 DEF IInv

----------------------------------------------------------------------------
(* IInv is an invariant of the handler: each event of a channel leaves its *)
(* queue, its timers and its promises in step with its requests.           *)
THEOREM Invariance == Spec => []IInv
<1>1. IInv /\ [Next]_vars => IInv'
  BY TypeStep, QueueStep, WriteStep, ArmedStep, AgeStep, CauseStep DEF IInv
<1>2. QED
  BY InitIInv, <1>1, PTL DEF Spec

(* The state of the handler always has its types.                          *)
THEOREM TypeCorrect == Spec => []TypeOK
<1>1. IInv => TypeOK
  BY DEF IInv
<1>2. QED
  BY Invariance, <1>1, PTL

(* On an open channel, of any protocol, exactly the requests that wait for *)
(* their response have a running deadline (write(), lines 50-64).          *)
THEOREM DeadlinesFollowRequests == Spec => []DeadlinePerUnanswered
<1>1. IInv => DeadlinePerUnanswered
  BY DEF IInv, ArmedInv, ArmedOf, DeadlinePerUnanswered
<1>2. QED
  BY Invariance, <1>1, PTL

(* When a channel has ended none of its timers is left, whatever promises  *)
(* complete after that (channelInactive(), handlerRemoved()).              *)
THEOREM TimersEndWithChannel == Spec => []NoTimerOutlivesChannel
<1>1. IInv => NoTimerOutlivesChannel
  BY DEF IInv, ArmedInv, ArmedOf, NoTimerOutlivesChannel, TypeOK
<1>2. QED
  BY Invariance, <1>1, PTL

(* No request on an open channel waits longer than the timeout.            *)
THEOREM RequestsAreTimely == Spec => []NoOverdueRequest
<1>1. IInv => NoOverdueRequest
  BY DEF IInv, AgeInv, NoOverdueRequest, Unanswered
<1>2. QED
  BY Invariance, <1>1, PTL

(* A stream that ran out of time is reset (comment at line 37).            *)
THEOREM ExpiryResetsStream == Spec => []ExpiredStreamIsReset
<1>1. IInv => ExpiredStreamIsReset
  BY DEF IInv, CauseInv, CauseOf, ExpiredStreamIsReset
<1>2. QED
  BY Invariance, <1>1, PTL
----------------------------------------------------------------------------
(* Refinement.  A step of the handler is the step of the contract that the *)
(* fates of the requests and the causes call for, or leaves both alone.    *)
(* The contract's terms, in those of the handler.                          *)
LEMMA BarValues ==
    ASSUME TypeOK
    PROVE  /\ \A c \in Channels, i \in Requests :
                 /\ fateBar[c][i] = "waiting" <=> stage[c][i] \in {"body", "written"}
                 /\ stage[c][i] \notin {"body", "written"} => fateBar[c][i] = stage[c][i]
           /\ \A c \in Channels :
                 /\ shutBar[c] = "open" <=> cause[c] = "none"
                 /\ cause[c] = "response" => shutBar[c] = "answer"
                 /\ cause[c] \in {"deadline", "gone"} => shutBar[c] = cause[c]
           /\ Contract!Requests = Requests
           /\ \A c \in Channels : Contract!Waiting(c) = Unanswered(c)
<1>1. \A c \in Channels, i \in Requests :
         stage[c][i] \in {"none", "body", "written", "answered", "dropped"}
  BY DEF TypeOK
<1>2. \A c \in Channels : cause[c] \in {"none", "deadline", "response", "gone"}
  BY DEF TypeOK
<1>3. \A c \in Channels, i \in Requests :
                 /\ fateBar[c][i] = "waiting" <=> stage[c][i] \in {"body", "written"}
                 /\ stage[c][i] \notin {"body", "written"} => fateBar[c][i] = stage[c][i]
  BY <1>1 DEF fateBar, FateOf
<1>4. \A c \in Channels :
                 /\ shutBar[c] = "open" <=> cause[c] = "none"
                 /\ cause[c] = "response" => shutBar[c] = "answer"
                 /\ cause[c] \in {"deadline", "gone"} => shutBar[c] = cause[c]
  BY <1>2 DEF shutBar, ShutOf
<1>5. Contract!Requests = Requests
  BY DEF Contract!Requests, Requests
<1>6. \A c \in Channels : Contract!Waiting(c) = Unanswered(c)
  BY <1>3, <1>5 DEF Contract!Waiting, Unanswered
<1>7. QED
  BY <1>3, <1>4, <1>5, <1>6
(* How the fates follow the stages of one channel's request.               *)
LEMMA FateChange ==
    ASSUME TypeOK, NEW c \in Channels, NEW i \in Requests, NEW to,
           \A d \in Channels, j \in Requests :
              FateOf(stage'[d][j]) = IF d = c /\ j = i THEN to ELSE FateOf(stage[d][j])
    PROVE  fateBar' = [fateBar EXCEPT ![c][i] = to]
  BY DEF fateBar

(* What does not change the fate of a request or the cause of an end is    *)
(* not seen by the contract.                                               *)
LEMMA Unseen ==
    ASSUME TypeOK, UNCHANGED <<age, cause>>,
           \A d \in Channels, j \in Requests : FateOf(stage'[d][j]) = FateOf(stage[d][j])
    PROVE  UNCHANGED Contract!vars
<1>1. fateBar' = fateBar
  BY DEF fateBar
<1>2. shutBar' = shutBar
  BY DEF shutBar
<1>3. QED
  BY <1>1, <1>2 DEF Contract!vars

(* Every step of the handler is a step of the contract or none.            *)
LEMMA ContractStep ==
    ASSUME IInv, [Next]_vars
    PROVE  [Contract!Next]_Contract!vars
<1>0. TypeOK /\ QueueInv /\ WriteInv /\ ArmedInv /\ CauseInv
  BY DEF IInv
<1>1. ASSUME NEW c \in Channels, ReadHead(c) PROVE Contract!Next
  <2>1. PICK i \in Requests, to \in {"body", "written"} : HeadEffect(c, i, to)
    BY <1>0, <1>1, ReadHeadEffect
  <2>2. stage[c][i] = "none"
    BY <1>0, <2>1 DEF HeadEffect, QueueInv, QueueOf, TypeOK, Requests
  <2>3. \A d \in Channels, j \in Requests :
            FateOf(stage'[d][j]) = IF d = c /\ j = i THEN "waiting" ELSE FateOf(stage[d][j])
    BY <1>0, <2>1 DEF HeadEffect, TypeOK, FateOf
  <2>4. fateBar' = [fateBar EXCEPT ![c][i] = "waiting"]
    BY <1>0, <2>3, FateChange
  <2>5. UNCHANGED <<age, shutBar>>
    BY <1>1 DEF ReadHead, shutBar
  <2>6. fateBar[c][i] = "none"
    BY <1>0, <2>2, BarValues
  <2>7. Contract!Arrive(c, i)
    BY <2>4, <2>5, <2>6 DEF Contract!Arrive
  <2>8. QED
    BY <1>0, <2>7, BarValues DEF Contract!Next
<1>2. ASSUME NEW c \in Channels, ReadLast(c) PROVE UNCHANGED Contract!vars
  <2>1. PICK i \in Requests, w \in Write : LastEffect(c, i, w)
    BY <1>0, <1>2, ReadLastEffect
  <2>2. \A d \in Channels, j \in Requests : FateOf(stage'[d][j]) = FateOf(stage[d][j])
    BY <1>0, <2>1 DEF LastEffect, TypeOK, FateOf
  <2>3. UNCHANGED <<age, cause>>
    BY <1>2 DEF ReadLast
  <2>4. QED
    BY <1>0, <2>2, <2>3, Unseen
<1>3. ASSUME NEW c \in Channels, WriteCompletes(c) PROVE Contract!Next \/ UNCHANGED Contract!vars
  <2>1. PICK w \in Write : DoneEffect(c, w)
    BY <1>0, <1>3, WriteCompletesEffect
  <2>2. \A d \in Channels, j \in Requests :
            /\ stage'[d][j] = IF d = c /\ j = w.request /\ Settles(c, w)
                              THEN "answered" ELSE stage[d][j]
            /\ age'[d][j] = IF d = c /\ j = w.request /\ Settles(c, w) THEN 0 ELSE age[d][j]
    BY <2>1 DEF DoneEffect
  <2>3. PICK i \in Requests : w.request = i
    BY DEF Write
  <2>4. TypeOK'
    BY TypeStep
  <2>5. /\ w.final => stage[c][i] \in {"written", "dropped"}
        /\ ~w.final => ~w.close
    <3>1. w = outbound[c][1] /\ 1 \in DOMAIN outbound[c]
      BY <1>0, <2>1 DEF DoneEffect, TypeOK
    <3>2. WriteOf(c, 1)
      BY <1>0, <3>1 DEF WriteInv
    <3>3. QED
      BY <2>3, <3>1, <3>2 DEF WriteOf
  <2>6. CASE Settles(c, w)
    <3>1. stage[c][i] = "written"
      BY <2>3, <2>6 DEF Settles
    <3>2. fateBar' = [fateBar EXCEPT ![c][i] = "answered"]
      <4>1. \A d \in Channels, j \in Requests :
              FateOf(stage'[d][j]) = IF d = c /\ j = i THEN "answered" ELSE FateOf(stage[d][j])
        BY <2>2, <2>3, <2>6 DEF FateOf
      <4>2. QED
        BY <1>0, <4>1, FateChange
    <3>3. age' = [age EXCEPT ![c][i] = 0]
      BY <1>0, <2>2, <2>3, <2>4, <2>6 DEF TypeOK
    <3>4. UNCHANGED shutBar \/ (shutBar[c] = "open" /\ shutBar' = [shutBar EXCEPT ![c] = "answer"])
      <4>1. CASE UNCHANGED cause
        BY <4>1 DEF shutBar
      <4>2. CASE Close(c, "response") /\ cause[c] # "none"
        <5>1. cause' = cause
          BY <1>0, <4>2 DEF Close, TypeOK
        <5>2. QED
          BY <5>1 DEF shutBar
      <4>3. CASE Close(c, "response") /\ cause[c] = "none"
        <5>1. cause' = [cause EXCEPT ![c] = "response"]
          BY <1>0, <4>3 DEF Close, TypeOK
        <5>2. shutBar' = [shutBar EXCEPT ![c] = "answer"]
          BY <1>0, <5>1 DEF shutBar, ShutOf, TypeOK
        <5>3. QED
          BY <1>0, <4>3, <5>2, BarValues
      <4>4. QED
        BY <2>1, <4>1, <4>2, <4>3 DEF DoneEffect
    <3>5. i \in Contract!Waiting(c)
      BY <1>0, <3>1, BarValues DEF Unanswered
    <3>6. Contract!Answer(c, i)
      BY <3>2, <3>3, <3>4, <3>5 DEF Contract!Answer
    <3>7. QED
      BY <1>0, <3>6, BarValues DEF Contract!Next
  <2>7. CASE ~Settles(c, w)
    <3>1. \A d \in Channels, j \in Requests :
              /\ FateOf(stage'[d][j]) = FateOf(stage[d][j])
              /\ age'[d][j] = age[d][j]
      BY <2>2, <2>7
    <3>2. age' = age
      BY <1>0, <2>4, <3>1 DEF TypeOK
    <3>3. w.close => cause[c] # "none"
      BY <1>0, <2>3, <2>5, <2>7 DEF Settles, CauseInv, CauseOf
    <3>4. cause' = cause
      <4>1. CASE w.close /\ Close(c, "response")
        BY <1>0, <3>3, <4>1 DEF Close, TypeOK
      <4>2. CASE UNCHANGED cause
        BY <4>2
      <4>3. QED
        BY <2>1, <4>1, <4>2 DEF DoneEffect
    <3>5. QED
      BY <1>0, <3>1, <3>2, <3>4, Unseen
  <2>8. QED
    BY <2>6, <2>7
<1>4. ASSUME NEW C \in SUBSET Channels, Inactive(C) PROVE Contract!Next
  <2>1. fateBar' = [c \in Channels |-> [i \in Requests |->
                      IF c \in C /\ i \in Contract!Waiting(c) THEN "dropped" ELSE fateBar[c][i]]]
    <3>1. \A c \in Channels, i \in Requests :
            FateOf(stage'[c][i]) = IF c \in C /\ i \in Unanswered(c) THEN "dropped"
                                   ELSE FateOf(stage[c][i])
      BY <1>4 DEF Inactive, FateOf
    <3>2. fateBar' = [c \in Channels |-> [i \in Requests |->
                      IF c \in C /\ i \in Unanswered(c) THEN "dropped" ELSE fateBar[c][i]]]
      BY <3>1 DEF fateBar
    <3>3. QED
      BY <1>0, <3>2, BarValues
  <2>2. age' = [c \in Channels |-> [i \in Requests |->
                  IF c \in C /\ i \in Contract!Waiting(c) THEN 0 ELSE age[c][i]]]
    <3>1. age' = [c \in Channels |-> [i \in Requests |->
                  IF c \in C /\ i \in Unanswered(c) THEN 0 ELSE age[c][i]]]
      BY <1>4 DEF Inactive
    <3>2. QED
      BY <1>0, <3>1, BarValues
  <2>3. shutBar' = [c \in Channels |->
                      IF c \in C /\ shutBar[c] = "open" THEN "gone" ELSE shutBar[c]]
    <3>1. \A c \in Channels :
            ShutOf(cause'[c]) = IF c \in C /\ cause[c] = "none" THEN "gone" ELSE ShutOf(cause[c])
      BY <1>4 DEF Inactive, ShutOf
    <3>2. shutBar' = [c \in Channels |->
                        IF c \in C /\ cause[c] = "none" THEN "gone" ELSE shutBar[c]]
      BY <3>1 DEF shutBar
    <3>3. QED
      BY <1>0, <3>2, BarValues
  <2>4. Contract!Drop(C)
    BY <1>0, <2>1, <2>2, <2>3, BarValues DEF Contract!Drop
  <2>5. QED
    BY <2>4 DEF Contract!Next
<1>5. CASE UNCHANGED vars
  BY <1>0, <1>5, Unseen DEF vars
<1>6. ASSUME NEW c \in Channels, ResetFlushed(c) PROVE UNCHANGED Contract!vars
  BY <1>0, <1>6, Unseen DEF ResetFlushed
<1>7. ASSUME NEW c \in Channels, NEW i \in Requests, FireDeadline(c, i)
      PROVE  Contract!Next \/ UNCHANGED Contract!vars
  <2>1. UNCHANGED <<stage, age>>
    BY <1>7 DEF FireDeadline
  <2>2. cause' = [cause EXCEPT ![c] = IF @ = "none" THEN "deadline" ELSE @]
    BY <1>7 DEF FireDeadline, Close
  <2>3. CASE cause[c] # "none"
    <3>1. cause' = cause
      BY <1>0, <2>2, <2>3 DEF TypeOK
    <3>2. QED
      BY <1>0, <2>1, <3>1, Unseen
  <2>4. CASE cause[c] = "none"
    <3>1. cause' = [cause EXCEPT ![c] = "deadline"]
      BY <2>2, <2>4
    <3>2. shutBar' = [shutBar EXCEPT ![c] = "deadline"]
      BY <1>0, <3>1 DEF shutBar, ShutOf, TypeOK
    <3>3. i \in Contract!Waiting(c) /\ age[c][i] = Timeout
      BY <1>0, <1>7, BarValues DEF FireDeadline, ArmedInv, ArmedOf
    <3>4. shutBar[c] = "open" /\ UNCHANGED <<fateBar, age>>
      BY <1>0, <2>1, <2>4, BarValues DEF fateBar
    <3>5. Contract!Expire(c)
      BY <3>2, <3>3, <3>4 DEF Contract!Expire
    <3>6. QED
      BY <3>5 DEF Contract!Next
  <2>5. QED
    BY <2>3, <2>4
<1>8. CASE Tick
  <2>1. \A c \in Channels : shutBar[c] = "open" =>
            \A i \in Contract!Waiting(c) : age[c][i] < Timeout
    BY <1>0, <1>8, BarValues DEF Tick, CauseInv, CauseOf, ArmedInv, ArmedOf
  <2>2. age' = [c \in Channels |-> [i \in Requests |->
                  IF i \in Contract!Waiting(c) /\ age[c][i] <= Timeout
                  THEN age[c][i] + 1 ELSE age[c][i]]]
    <3>1. age' = [c \in Channels |-> [i \in Requests |->
                  IF i \in Unanswered(c) /\ age[c][i] <= Timeout
                  THEN age[c][i] + 1 ELSE age[c][i]]]
      BY <1>8 DEF Tick
    <3>2. QED
      BY <1>0, <3>1, BarValues
  <2>3. UNCHANGED <<fateBar, shutBar>>
    BY <1>8 DEF Tick, fateBar, shutBar
  <2>4. Contract!Tick
    BY <1>0, <2>1, <2>2, <2>3, BarValues DEF Contract!Tick
  <2>5. QED
    BY <2>4 DEF Contract!Next
<1>9. QED
  BY <1>1, <1>2, <1>3, <1>4, <1>5, <1>6, <1>7, <1>8 DEF Next, Fire, Closed, PeerLeaves

(* The handler implements RequestContract: the deadline of a request ends  *)
(* its own channel and no other, when that request ran out of time, and    *)
(* nothing else of what it does is to be seen.                             *)
THEOREM Refinement == Spec => ImplementsContract
<1>1. Init => Contract!Init
  <2>1. ASSUME Init
        PROVE  /\ fateBar = [c \in Channels |-> [i \in Requests |-> "none"]]
               /\ shutBar = [c \in Channels |-> "open"]
               /\ age = [c \in Channels |-> [i \in Requests |-> 0]]
    BY <2>1 DEF Init, fateBar, FateOf, shutBar, ShutOf
  <2>2. QED
    BY <2>1 DEF Contract!Init, Contract!Requests, Requests
<1>2. IInv /\ [Next]_vars => [Contract!Next]_Contract!vars
  BY ContractStep
<1>3. QED
  BY Invariance, <1>1, <1>2, PTL DEF Spec, ImplementsContract, Contract!Spec
=============================================================================
