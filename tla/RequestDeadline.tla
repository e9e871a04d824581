-------------------------- MODULE RequestDeadline --------------------------
(***************************************************************************)
(* The request deadline of the Java server: HttpRequestTimeoutHandler in   *)
(* its pipeline, between the HTTP codec on one side and the aggregator and *)
(* EndpointHandlers on the other.  A channel is an HTTP/1 connection or    *)
(* one stream of an HTTP/2 connection; each has a handler of its own.  All *)
(* handlers of a connection run on one event loop, so a step is one task   *)
(* of that loop: an inbound message carried through the pipeline with the  *)
(* response it provokes, a promise completed, a timer.                     *)
(*                                                                         *)
(* Netty itself (channels, promises, the aggregator, stream resets) is     *)
(* outside the repository and modelled by what the handlers rely on.       *)
(***************************************************************************)
EXTENDS Naturals, Sequences

CONSTANTS
    Channels,    \* HTTP/1 connections, or the streams of one HTTP/2 connection
    PerChannel,  \* bound: requests a peer sends on an HTTP/1 connection
    Timeout      \* ticks in the deadline (HTTP_REQUEST_TIMEOUT_SECONDS)

ASSUME PerChannelAssumption == PerChannel \in Nat \ {0}
ASSUME TimeoutAssumption == Timeout \in Nat \ {0}

VARIABLES
    protocol,   \* what ALPN chose
    state,      \* of the channel, as seen from the handler
    cause,      \* what first ended it
    read,       \* requests read from it
    stage,      \* how far each request got
    age,        \* ticks since an unanswered request's head was read
    ended,      \* HTTP/2: the request's END_STREAM was received
    reset,      \* HTTP/2: RST_STREAM was written
    awaiting,   \* awaitingResponse: deadlines in the order of their requests
    pending,    \* pending: deadlines to cancel when the channel ends
    armed,      \* the deadlines still scheduled on the event loop
    outbound    \* responses written whose promise is not complete

handlerVars == <<awaiting, pending, armed>>
streamVars == <<ended, reset>>
vars == <<protocol, state, cause, read, stage, age, streamVars, handlerVars, outbound>>

(* A deadline is named by the number of the request it was scheduled for.  *)
Requests == 1 .. PerChannel
NoDeadline == 0
Write == [request : Requests, final : BOOLEAN, deadline : Requests \cup {NoDeadline},
          close : BOOLEAN]

Unanswered(c) == {i \in Requests : stage[c][i] \in {"body", "written"}}

TypeOK ==
    /\ protocol \in {"http1", "http2"}
    /\ state \in [Channels -> {"active", "resetting", "closing", "inactive"}]
    /\ cause \in [Channels -> {"none", "deadline", "response", "gone"}]
    /\ read \in [Channels -> 0 .. PerChannel]
    /\ stage \in [Channels -> [Requests -> {"none", "body", "written", "answered",
                                            "dropped"}]]
    /\ age \in [Channels -> [Requests -> 0 .. Timeout + 1]]
    /\ ended \in [Channels -> BOOLEAN]
    /\ reset \in [Channels -> BOOLEAN]
    /\ awaiting \in [Channels -> Seq(Requests)]
    /\ pending \in [Channels -> SUBSET Requests]
    /\ armed \in [Channels -> SUBSET Requests]
    /\ outbound \in [Channels -> Seq(Write)]

Init ==
    /\ protocol \in {"http1", "http2"}
    /\ state = [c \in Channels |-> "active"]
    /\ cause = [c \in Channels |-> "none"]
    /\ read = [c \in Channels |-> 0]
    /\ stage = [c \in Channels |-> [i \in Requests |-> "none"]]
    /\ age = [c \in Channels |-> [i \in Requests |-> 0]]
    /\ ended = [c \in Channels |-> FALSE]
    /\ reset = [c \in Channels |-> FALSE]
    /\ awaiting = [c \in Channels |-> <<>>]
    /\ pending = [c \in Channels |-> {}]
    /\ armed = [c \in Channels |-> {}]
    /\ outbound = [c \in Channels |-> <<>>]

----------------------------------------------------------------------------
(* write().  A final response takes the oldest deadline that awaits one;   *)
(* an informational response takes none.                                   *)

TakesAny(code) == TRUE

Takes(code) == code >= 200

Oldest(queue) == IF queue = <<>> THEN NoDeadline ELSE Head(queue)
Rest(queue) == IF queue = <<>> THEN queue ELSE Tail(queue)

Respond(c, i, code, close, queue) ==
    /\ awaiting' = [awaiting EXCEPT ![c] = IF Takes(code) THEN Rest(queue) ELSE queue]
    /\ outbound' = [outbound EXCEPT ![c] = Append(@,
           [request |-> i, final |-> code >= 200, close |-> close,
            deadline |-> IF Takes(code) THEN Oldest(queue) ELSE NoDeadline])]

(* close() from within the pipeline.  On a stream Netty writes RST_STREAM  *)
(* first, unless END_STREAM was received and sent or queued.               *)
EndStreamQueued(c) == ended[c] /\ \E i \in Requests : stage[c][i] \in {"written", "answered"}

Close(c, why) ==
    /\ state' = [state EXCEPT ![c] = IF @ = "active" THEN "closing" ELSE @]
    /\ cause' = [cause EXCEPT ![c] = IF @ = "none" THEN why ELSE @]
    /\ reset' = [reset EXCEPT ![c] = @ \/ (/\ protocol = "http2"
                                           /\ state[c] = "active"
                                           /\ ~EndStreamQueued(c))]

----------------------------------------------------------------------------
(* Inbound.                                                                *)

Aggregating(c) == \E i \in Requests : stage[c][i] = "body"

StageGoes(c, i, to) == stage' = [stage EXCEPT ![c][i] = to]

(* channelRead() of a request's head, passed on to the aggregator, which   *)
(* waits for the body, or says 100 Continue and waits, or answers 413 at   *)
(* once.  SslHandler goes on decrypting while the channel is closing.  A   *)
(* stream carries one request.                                             *)
ReadHead(c) ==
    LET i == read[c] + 1
        queue == Append(awaiting[c], i)
    IN  /\ state[c] \in {"active", "closing"}
        /\ i \in Requests
        /\ protocol = "http2" => i = 1 /\ state[c] = "active"
        /\ ~Aggregating(c)
        /\ read' = [read EXCEPT ![c] = i]
        /\ armed' = [armed EXCEPT ![c] = @ \cup {i}]
        /\ pending' = [pending EXCEPT ![c] = @ \cup {i}]
        /\ \/ /\ StageGoes(c, i, "body")
              /\ awaiting' = [awaiting EXCEPT ![c] = queue]
              /\ UNCHANGED outbound
           \/ StageGoes(c, i, "body") /\ Respond(c, i, 100, FALSE, queue)
           \/ /\ StageGoes(c, i, "written")
              /\ \E close \in BOOLEAN : Respond(c, i, 413, close, queue)
        /\ UNCHANGED <<protocol, state, cause, age, streamVars>>

(* The last content: EndpointHandlers writes its response, or the          *)
(* aggregator its 413, and closes once it is written unless the connection *)
(* is to be kept.                                                          *)
ReadLast(c) ==
    /\ state[c] \in {"active", "closing"}
    /\ \E i \in Requests, close \in BOOLEAN :
        /\ stage[c][i] = "body"
        /\ StageGoes(c, i, "written")
        /\ Respond(c, i, 200, close, awaiting[c])
    /\ ended' = [ended EXCEPT ![c] = protocol = "http2"]
    /\ UNCHANGED <<protocol, state, cause, read, age, reset, pending, armed>>

----------------------------------------------------------------------------
(* A promise completes, successfully or not and perhaps after the channel  *)
(* has ended: its listeners cancel the deadline, then close if asked to.   *)

WriteCompletesKeeping(c) ==
    /\ outbound[c] # <<>>
    /\ LET w == Head(outbound[c])
           settles == w.final /\ stage[c][w.request] = "written"
       IN  /\ outbound' = [outbound EXCEPT ![c] = Tail(@)]
           /\ armed' = [armed EXCEPT ![c] = @ \ {w.deadline}]
           /\ stage' = [stage EXCEPT ![c][w.request] = IF settles THEN "answered" ELSE @]
           /\ age' = [age EXCEPT ![c][w.request] = IF settles THEN 0 ELSE @]
           /\ IF w.close THEN Close(c, "response") ELSE UNCHANGED <<state, cause, reset>>
    /\ UNCHANGED <<protocol, read, ended, awaiting, pending>>

WriteCompletes(c) ==
    /\ outbound[c] # <<>>
    /\ LET w == Head(outbound[c])
           settles == w.final /\ stage[c][w.request] = "written"
       IN  /\ outbound' = [outbound EXCEPT ![c] = Tail(@)]
           /\ armed' = [armed EXCEPT ![c] = @ \ {w.deadline}]
           /\ pending' = [pending EXCEPT ![c] = @ \ {w.deadline}]
           /\ stage' = [stage EXCEPT ![c][w.request] = IF settles THEN "answered" ELSE @]
           /\ age' = [age EXCEPT ![c][w.request] = IF settles THEN 0 ELSE @]
           /\ IF w.close THEN Close(c, "response") ELSE UNCHANGED <<state, cause, reset>>
    /\ UNCHANGED <<protocol, read, ended, awaiting>>

----------------------------------------------------------------------------
(* The deadline.  Its task passes a TimeoutException on and ends the       *)
(* channel; it does not touch the handler's own collections.               *)

FireDeadlineClosing(c, i) ==
    /\ i \in armed[c]
    /\ age[c][i] = Timeout
    /\ armed' = [armed EXCEPT ![c] = @ \ {i}]
    /\ Close(c, "deadline")
    /\ UNCHANGED <<protocol, read, stage, age, ended, awaiting, pending, outbound>>

FireDeadlineOnParent(c, i) ==
    /\ i \in armed[c]
    /\ age[c][i] = Timeout
    /\ armed' = [armed EXCEPT ![c] = @ \ {i}]
    /\ IF protocol = "http2"
       THEN /\ state' = [d \in Channels |-> IF state[d] = "active" THEN "closing" ELSE state[d]]
            /\ cause' = [d \in Channels |-> IF cause[d] = "none" THEN "deadline" ELSE cause[d]]
            /\ UNCHANGED reset
       ELSE Close(c, "deadline")
    /\ UNCHANGED <<protocol, read, stage, age, ended, awaiting, pending, outbound>>

FireDeadline(c, i) ==
    /\ i \in armed[c]
    /\ age[c][i] = Timeout
    /\ armed' = [armed EXCEPT ![c] = @ \ {i}]
    /\ \/ protocol = "http1" /\ Close(c, "deadline")
       \/ /\ protocol = "http2"
          /\ reset' = [reset EXCEPT ![c] = TRUE]
          /\ state' = [state EXCEPT ![c] = IF @ = "active" THEN "resetting" ELSE @]
          /\ cause' = [cause EXCEPT ![c] = IF @ = "none" THEN "deadline" ELSE @]
    /\ UNCHANGED <<protocol, read, stage, age, ended, awaiting, pending, outbound>>

(* The RST_STREAM frame left, and its listener closes the channel.  The    *)
(* frame waits for the peer to drain the connection.                       *)
ResetFlushed(c) ==
    /\ state[c] = "resetting"
    /\ state' = [state EXCEPT ![c] = "closing"]
    /\ UNCHANGED <<protocol, cause, read, stage, age, streamVars, handlerVars, outbound>>

----------------------------------------------------------------------------
(* The end of a channel: channelInactive(), and handlerRemoved() right     *)
(* after it, cancel what is pending.                                       *)

DeadlinesToCancelAwaiting(c) == {awaiting[c][k] : k \in DOMAIN awaiting[c]}

DeadlinesToCancel(c) == pending[c]

Inactive(C) ==
    LET drops(c, i) == c \in C /\ i \in Unanswered(c)
    IN  /\ state' = [c \in Channels |-> IF c \in C THEN "inactive" ELSE state[c]]
        /\ cause' = [c \in Channels |->
                        IF c \in C /\ cause[c] = "none" THEN "gone" ELSE cause[c]]
        /\ armed' = [c \in Channels |->
                        IF c \in C THEN armed[c] \ DeadlinesToCancel(c) ELSE armed[c]]
        /\ pending' = [c \in Channels |-> IF c \in C THEN {} ELSE pending[c]]
        /\ awaiting' = [c \in Channels |-> IF c \in C THEN <<>> ELSE awaiting[c]]
        /\ stage' = [c \in Channels |-> [i \in Requests |->
                        IF drops(c, i) THEN "dropped" ELSE stage[c][i]]]
        /\ age' = [c \in Channels |-> [i \in Requests |->
                        IF drops(c, i) THEN 0 ELSE age[c][i]]]
        /\ UNCHANGED <<protocol, read, streamVars, outbound>>

(* The transport closed after close(), or the stream after its last frame. *)
Closed(c) == state[c] = "closing" /\ Inactive({c})

(* The peer goes away or resets the stream, or the connection breaks under *)
(* all of its streams.                                                     *)
PeerLeaves(C) ==
    /\ \E c \in C : state[c] # "inactive"
    /\ Inactive({c \in C : state[c] # "inactive"})

TickStarved ==
    /\ \E c \in Channels : \E i \in Unanswered(c) : age[c][i] <= Timeout + 1
    /\ age' = [c \in Channels |-> [i \in Requests |->
                  IF i \in Unanswered(c) THEN age[c][i] + 1 ELSE age[c][i]]]
    /\ UNCHANGED <<protocol, state, cause, read, stage, streamVars, handlerVars, outbound>>

(* Time.  The event loop runs a timer that is due before time goes on.     *)
Tick ==
    /\ \A c \in Channels : \A i \in armed[c] : age[c][i] < Timeout
    /\ \E c \in Channels : \E i \in Unanswered(c) : age[c][i] <= Timeout
    /\ age' = [c \in Channels |-> [i \in Requests |->
                  IF i \in Unanswered(c) /\ age[c][i] <= Timeout
                  THEN age[c][i] + 1 ELSE age[c][i]]]
    /\ UNCHANGED <<protocol, state, cause, read, stage, streamVars, handlerVars, outbound>>

Fire == \E c \in Channels : \E i \in Requests : FireDeadline(c, i)

Next ==
    \/ \E c \in Channels :
        ReadHead(c) \/ ReadLast(c) \/ WriteCompletes(c) \/ ResetFlushed(c) \/ Closed(c)
    \/ Fire
    \/ \E c \in Channels : PeerLeaves({c})
    \/ protocol = "http2" /\ PeerLeaves(Channels)
    \/ Tick

Spec == Init /\ [][Next]_vars

(* The clock and the event loop go on; a closing transport goes down, for  *)
(* SslHandler waits only so long for its close_notify to leave.  The peer  *)
(* owes nothing: neither a body nor room for a response.                   *)
Fairness ==
    /\ WF_vars(Tick)
    /\ WF_vars(Fire)
    /\ \A c \in Channels : WF_vars(Closed(c))

FairSpec == Spec /\ Fairness

----------------------------------------------------------------------------
(* On an open channel exactly the requests without a complete response     *)
(* have a running deadline, each its own, and the handler's collections    *)
(* hold nothing else: an answer cancels the deadline of the request it     *)
(* answers, and no other (write(), lines 50-64).                           *)
DeadlinePerUnanswered ==
    \A c \in Channels : state[c] = "active" =>
        /\ armed[c] = Unanswered(c)
        /\ pending[c] = armed[c]

(* A channel whose handler is gone leaves no timer on the event loop to    *)
(* fire into it, also when a promise of it completes only afterwards.      *)
NoTimerOutlivesChannel ==
    \A c \in Channels : state[c] = "inactive" => armed[c] = {} /\ pending[c] = {}

(* No request is older than the timeout on a channel that is still served, *)
(* whether its body is late, its 100 Continue was sent or its response is  *)
(* blocked.                                                                *)
NoOverdueRequest ==
    \A c \in Channels : state[c] = "active" =>
        \A i \in Unanswered(c) : age[c][i] <= Timeout

(* A stream that its deadline ended is reset, even when its END_STREAM is  *)
(* already queued (comment at line 37).                                    *)
ExpiredStreamIsReset ==
    \A c \in Channels :
        protocol = "http2" /\ cause[c] = "deadline" => reset[c]

(* The handler implements RequestContract: a deadline ends its own channel *)
(* and no sibling, and only for a request that ran out of time.            *)
FateOf(s) == IF s \in {"body", "written"} THEN "waiting" ELSE s

ShutOf(why) ==
    IF why = "none" THEN "open" ELSE IF why = "response" THEN "answer" ELSE why

fateBar == [c \in Channels |-> [i \in Requests |-> FateOf(stage[c][i])]]
shutBar == [c \in Channels |-> ShutOf(cause[c])]

Contract == INSTANCE RequestContract WITH fate <- fateBar, clock <- age, shut <- shutBar

ImplementsContract == Contract!Spec

(* Whatever the peer does, every request is answered or given up with its  *)
(* channel; only a stream whose RST_STREAM cannot leave keeps it.          *)
RequestsSettle ==
    \A c \in Channels, i \in Requests :
        stage[c][i] \in {"body", "written"} ~>
            stage[c][i] \in {"answered", "dropped"} \/ state[c] = "resetting"
=============================================================================
