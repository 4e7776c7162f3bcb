---------------------------- MODULE RPCConnection ---------------------------
(* One connection to the daemon: the server's reader, request slots, write  *)
(* lock and event pump (serveConn of internal/rpc/server.go), the broker    *)
(* behind the pump (internal/events/broker.go), and the client, which calls *)
(* (internal/rpc/client.go under the lock of cmd/whatsapptui/daemon.go) or  *)
(* follows the events.                                                      *)
(*                                                                          *)
(* Callers share one connection and only read it during a call; the daemon  *)
(* writes its events to every connection all the same.                      *)
EXTENDS Naturals, Sequences, SequencesExt, FiniteSets

CONSTANTS
    Callers,      \* goroutines of the terminal client that ask
    Nobody,
    Slots,        \* requests of a connection handled at once (8 in the code)
    Buffer,       \* events a subscription holds (128 in the code)
    Pipe,         \* messages the socket holds towards the client
    MaxRequests, MaxEvents   \* bounds

ConnectionAssumption ==
    /\ Nobody \notin Callers
    /\ {Slots, Buffer, Pipe} \subseteq Nat \ {0}
    /\ {MaxRequests, MaxEvents} \subseteq Nat

VARIABLES
    follows,     \* the client follows the events and never asks
    asking,      \* the holder of the client's lock
    turn,        \* where each caller is
    next,        \* the last request number given out
    broken,      \* the client's decoder met an error, which it keeps
    left,        \* the client closed the connection
    sent,        \* requests on their way to the daemon
    pipe,        \* answers and events on their way to the client
    held,        \* the request the reader holds while it waits for a slot
    slots,       \* slots taken
    working,     \* requests a handler works on
    ready,       \* requests whose answer waits for the write lock
    reading,     \* the reader has not ended
    cancelled,   \* the connection's context
    subscribed,
    pumping,     \* the event pump has not ended
    queue,       \* the events of the subscription
    pumped,      \* the event the pump took and has not written
    published,   \* events published so far
    heard,       \* history: the events the client read, in order
    dropped,     \* history: the events nobody was subscribed or had room for
    spent        \* history: callers whose own time was over

client == <<follows, asking, turn, next, broken, left, heard, spent>>
server == <<held, slots, working, ready, reading, cancelled>>
pump   == <<subscribed, pumping, queue, pumped, published, dropped>>
connVars == <<client, server, pump, sent, pipe>>

Requests == 1 .. MaxRequests
Events   == 1 .. MaxEvents

(* What travels to the client: the answer to a request, an event, or what a *)
(* write that ran out of time left of either.                               *)
Answer(r) == [answers |-> r, event |-> 0]
Told(e)   == [answers |-> 0, event |-> e]
Torn      == [answers |-> 0, event |-> 0]

Init ==
    /\ follows \in BOOLEAN
    /\ asking = Nobody /\ turn = [c \in Callers |-> "idle"] /\ next = 0
    /\ broken = FALSE /\ left = FALSE
    /\ sent = <<>> /\ pipe = <<>>
    /\ held = 0 /\ slots = 0 /\ working = {} /\ ready = {} /\ reading = TRUE /\ cancelled = FALSE
    /\ subscribed = TRUE /\ pumping = TRUE /\ queue = <<>> /\ pumped = 0 /\ published = 0
    /\ heard = <<>> /\ dropped = {} /\ spent = {}

-----------------------------------------------------------------------------
(* The client.                                                              *)

(* A caller takes the lock, writes its request and starts to read.          *)
Ask(c) ==
    /\ ~follows /\ ~left /\ turn[c] = "idle" /\ asking = Nobody /\ next < MaxRequests
    /\ asking' = c /\ next' = next + 1
    /\ turn' = [turn EXCEPT ![c] = "waiting"]
    /\ sent' = IF reading THEN Append(sent, next + 1) ELSE sent
    /\ UNCHANGED <<follows, broken, left, heard, spent, server, pump, pipe>>

EndCall(outcome) ==
    /\ turn' = [turn EXCEPT ![asking] = outcome]
    /\ asking' = Nobody

(* The decoder reads the next envelope; half of one spoils what follows it. *)
Readable == pipe # <<>> /\ (Head(pipe) = Torn => Len(pipe) > 1)
Reading  == ~broken /\ ~left /\ Readable /\ pipe' = Tail(pipe)
Hear == heard' = IF Head(pipe).event # 0 THEN Append(heard, Head(pipe).event) ELSE heard

(* Mutant: the next envelope is taken for the answer, whatever it is.       *)
TakeNext ==
    /\ asking # Nobody /\ Reading /\ Hear
    /\ Head(pipe) # Torn
    /\ EndCall("answered")
    /\ UNCHANGED <<follows, next, broken, left, spent, server, pump, sent>>

(* An envelope that is not the answer to this call is passed over.          *)
Receive ==
    /\ asking # Nobody /\ Reading /\ Hear
    /\ Head(pipe) # Torn
    /\ IF Head(pipe).answers = next THEN EndCall("answered") ELSE UNCHANGED <<asking, turn>>
    /\ UNCHANGED <<follows, next, broken, left, spent, server, pump, sent>>

Follow ==
    /\ follows /\ Reading /\ Hear
    /\ Head(pipe) # Torn
    /\ UNCHANGED <<follows, asking, turn, next, broken, left, spent, server, pump, sent>>

(* The 30 seconds of a call are over. The decoder keeps that error, as it   *)
(* keeps any other, and every later call ends with it.                      *)
TimeOut ==
    /\ asking # Nobody
    /\ spent' = spent \cup {asking} /\ broken' = TRUE /\ EndCall("failed")
    /\ UNCHANGED <<follows, next, left, heard, server, pump, sent, pipe>>

Fail ==
    /\ asking # Nobody \/ follows
    /\ \/ broken
       \/ ~left /\ pipe # <<>> /\ Head(pipe) = Torn /\ Readable
       \/ ~left /\ ~subscribed /\ pipe = <<>>
    /\ broken' = TRUE
    /\ IF follows THEN ~broken /\ UNCHANGED <<asking, turn>> ELSE EndCall("failed")
    /\ UNCHANGED <<follows, next, left, heard, spent, server, pump, sent, pipe>>

(* The screen has what it asked for and may ask again.                      *)
Again(c) ==
    /\ turn[c] \in {"answered", "failed"}
    /\ turn' = [turn EXCEPT ![c] = "idle"] /\ spent' = spent \ {c}
    /\ UNCHANGED <<follows, asking, next, broken, left, heard, server, pump, sent, pipe>>

Leave ==
    /\ ~left /\ asking = Nobody
    /\ left' = TRUE
    /\ UNCHANGED <<follows, asking, turn, next, broken, heard, spent, server, pump, sent, pipe>>

-----------------------------------------------------------------------------
(* The server's writes: an event or an answer, one at a time.               *)

Fits == ~left /\ Len(pipe) < Pipe

(* The deadline of a write passes while the client does not read.           *)
Stalled == ~left /\ Len(pipe) >= Pipe /\ (follows \/ broken \/ asking = Nobody)

Write(item) == Fits /\ pipe' = Append(pipe, item) /\ UNCHANGED cancelled
WriteFails ==
    /\ cancelled' = TRUE
    /\ \/ left /\ UNCHANGED pipe
       \/ Stalled /\ pipe' = Append(pipe, Torn)

-----------------------------------------------------------------------------
(* The reader and its handlers.                                             *)

(* The next request, or the end of the connection.                          *)
Decode ==
    /\ reading /\ held = 0
    /\ \/ /\ sent # <<>>
          /\ held' = Head(sent) /\ sent' = Tail(sent) /\ UNCHANGED reading
       \/ /\ sent = <<>> /\ left
          /\ reading' = FALSE /\ UNCHANGED <<held, sent>>
    /\ UNCHANGED <<client, slots, working, ready, cancelled, pump, pipe>>

(* A free slot and a cancelled context are equal to the select.             *)
TakeSlot ==
    /\ held # 0
    /\ \/ /\ slots < Slots
          /\ slots' = slots + 1 /\ working' = working \cup {held} /\ UNCHANGED reading
       \/ /\ cancelled
          /\ reading' = FALSE /\ UNCHANGED <<slots, working>>
    /\ held' = 0
    /\ UNCHANGED <<client, ready, cancelled, pump, sent, pipe>>

Handle(r) ==
    /\ r \in working
    /\ working' = working \ {r} /\ ready' = ready \cup {r}
    /\ UNCHANGED <<client, held, slots, reading, cancelled, pump, sent, pipe>>

(* Mutant: the slot of a request that failed is never given back.          *)
RespondOrKeep(r) ==
    /\ r \in ready
    /\ ready' = ready \ {r} /\ slots' \in {slots, slots - 1}
    /\ Write(Answer(r)) \/ WriteFails
    /\ UNCHANGED <<client, held, working, reading, pump, sent>>

Respond(r) ==
    /\ r \in ready
    /\ ready' = ready \ {r} /\ slots' = slots - 1
    /\ Write(Answer(r)) \/ WriteFails
    /\ UNCHANGED <<client, held, working, reading, pump, sent>>

(* Mutant: the subscription outlives the connection.                        *)
EndSubscribed ==
    /\ ~reading /\ working \cup ready = {} /\ subscribed
    /\ cancelled' = TRUE
    /\ UNCHANGED <<client, held, slots, working, ready, reading, pump, sent, pipe>>

(* The deferred calls, once no request is under way: the subscription, the  *)
(* context, the connection.                                                 *)
End ==
    /\ ~reading /\ working \cup ready = {} /\ subscribed
    /\ subscribed' = FALSE /\ cancelled' = TRUE
    /\ UNCHANGED <<client, held, slots, working, ready, reading, pumping, queue, pumped, published,
                   dropped, sent, pipe>>

-----------------------------------------------------------------------------
(* Events.                                                                  *)

(* Mutant: a subscriber whose buffer is full gets the event all the same.   *)
PublishUnbounded ==
    /\ published < MaxEvents
    /\ published' = published + 1
    /\ queue' = IF subscribed THEN Append(queue, published + 1) ELSE queue
    /\ UNCHANGED <<client, server, subscribed, pumping, pumped, dropped, sent, pipe>>

(* A subscriber whose buffer is full is passed over.                        *)
Publish ==
    /\ published < MaxEvents
    /\ published' = published + 1
    /\ IF subscribed /\ Len(queue) < Buffer
       THEN queue' = Append(queue, published + 1) /\ UNCHANGED dropped
       ELSE dropped' = dropped \cup {published + 1} /\ UNCHANGED queue
    /\ UNCHANGED <<client, server, subscribed, pumping, pumped, sent, pipe>>

(* Mutant: the pump takes the latest event of the queue first.              *)
PumpLatest ==
    /\ pumping /\ pumped = 0 /\ queue # <<>>
    /\ pumped' = Last(queue) /\ queue' = Front(queue)
    /\ UNCHANGED <<client, server, subscribed, pumping, published, dropped, sent, pipe>>

Pump ==
    /\ pumping /\ pumped = 0 /\ queue # <<>>
    /\ pumped' = Head(queue) /\ queue' = Tail(queue)
    /\ UNCHANGED <<client, server, subscribed, pumping, published, dropped, sent, pipe>>

PumpStops ==
    /\ pumping /\ pumped = 0 /\ cancelled
    /\ pumping' = FALSE
    /\ UNCHANGED <<client, server, subscribed, queue, pumped, published, dropped, sent, pipe>>

(* A write that fails ends the events, not the reader.                      *)
Tell ==
    /\ pumped # 0
    /\ pumped' = 0
    /\ \/ Write(Told(pumped)) /\ UNCHANGED <<pumping, dropped>>
       \/ WriteFails /\ pumping' = FALSE /\ dropped' = dropped \cup {pumped}
    /\ UNCHANGED <<client, held, slots, working, ready, reading, subscribed, queue, published, sent>>

-----------------------------------------------------------------------------
ServerStep == Decode \/ TakeSlot \/ End \/ Pump \/ PumpStops \/ Tell
ClientStep == Receive \/ Follow \/ Fail

Next ==
    \/ ServerStep \/ ClientStep \/ TimeOut \/ Leave \/ Publish
    \/ \E c \in Callers : Ask(c) \/ Again(c)
    \/ \E r \in Requests : Handle(r) \/ Respond(r)

(* Goroutines that can go on do. Nobody has to ask, leave or publish.       *)
Fairness ==
    /\ WF_connVars(Decode) /\ WF_connVars(TakeSlot) /\ WF_connVars(End)
    /\ WF_connVars(Pump) /\ WF_connVars(Tell) /\ WF_connVars(ClientStep)
    /\ \A r \in Requests : WF_connVars(Handle(r)) /\ WF_connVars(Respond(r))

Spec == Init /\ [][Next]_connVars /\ Fairness

-----------------------------------------------------------------------------
TypeOK ==
    /\ follows \in BOOLEAN /\ broken \in BOOLEAN /\ left \in BOOLEAN /\ reading \in BOOLEAN
    /\ cancelled \in BOOLEAN /\ subscribed \in BOOLEAN /\ pumping \in BOOLEAN
    /\ asking \in Callers \cup {Nobody} /\ spent \subseteq Callers
    /\ turn \in [Callers -> {"idle", "waiting", "answered", "failed"}]
    /\ next \in 0 .. MaxRequests /\ held \in 0 .. MaxRequests
    /\ Range(sent) \cup working \cup ready \subseteq Requests
    /\ published \in 0 .. MaxEvents /\ pumped \in 0 .. MaxEvents
    /\ Range(queue) \cup Range(heard) \cup dropped \subseteq Events
    /\ Len(queue) <= Buffer /\ slots \in 0 .. Slots

UnderWay ==
    (Range(sent) \cup {held} \cup working \cup ready \cup {pipe[i].answers : i \in DOMAIN pipe}) \ {0}

(* Events between the answers, and answers to calls that were given up, are *)
(* never taken for the answer to a call: until the decoder is spoiled, only *)
(* the request of the call that waits is under way; and it is, as long as   *)
(* the daemon serves the connection.                                        *)
AnswersAreOwn ==
    ~broken =>
        /\ UnderWay \subseteq (IF asking = Nobody THEN {} ELSE {next})
        /\ asking # Nobody /\ reading /\ ~cancelled => next \in UnderWay

(* The client hears what was published, in order and once, but for what was *)
(* dropped: by the broker, for want of room, or by a write that failed.     *)
(* (0 is no event.)                                                         *)
EventsAreAccounted ==
    LET onTheirWay == [i \in DOMAIN pipe |-> pipe[i].event] \o <<pumped>> \o queue
        all        == heard \o onTheirWay
    IN  /\ \A i, j \in DOMAIN all : i < j /\ 0 \notin {all[i], all[j]} => all[i] < all[j]
        /\ Range(all) \ {0} = 1 .. published \ dropped

(* A request the daemon read is answered, or the connection ends or is      *)
(* spoiled; it does not wait for a slot for ever.                           *)
RequestsMoveOn == held # 0 ~> held = 0

(* A connection whose client left is let go: its requests, its subscription *)
(* and its context.                                                         *)
ConnectionEnds == left ~> ~subscribed /\ cancelled /\ ready = {}

(* "A queued request still gets its full budget" (call of daemon.go): a     *)
(* call fails on a connection both sides keep only once its time is over.   *)
QueuedCallGetsItsBudget ==
    [][\A c \in Callers :
         reading /\ turn[c] = "waiting" /\ turn'[c] = "failed" => c \in spent']_connVars

(* A connection is faithful: answers go to their calls, events come in      *)
(* order, requests move on, and its end lets everything go.                 *)
ConnectionIsFaithful ==
    []AnswersAreOwn /\ []EventsAreAccounted /\ RequestsMoveOn /\ ConnectionEnds

=============================================================================
