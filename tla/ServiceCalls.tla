---------------------------- MODULE ServiceCalls ----------------------------
(* The calls a client makes of the daemon that change something for the     *)
(* account or for this computer: a message is sent, a chat is muted, the    *)
(* blocked list edited, a preference set. A call runs the steps that        *)
(* ServiceHandlers lists for its method, two calls of one method about one  *)
(* chat, message or setting run at the same time, any step can fail, and    *)
(* WhatsApp may carry out a change whose answer never arrives.              *)
(*                                                                          *)
(* Calls that edit a group, download a file, pair, move a profile, update   *)
(* the program or fill the queue of scheduled messages have modules of      *)
(* their own.                                                               *)
(* Sources: internal/service/service.go, internal/whatsapp/client.go        *)
EXTENDS ServiceHandlers

CONSTANTS
    Callers,   \* the callers; the change a caller asks for is named after it
    MaxCalls,  \* bound: calls made in a behaviour
    None

CallsAssumption == MaxCalls \in Nat /\ None \notin Callers

VARIABLES
    method,       \* the method that is called
    path,         \* the steps of a call
    at,           \* the step a call is at, 0 when it is not running
    answer,       \* how a call was answered
    begun,        \* calls made so far
    agreed,       \* the change the account holds
    accepted,     \* every change the account has taken
    stored,       \* the change this computer's database holds
    snapshot,     \* the stored value a call has read
    told,         \* events with its value a call has published
    screen,       \* what a client shows that goes by the values in the events
    reread,       \* what a client shows that reads the database at each event
    unannounced,  \* a call failed after it had stored and before it said so
    overlapped,   \* two calls have run at the same time
    latest        \* the call answered last

vars == <<method, path, at, answer, begun, agreed, accepted, stored, snapshot, told, screen,
          reread, unannounced, overlapped, latest>>

-----------------------------------------------------------------------------
Init ==
    /\ method \in Methods
    /\ path = [c \in Callers |-> <<>>]
    /\ at = [c \in Callers |-> 0]
    /\ answer = [c \in Callers |-> "none"]
    /\ begun = 0
    /\ agreed = None /\ accepted = {}
    /\ stored = None /\ snapshot = [c \in Callers |-> None]
    /\ told = [c \in Callers |-> 0]
    /\ screen = None /\ reread = None
    /\ unannounced = FALSE /\ overlapped = FALSE /\ latest = None

Running == {c \in Callers : at[c] # 0}
AtStep(c, step) == at[c] \in DOMAIN path[c] /\ path[c][at[c]] = step

(* The request is read and its handler starts.                              *)
Handle(c) ==
    /\ at[c] = 0 /\ begun < MaxCalls
    /\ begun' = begun + 1
    /\ \E p \in Programs[method] : path' = [path EXCEPT ![c] = p]
    /\ at' = [at EXCEPT ![c] = 1]
    /\ answer' = [answer EXCEPT ![c] = "none"]
    /\ told' = [told EXCEPT ![c] = 0]
    /\ overlapped' = (Running # {})
    /\ UNCHANGED <<method, agreed, accepted, stored, snapshot, screen, reread, unannounced,
                   latest>>

GoOn(c) == at' = [at EXCEPT ![c] = @ + 1] /\ UNCHANGED <<answer, latest>>

(* The change is stored and no event has followed.                          *)
StoredUnsaid(c) ==
    \E i \in 1..(at[c] - 1) :
        /\ path[c][i] \in {"save", "keep"}
        /\ \A j \in i..(at[c] - 1) : path[c][j] \notin {"tell", "show", "hint"}

(* The handler returns an error.                                            *)
Fail(c) ==
    /\ at' = [at EXCEPT ![c] = 0]
    /\ answer' = [answer EXCEPT ![c] = "error"]
    /\ latest' = c
    /\ unannounced' = (unannounced \/ StoredUnsaid(c))

(* Parameters that do not decode, and reads that fail.                      *)
Refuse(c) ==
    /\ AtStep(c, "check") \/ AtStep(c, "look")
    /\ Fail(c)
    /\ UNCHANGED <<method, path, begun, agreed, accepted, stored, snapshot, told, screen, reread,
                   overlapped>>

Check(c) ==
    /\ AtStep(c, "check")
    /\ GoOn(c)
    /\ UNCHANGED <<method, path, begun, agreed, accepted, stored, snapshot, told, screen, reread,
                   unannounced, overlapped>>

Look(c) ==
    /\ AtStep(c, "look")
    /\ GoOn(c)
    /\ snapshot' = [snapshot EXCEPT ![c] = stored]
    /\ UNCHANGED <<method, path, begun, agreed, accepted, stored, told, screen, reread,
                   unannounced, overlapped>>

(* WhatsApp makes the change.                                               *)
Accept(c) == agreed' = c /\ accepted' = accepted \cup {c}

Ask(c) ==
    /\ AtStep(c, "ask")
    /\ GoOn(c) /\ Accept(c)
    /\ UNCHANGED <<method, path, begun, stored, snapshot, told, screen, reread, unannounced,
                   overlapped>>

(* Mutant: the error of the gateway is not looked at.                       *)
AskErrorIgnored(c) ==
    /\ AtStep(c, "ask")
    /\ GoOn(c)
    /\ Accept(c) \/ UNCHANGED <<agreed, accepted>>
    /\ UNCHANGED <<method, path, begun, stored, snapshot, told, screen, reread, unannounced,
                   overlapped>>

(* WhatsApp refuses, or makes the change and its answer is lost.            *)
AskFails(c) ==
    /\ AtStep(c, "ask")
    /\ Fail(c)
    /\ Accept(c) \/ UNCHANGED <<agreed, accepted>>
    /\ UNCHANGED <<method, path, begun, stored, snapshot, told, screen, reread, overlapped>>

Save(c) ==
    /\ AtStep(c, "save") \/ AtStep(c, "keep")
    /\ GoOn(c)
    /\ stored' = c
    /\ UNCHANGED <<method, path, begun, agreed, accepted, snapshot, told, screen, reread,
                   unannounced, overlapped>>

(* Mutant: the error of the database is not looked at.                      *)
SaveErrorIgnored(c) ==
    /\ AtStep(c, "save") \/ AtStep(c, "keep")
    /\ GoOn(c) /\ UNCHANGED unannounced
    /\ UNCHANGED <<method, path, begun, agreed, accepted, stored, snapshot, told, screen, reread,
                   overlapped>>

SaveFails(c) ==
    /\ \/ AtStep(c, "save") /\ Fail(c)
       \/ AtStep(c, "keep") /\ GoOn(c) /\ UNCHANGED unannounced
    /\ UNCHANGED <<method, path, begun, agreed, accepted, stored, snapshot, told, screen, reread,
                   overlapped>>

(* Followers take the value of the event, or read the database again.       *)
Publish(c) ==
    /\ AtStep(c, "tell") \/ AtStep(c, "show") \/ AtStep(c, "hint")
    /\ GoOn(c)
    /\ screen' = CASE AtStep(c, "tell") -> c
                  [] AtStep(c, "show") -> snapshot[c]
                  [] OTHER             -> screen
    /\ told' = IF AtStep(c, "hint") THEN told ELSE [told EXCEPT ![c] = @ + 1]
    /\ reread' = stored
    /\ unannounced' = FALSE
    /\ UNCHANGED <<method, path, begun, agreed, accepted, stored, snapshot, overlapped>>

Answer(c) ==
    /\ at[c] > Len(path[c])
    /\ at' = [at EXCEPT ![c] = 0]
    /\ answer' = [answer EXCEPT ![c] = "ok"]
    /\ latest' = c
    /\ UNCHANGED <<method, path, begun, agreed, accepted, stored, snapshot, told, screen, reread,
                   unannounced, overlapped>>

Next ==
    \E c \in Callers :
        \/ Handle(c) \/ Refuse(c) \/ Check(c) \/ Look(c) \/ Ask(c) \/ AskFails(c)
        \/ Save(c) \/ SaveFails(c) \/ Publish(c) \/ Answer(c)

Spec == Init /\ [][Next]_vars

-----------------------------------------------------------------------------
Values == Callers \cup {None}

(* The variables stay in their types.                                       *)
TypeOK ==
    /\ method \in Methods
    /\ \A c \in Callers : path[c] \in Programs[method] \cup {<<>>}
    /\ \A c \in Callers : at[c] \in 0..(Len(path[c]) + 1)
    /\ answer \in [Callers -> {"none", "ok", "error"}]
    /\ begun \in 0..MaxCalls
    /\ {agreed, stored, screen, reread, latest} \subseteq Values
    /\ accepted \subseteq Callers
    /\ snapshot \in [Callers -> Values]
    /\ told \in [Callers -> 0..2]
    /\ unannounced \in BOOLEAN /\ overlapped \in BOOLEAN

(* What a method does in every one of its programs.                         *)
Does(step) == \A p \in Programs[method] : \E i \in DOMAIN p : p[i] = step
Saves      == Does("save")
Announces  == Does("tell") \/ Does("show") \/ Does("hint")

(* What is stored here, and what a client shows, WhatsApp has agreed to: a  *)
(* change it refused leaves no trace (every handler returns before it       *)
(* stores or publishes, service.go:1041-1050).                              *)
NothingRefusedIsShown == Does("ask") => {stored, screen, reread} \subseteq accepted \cup {None}

(* A client that reads the database at every event shows what is stored     *)
(* once no call is running, whatever calls ran at the same time, unless the *)
(* last one to store failed before it could say so.                         *)
RereadersCatchUp ==
    (Saves /\ Announces /\ Running = {} /\ ~unannounced) => reread = stored

(* When calls did not overlap and the last one was answered with success,   *)
(* the account, the database and the clients all hold its change, whatever  *)
(* earlier calls left half done.                                            *)
SettledCallsAgree ==
    (Running = {} /\ ~overlapped /\ latest # None /\ answer[latest] = "ok") =>
        /\ Does("ask") => agreed = latest
        /\ Saves => stored = latest
        /\ Does("tell") \/ Does("show") => screen = latest
        /\ Saves /\ Announces => reread = latest

(* A change is told once: the events of the gateway are forwarded, and what *)
(* it says the service must not say again (service.go:1303-1305).           *)
ToldOnce == \A c \in Callers : told[c] <= 1

(* What is stored is told: to clients that read again at every event, and   *)
(* not twice to those that go by the event.                                 *)
ChangesAreTold == RereadersCatchUp /\ ToldOnce

=============================================================================
