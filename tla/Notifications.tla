---------------------------- MODULE Notifications ---------------------------
(* Desktop notifications: what alerts the reader (internal/whatsapp/        *)
(* notifications.go and the end of handleMessage), how an alert is put on   *)
(* the screen (internal/notify/notify.go), and what its click does. The     *)
(* session's notification server is shared with other programs.             *)
EXTENDS Naturals, Sequences, SequencesExt, FiniteSets

CONSTANTS
    Alerts,       \* alerts, each delivered by a goroutine of its own
    Chats,
    Nothing,
    Limits,       \* values of maxLiveNotifications looked at (4 in the code)
    ServerRoom,   \* notifications the session's server holds in all
    MaxTracked,   \* bound of the table of alerts seen (256 in the code)
    MaxMishaps    \* bound: calls of the server that fail, and repeats

NotificationsAssumption ==
    /\ Nothing \notin Alerts \cup Chats /\ IsFiniteSet(Alerts)
    /\ Limits \cup {ServerRoom, MaxTracked} \subseteq Nat \ {0} /\ MaxMishaps \in Nat

VARIABLES
    maxLive,    \* maxLiveNotifications
    about,      \* the chat of each alert
    claimed,    \* the table of alerts seen, oldest first
    state,      \* where each alert is
    poster,     \* the alert whose goroutine holds the lock "post"
    given,      \* the notification the server gave the poster
    closing,    \* the notifications the poster closes one by one
    live,       \* liveNotifications, oldest first
    chatNote,   \* chatNotifications
    actions,    \* the chat a click on each notification opens
    screen,     \* the server: the alert each open notification shows
    others,     \* the server: open notifications of other programs
    signals,    \* signals on their way from the server
    lastId,     \* the last number the server gave
    mishaps,
    rung,       \* history: how often each alert was announced
    told,       \* history: alerts the window was told to present itself
    strays      \* history: open notifications the tables have lost

desk    == <<maxLive, about, claimed, rung>>
tables  == <<live, chatNote, actions>>
session == <<screen, others, signals, lastId>>
noteVars == <<desk, state, poster, given, closing, tables, session, mishaps, told, strays>>

Ids  == 1 .. 2 * Cardinality(Alerts) + MaxMishaps
Open == {i \in Ids : screen[i] # Nothing}
Full == Cardinality(Open) + others >= ServerRoom

Init ==
    /\ maxLive \in Limits /\ about \in [Alerts -> Chats]
    /\ claimed = <<>> /\ rung = [a \in Alerts |-> 0]
    /\ state = [a \in Alerts |-> "new"] /\ poster = Nothing /\ given = 0 /\ closing = <<>>
    /\ live = <<>> /\ chatNote = [c \in Chats |-> 0] /\ actions = [i \in Ids |-> Nothing]
    /\ screen = [i \in Ids |-> Nothing] /\ others = 0 /\ signals = <<>> /\ lastId = 0
    /\ mishaps = 0 /\ told = {} /\ strays = {}

At(a, step)   == state' = [state EXCEPT ![a] = step]
Without(s, x) ==
    IF x \in Range(s) THEN RemoveAt(s, CHOOSE k \in DOMAIN s : s[k] = x) ELSE s
Mishap        == mishaps < MaxMishaps /\ mishaps' = mishaps + 1

-----------------------------------------------------------------------------
(* What alerts. A call comes as an offer and as a notice, and again after a *)
(* reconnect.                                                               *)

Unseen(a) == a \notin Range(claimed)

(* A full table gives up its oldest entry.                                  *)
claimAlert(a) ==
    claimed' = Append(IF Len(claimed) < MaxTracked THEN claimed ELSE Tail(claimed), a)

(* The event says "handled" and a goroutine starts to post.                 *)
Announce(a) ==
    /\ state[a] = "new"
    /\ IF Unseen(a)
       THEN claimAlert(a) /\ At(a, "wait") /\ rung' = [rung EXCEPT ![a] = @ + 1]
       ELSE At(a, "refused") /\ UNCHANGED <<claimed, rung>>
    /\ UNCHANGED <<maxLive, about, poster, given, closing, tables, session, mishaps, told, strays>>

(* The same call is offered again, once this alert is over: it is announced *)
(* again only if the table has forgotten it.                                *)
OfferAgain(a) ==
    /\ state[a] \in {"done", "failed"} /\ rung[a] = 1 /\ Mishap
    /\ IF Unseen(a)
       THEN /\ claimAlert(a) /\ At(a, "wait") /\ told' = told \ {a}
            /\ rung' = [rung EXCEPT ![a] = @ + 1]
       ELSE UNCHANGED <<claimed, state, rung, told>>
    /\ UNCHANGED <<maxLive, about, poster, given, closing, tables, session, strays>>

-----------------------------------------------------------------------------
(* Notify, under the lock "post"; the tables have a lock of their own.      *)

(* Mutant: a chat goes on naming the notification that was forgotten.       *)
DropFromList(i) == live' = Without(live, i) /\ UNCHANGED chatNote

(* What the chats name when these are forgotten.                            *)
Unnamed(ids) == [c \in Chats |-> IF chatNote[c] \in ids THEN 0 ELSE chatNote[c]]

Forget(i) == live' = Without(live, i) /\ chatNote' = Unnamed({i})

(* The oldest notifications go until one more fits; they are still to be    *)
(* closed.                                                                  *)
ReserveSlot ==
    LET n == IF Len(live) < maxLive THEN 0 ELSE 1 + Len(live) - maxLive
    IN  /\ closing' = SubSeq(live, 1, n) /\ live' = SubSeq(live, n + 1, Len(live))
        /\ chatNote' = Unnamed({live[k] : k \in 1 .. n})

(* Everything is handed over to be closed.                                  *)
TakeLive == closing' = live /\ live' = <<>> /\ chatNote' = [c \in Chats |-> 0]

(* Mutant: making room and posting are two actions of two locks.            *)
MakeRoomUnlocked(a) ==
    /\ state[a] = "wait" /\ poster = Nothing
    /\ ReserveSlot
    /\ At(a, "post")
    /\ UNCHANGED <<desk, poster, given, actions, session, mishaps, told, strays>>

(* The lock is taken and the oldest notifications are forgotten, until one  *)
(* more fits; they are closed before the new one is posted.                 *)
MakeRoom(a) ==
    /\ state[a] = "wait" /\ poster = Nothing
    /\ poster' = a
    /\ ReserveSlot
    /\ At(a, "post")
    /\ UNCHANGED <<desk, given, actions, session, mishaps, told, strays>>

(* The server closes it and says so, or the call fails.                     *)
CloseNotification ==
    /\ closing # <<>>
    /\ closing' = Tail(closing)
    /\ Forget(Head(closing))
    /\ \/ /\ screen[Head(closing)] # Nothing
          /\ screen' = [screen EXCEPT ![Head(closing)] = Nothing]
          /\ signals' = Append(signals, [id |-> Head(closing), click |-> FALSE])
          /\ UNCHANGED <<mishaps, strays>>
       \/ /\ screen[Head(closing)] = Nothing
          /\ UNCHANGED <<screen, signals, mishaps, strays>>
       \/ /\ Mishap /\ strays' = strays \cup {Head(closing)}
          /\ UNCHANGED <<screen, signals>>
    /\ UNCHANGED <<desk, state, poster, given, actions, others, lastId, told>>

Show(a, i) ==
    /\ screen' = [screen EXCEPT ![i] = a] /\ given' = i
    /\ lastId' = IF i > lastId THEN i ELSE lastId
    /\ At(a, "track")

Unlock(a) == poster' = IF poster = a THEN Nothing ELSE poster

(* Mutant: nobody is told that an alert was not shown.                      *)
FailSilently(a) ==
    /\ At(a, "failed") /\ Unlock(a)
    /\ UNCHANGED <<told, given, screen, lastId>>

(* The window is told to present it.                                        *)
FailNotice(a) ==
    /\ At(a, "failed") /\ Unlock(a)
    /\ told' = told \cup {a}
    /\ UNCHANGED <<given, screen, lastId>>

(* The chat's open notification is replaced; the server gives a number that *)
(* is closed by now a second life, or a new number. It refuses when it is   *)
(* full: then this daemon gives back all it holds, and posts once more.     *)
Post(a) ==
    LET old == chatNote[about[a]]
    IN  /\ state[a] = "post" /\ closing = <<>>
        /\ \/ /\ old # 0 /\ (old \in Open \/ ~Full)
              /\ Show(a, old)
              /\ UNCHANGED <<poster, closing, live, chatNote, mishaps, told>>
           \/ /\ old \notin Open /\ ~Full
              /\ Show(a, lastId + 1)
              /\ UNCHANGED <<poster, closing, live, chatNote, mishaps, told>>
           \/ /\ old \notin Open /\ Full
              /\ TakeLive
              /\ At(a, "again")
              /\ UNCHANGED <<poster, given, screen, lastId, mishaps, told>>
           \/ /\ Mishap /\ FailNotice(a)
              /\ UNCHANGED <<closing, live, chatNote>>
        /\ UNCHANGED <<desk, actions, others, signals, strays>>

PostAgain(a) ==
    /\ state[a] = "again" /\ closing = <<>>
    /\ \/ ~Full /\ Show(a, lastId + 1) /\ UNCHANGED <<poster, told>>
       \/ Full /\ FailNotice(a)
    /\ UNCHANGED <<desk, closing, tables, others, signals, mishaps, strays>>

(* Mutant: the server is taken to keep the number it is to replace.         *)
TrackReplaced(a) ==
    LET c == about[a]
        i == IF chatNote[c] # 0 THEN chatNote[c] ELSE given
    IN  /\ state[a] = "track"
        /\ actions' = [actions EXCEPT ![i] = c]
        /\ chatNote' = [chatNote EXCEPT ![c] = i]
        /\ live' = IF i \in Range(live) THEN live ELSE Append(live, i)
        /\ At(a, "done") /\ Unlock(a) /\ given' = 0
        /\ UNCHANGED <<desk, closing, session, mishaps, told, strays>>

(* The click target and the open notification are written down.             *)
Track(a) ==
    LET c == about[a]
        kept == IF chatNote[c] # given THEN Without(live, chatNote[c]) ELSE live
    IN  /\ state[a] = "track"
        /\ actions' = [actions EXCEPT ![given] = c]
        /\ chatNote' = [chatNote EXCEPT ![c] = given]
        /\ live' = IF given \in Range(kept) THEN kept ELSE Append(kept, given)
        /\ At(a, "done") /\ Unlock(a) /\ given' = 0
        /\ UNCHANGED <<desk, closing, session, mishaps, told, strays>>

-----------------------------------------------------------------------------
(* The server and the reader.                                               *)

(* A notification expires or is dismissed.                                  *)
Dismiss(i) ==
    /\ i \in Open
    /\ screen' = [screen EXCEPT ![i] = Nothing]
    /\ signals' = Append(signals, [id |-> i, click |-> FALSE])
    /\ strays' = strays \ {i}
    /\ UNCHANGED <<desk, state, poster, given, closing, tables, others, lastId, mishaps, told>>

(* A click invokes the action and closes the notification.                  *)
Click(i) ==
    /\ i \in Open
    /\ screen' = [screen EXCEPT ![i] = Nothing]
    /\ signals' = signals \o <<[id |-> i, click |-> TRUE], [id |-> i, click |-> FALSE]>>
    /\ strays' = strays \ {i}
    /\ UNCHANGED <<desk, state, poster, given, closing, tables, others, lastId, mishaps, told>>

OtherPrograms ==
    /\ \/ Cardinality(Open) + others < ServerRoom /\ others' = others + 1
       \/ others > 0 /\ others' = others - 1
    /\ UNCHANGED <<desk, state, poster, given, closing, tables, screen, signals, lastId, mishaps,
                   told, strays>>

(* A number the daemon knows is acted on once: it is forgotten, as a click  *)
(* target and as open, and a click opens its chat in the client.            *)
watchActions ==
    /\ signals # <<>>
    /\ signals' = Tail(signals)
    /\ LET i == Head(signals).id
       IN  IF actions[i] = Nothing
           THEN UNCHANGED <<actions, live, chatNote, strays>>
           ELSE /\ actions' = [actions EXCEPT ![i] = Nothing]
                /\ Forget(i)
                /\ strays' = IF i \in Open THEN strays \cup {i} ELSE strays
    /\ UNCHANGED <<desk, state, poster, given, closing, screen, others, lastId, mishaps, told>>

-----------------------------------------------------------------------------
Goroutine(a) == Announce(a) \/ MakeRoom(a) \/ Post(a) \/ PostAgain(a) \/ Track(a)

Next ==
    \/ \E a \in Alerts : Goroutine(a) \/ OfferAgain(a)
    \/ \E i \in Ids : Dismiss(i) \/ Click(i)
    \/ CloseNotification \/ OtherPrograms \/ watchActions

(* The daemon's goroutines run; the server answers.                         *)
Fairness ==
    /\ \A a \in Alerts : SF_noteVars(Goroutine(a))
    /\ WF_noteVars(CloseNotification) /\ WF_noteVars(watchActions)

Spec == Init /\ [][Next]_noteVars /\ Fairness

-----------------------------------------------------------------------------
TypeOK ==
    /\ maxLive \in Limits /\ about \in [Alerts -> Chats] /\ rung \in [Alerts -> 0 .. 2]
    /\ state \in [Alerts -> {"new", "refused", "wait", "post", "again", "track", "done", "failed"}]
    /\ Len(claimed) <= MaxTracked /\ Range(claimed) \subseteq Alerts
    /\ poster \in Alerts \cup {Nothing} /\ given \in Ids \cup {0}
    /\ Range(closing) \cup Range(live) \subseteq Ids /\ strays \subseteq Ids
    /\ chatNote \in [Chats -> Ids \cup {0}] /\ actions \in [Ids -> Chats \cup {Nothing}]
    /\ screen \in [Ids -> Alerts \cup {Nothing}] /\ others \in 0 .. ServerRoom
    /\ Range(signals) \subseteq [id : Ids, click : BOOLEAN] /\ lastId \in Ids \cup {0}
    /\ mishaps \in 0 .. MaxMishaps /\ told \subseteq Alerts

(* The server never holds more of this daemon's notifications than the      *)
(* bound, whatever burst of messages came: but for those whose closing      *)
(* failed or whose late signal was taken for a closing.                     *)
LiveWithinBound == Cardinality(Open \ strays) <= maxLive

(* The list of open notifications is short and names each once, and each is *)
(* the notification of at most one chat.                                    *)
OneNotePerChat ==
    /\ Len(live) <= maxLive /\ IsInjective(live)
    /\ \A c, d \in Chats : chatNote[c] # 0 => chatNote[c] \in Range(live)
                                              /\ (chatNote[d] = chatNote[c] => c = d)

(* What is open can be clicked, and the click opens the chat of the message *)
(* shown, whichever number the server gave: but for the one just posted.    *)
OpenOnesAreClickable ==
    \A i \in Open \ strays : i = given \/ actions[i] = about[screen[i]]

(* Nobody is left without an alert: it is shown, or the window is told to  *)
(* show it. "A quiet status update must never be the reason an incoming     *)
(* call goes unannounced" (claimAlert), nor a server that refuses.          *)
AlertsReachTheReader ==
    \A a \in Alerts : state[a] # "new" ~> state[a] = "done" \/ a \in told

(* Alerts reach the reader, and what is open on the screen is bounded, one  *)
(* of a chat, and opens its chat.                                           *)
NotesReachTheReader ==
    /\ []LiveWithinBound /\ []OneNotePerChat /\ []OpenOnesAreClickable
    /\ AlertsReachTheReader

=============================================================================
