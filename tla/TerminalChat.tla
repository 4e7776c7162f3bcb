---------------------------- MODULE TerminalChat ----------------------------
(* The conversation on screen of the terminal client (cmd/whatsapptui): its *)
(* pages, the announcements of the daemon, the cursor, the search for a day *)
(* and what the message box will answer. A call of the client runs beside   *)
(* the interface, so an answer is computed by the daemon at one moment and  *)
(* taken by the interface at a later one, in any order with the others and  *)
(* with the announcements.                                                  *)
(* The messages of a conversation are numbered in the order of the daemon's *)
(* paging, by time and id; the daemon holds a contiguous part of them,      *)
(* which arrivals extend above and collected history below. Two calls that  *)
(* ask the same and have no answer yet are one.                             *)
EXTENDS Integers, Sequences, FiniteSets, SequencesExt

CONSTANTS
    Rooms,           \* the conversations
    Busy,            \* bound: the conversations in which anything is done but opening them
    None,
    Page, Most,      \* pageSize and pageMost
    SeekPages,       \* the pages a search reads before it gives up
    FirstHeld,       \* the oldest message the daemon holds of a conversation at first
    LastHeld,        \* the newest one
    Ours,            \* the numbers of those that were written here
    MaxNumber,       \* bound: the number of the newest message ever
    MaxOpens,        \* bound: how often a conversation is opened
    MaxActs,         \* bound: refreshes, answers, searches and sendings before the last
                     \* conversation is opened, and calls that fail
    MaxCalls         \* bound: the calls without a taken answer at one moment

TerminalAssumption ==
    /\ Page \in Nat \ {0} /\ Most \in Nat /\ Most >= Page
    /\ {SeekPages, FirstHeld, LastHeld, MaxNumber, MaxOpens, MaxActs, MaxCalls} \subseteq Nat
    /\ 1 <= FirstHeld /\ FirstHeld <= LastHeld /\ LastHeld <= MaxNumber
    /\ Ours \subseteq FirstHeld .. LastHeld
    /\ None \notin Rooms /\ Busy \subseteq Rooms

VARIABLES
    first, last,     \* what the daemon holds of each conversation
    ours,             \* the messages written here
    stream,          \* the announcements the client has not read
    calls,           \* the calls of the client whose answer is not taken
    ui,              \* the state of the interface (type app)
    acked,           \* the messages whose senders the last step told that they are read
    keys, failures

terminalVars == <<first, last, ours, stream, calls, ui, acked, keys, failures>>

Messages == [room : Rooms, n : 1 .. MaxNumber]
Message(r, n) == [room |-> r, n |-> n]

(* The fields of app that concern the open conversation. The cursor counts  *)
(* from 0 as in the code.                                                   *)
Interface ==
    [open : Rooms \cup {None}, generation : 0 .. MaxOpens, shown : Seq(Messages), cursor : Nat,
     hasMore : BOOLEAN, nextBefore : 0 .. MaxNumber, loadingOlder : BOOLEAN,
     waitingHistory : BOOLEAN, asked : SUBSET Messages, seeking : Messages \cup {None},
     seekingPages : 0 .. SeekPages, replyTo : Messages \cup {None},
     editing : Messages \cup {None}]

Smaller(a, b) == IF a < b THEN a ELSE b
Larger(a, b)  == IF a > b THEN a ELSE b

(* A page of a conversation: the newest `limit` messages before one of them *)
(* (0 asks for the newest), whether there are older ones, and where the     *)
(* next page starts.                                                        *)
ListMessagesBefore(r, before, limit) ==
    LET top    == IF before = 0 THEN last[r] ELSE before - 1
        bottom == Larger(top - limit + 1, first[r])
    IN  [messages   |-> [i \in 1 .. Larger(0, top - bottom + 1) |-> Message(r, bottom + i - 1)],
         hasMore    |-> top >= bottom /\ bottom > first[r],
         nextBefore |-> IF top < bottom THEN 0 ELSE bottom]

Call(u, mode, before, limit, about) ==
    [mode |-> mode, room |-> u.open, generation |-> u.generation, before |-> before,
     limit |-> limit, about |-> about, answer |-> None]

LoadPage(u, before, limit, mode) == Call(u, mode, before, limit, None)

(* ------------- handlers: the new interface and what it asks -------------- *)
Does(u, asks) == [ui |-> u, asks |-> asks]

Has(u, m) == \E i \in DOMAIN u.shown : u.shown[i] = m
At(u, m)  == CHOOSE i \in DOMAIN u.shown : u.shown[i] = m
Newest(u) == Larger(0, Len(u.shown) - 1)

SelectedMessage(u) ==
    IF u.cursor < Len(u.shown) THEN u.shown[u.cursor + 1] ELSE None

RequestHistory(u) ==
    IF u.waitingHistory \/ u.open = None \/ u.shown = <<>> \/ u.shown[1] \in u.asked
    THEN Does(u, {})
    ELSE Does([u EXCEPT !.asked = @ \cup {u.shown[1]}, !.waitingHistory = TRUE],
              {Call(u, "history", 0, Page, None)})

LoadOlder(u) ==
    IF u.loadingOlder \/ u.open = None THEN Does(u, {})
    ELSE IF ~u.hasMore THEN RequestHistory(u)
    ELSE Does([u EXCEPT !.loadingOlder = TRUE], {LoadPage(u, u.nextBefore, Page, "older")})

(* The conversation again, as much of it as is on screen.                   *)
RefreshOpen(u) ==
    IF u.open = None THEN {}
    ELSE {LoadPage(u, 0, Smaller(Larger(Len(u.shown), Page), Most), "reset")}

(* One message again, when it is on screen.                                 *)
RefreshOne(u, m) == IF u.open = None \/ ~Has(u, m) THEN {} ELSE {Call(u, "one", 0, 0, m)}

Upsert(u, m) == IF Has(u, m) THEN u ELSE [u EXCEPT !.shown = Append(@, m)]

(* What of a page is not on screen, in its order.                           *)
Unseen(u, older) ==
    LET grown[i \in 0 .. Len(older)] ==
            IF i = 0 THEN <<>>
            ELSE IF Has(u, older[i]) THEN grown[i - 1] ELSE Append(grown[i - 1], older[i])
    IN  grown[Len(older)]

(* Mutant: a page is put in front as it is.                                 *)
PrependEverything(u, older) ==
    [u EXCEPT !.shown = older \o @, !.cursor = @ + Len(older)]

(* Mutant: the cursor stays on its row instead of on its message.           *)
PrependUnderTheCursor(u, older) ==
    [u EXCEPT !.shown = Unseen(u, older) \o @]

Prepend(u, older) ==
    LET grown == Unseen(u, older)
    IN  [u EXCEPT !.shown = grown \o @, !.cursor = @ + Len(grown)]

(* A search goes on until its message is on screen, nothing older is held   *)
(* or enough pages were read.                                               *)
Seek(u, m) ==
    IF Has(u, m)
    THEN Does([u EXCEPT !.cursor = At(u, m) - 1, !.seeking = None, !.seekingPages = 0], {})
    ELSE IF ~u.hasMore \/ u.seekingPages >= SeekPages
    THEN Does([u EXCEPT !.seeking = None, !.seekingPages = 0], {})
    ELSE LoadOlder([u EXCEPT !.seeking = m, !.seekingPages = @ + 1])

(* Mutant: a half-written answer is kept for the next conversation.         *)
OpenChatAnswering(u, r) ==
    LET opened == [u EXCEPT !.generation = @ + 1, !.open = r, !.shown = <<>>,
                            !.hasMore = FALSE, !.nextBefore = 0, !.cursor = 0,
                            !.loadingOlder = FALSE, !.waitingHistory = FALSE]
    IN  Does(opened, {LoadPage(opened, 0, Page, "open")})

(* Mutant: the older page of the conversation that is left is waited for.   *)
OpenChatWaiting(u, r) ==
    LET opened == [u EXCEPT !.generation = @ + 1, !.open = r, !.shown = <<>>,
                            !.hasMore = FALSE, !.nextBefore = 0, !.cursor = 0,
                            !.replyTo = None, !.editing = None]
    IN  Does(opened, {LoadPage(opened, 0, Page, "open")})

OpenChat(u, r) ==
    LET opened == [u EXCEPT !.generation = @ + 1, !.open = r, !.shown = <<>>,
                            !.hasMore = FALSE, !.nextBefore = 0, !.cursor = 0,
                            !.loadingOlder = FALSE, !.waitingHistory = FALSE,
                            !.replyTo = None, !.editing = None]
    IN  Does(opened, {LoadPage(opened, 0, Page, "open")})

(* Mutant: every answer is taken while a conversation is open.              *)
CurrentWhileOpen(u, c) == u.open # None

Current(u, c) == c.generation = u.generation /\ c.room = u.open

(* What is on screen once a page has been taken.                            *)
Placed(u, c) ==
    LET read == [u EXCEPT !.hasMore = c.answer.hasMore, !.nextBefore = c.answer.nextBefore]
    IN  IF c.mode = "older"
        THEN Prepend([read EXCEPT !.loadingOlder = FALSE, !.waitingHistory = FALSE],
                     c.answer.messages)
        ELSE [read EXCEPT !.shown = c.answer.messages,
                          !.cursor = Larger(0, Len(c.answer.messages) - 1)]

(* A page, when it is still about the conversation that asked for it.       *)
TakePage(u, c) ==
    LET placed == Placed(u, c)
    IN  IF ~Current(u, c) THEN Does(u, {})
        ELSE IF c.mode = "open" THEN Does(placed, {})
        ELSE IF placed.seeking # None THEN Seek(placed, placed.seeking)
        ELSE IF ~placed.hasMore THEN RequestHistory(placed)
        ELSE Does(placed, {})

(* One message that was asked for, or the one that was sent.                *)
TakeOne(u, c) == Does(IF Current(u, c) THEN Upsert(u, c.answer) ELSE u, {})

(* What the daemon announced.                                               *)
Arrived(u, m) ==
    LET grown == Upsert(u, m)
    IN  IF m.room # u.open THEN Does(u, {})
        ELSE IF u.cursor = Len(u.shown) - 1 THEN Does([grown EXCEPT !.cursor = Newest(grown)], {})
        ELSE Does(grown, {})

Touched(u, m) == Does(u, IF m.room = u.open THEN RefreshOne(u, m) ELSE {})

Synced(u, r) ==
    LET again == IF r = u.open THEN RefreshOpen(u) ELSE {}
    IN  IF u.waitingHistory /\ u.open # None /\ ~u.loadingOlder
        THEN Does([u EXCEPT !.waitingHistory = FALSE, !.loadingOlder = TRUE],
                  again \cup {LoadPage(u, u.nextBefore, Page, "older")})
        ELSE Does(u, again)

Announcement(u, e) ==
    CASE e.event = "message.upsert" -> Arrived(u, e.message)
      [] e.event = "message.edited" -> Touched(u, e.message)
      [] e.event = "history.synced" -> Synced(u, e.message.room)

(* ------------------------------- the steps ------------------------------- *)
daemonVars == <<first, last, ours, stream>>
Init ==
    /\ first = [r \in Rooms |-> FirstHeld] /\ last = [r \in Rooms |-> LastHeld]
    /\ ours = {m \in Messages : m.n \in Ours} /\ stream = <<>> /\ calls = {}
    /\ ui = [open |-> None, generation |-> 0, shown |-> <<>>, cursor |-> 0, hasMore |-> FALSE,
             nextBefore |-> 0, loadingOlder |-> FALSE, waitingHistory |-> FALSE, asked |-> {},
             seeking |-> None, seekingPages |-> 0, replyTo |-> None,
             editing |-> None]
    /\ acked = {} /\ keys = 0 /\ failures = 0

Event(name, m) == [event |-> name, message |-> m]

(* The interface takes one message: what it asks for is added to the calls  *)
(* that stay.                                                               *)
Handle(done, stay) ==
    /\ ui' = done.ui /\ calls' = stay \cup done.asks
    /\ Cardinality(calls') <= MaxCalls

(* A message of somebody arrives at the daemon.                             *)
Arrive(r) ==
    /\ r \in Busy
    /\ last[r] < MaxNumber
    /\ last' = [last EXCEPT ![r] = @ + 1]
    /\ stream' = Append(stream, Event("message.upsert", Message(r, last'[r])))
    /\ UNCHANGED <<first, ours, calls, ui, keys, failures>>
    /\ acked' = {}

(* The account answers a request for history, and the daemon announces it;  *)
(* or it does not answer, or the call fails, which the client ignores.      *)
Collect(c) ==
    /\ c.mode = "history" /\ c.room \in Busy /\ first[c.room] > 1
    /\ first' = [first EXCEPT ![c.room] = 1]
    /\ stream' = Append(stream, Event("history.synced", Message(c.room, 1)))
    /\ calls' = calls \ {c}
    /\ UNCHANGED <<last, ours, ui, keys, failures>>
    /\ acked' = {}

GoUnanswered(c) ==
    /\ c.mode = "history"
    /\ calls' = calls \ {c}
    /\ UNCHANGED <<daemonVars, ui, keys, failures>>
    /\ acked' = {}

Answered(c, answer) == calls' = (calls \ {c}) \cup {[c EXCEPT !.answer = answer]}

(* The daemon answers a call: with a page, with the message it was asked    *)
(* for, with the one it made of what was sent, or with nothing but an       *)
(* announcement.                                                            *)
Answer(c) ==
    /\ c.answer = None /\ c.mode # "history"
    /\ \/ /\ c.mode \in {"open", "older", "reset"}
          /\ Answered(c, ListMessagesBefore(c.room, c.before, c.limit))
          /\ UNCHANGED daemonVars
       \/ c.mode = "one" /\ Answered(c, c.about) /\ UNCHANGED daemonVars
       \/ /\ c.mode = "send" /\ last[c.room] < MaxNumber
          /\ last' = [last EXCEPT ![c.room] = @ + 1]
          /\ ours' = ours \cup {Message(c.room, last'[c.room])}
          /\ stream' = Append(stream, Event("message.upsert", Message(c.room, last'[c.room])))
          /\ Answered(c, Message(c.room, last'[c.room]))
          /\ UNCHANGED first
       \/ /\ c.mode = "edit"
          /\ stream' = Append(stream, Event("message.edited", c.about))
          /\ calls' = calls \ {c}
          /\ UNCHANGED <<first, last, ours>>
    /\ UNCHANGED <<ui, keys, failures>>
    /\ acked' = {}

(* A call fails: the interface shows the failure and changes nothing else.  *)
Fail(c) ==
    /\ c.answer = None /\ c.mode # "history" /\ keys + failures < MaxActs
    /\ failures' = failures + 1
    /\ calls' = calls \ {c}
    /\ UNCHANGED <<daemonVars, ui, keys>> /\ acked' = {}

(* Mutant: our own messages are told to be read too.                        *)
OthersAndOurs(ms) == ms

Others(ms) == {m \in ms : m \notin ours}

(* The interface takes an answer. Once the first page of a conversation is  *)
(* in, the others in it are told that it was read (acknowledgeOpen).        *)
Take(c) ==
    /\ c.answer # None
    /\ Handle(IF c.mode \in {"open", "older", "reset"} THEN TakePage(ui, c) ELSE TakeOne(ui, c),
              calls \ {c})
    /\ acked' =
          (IF c.mode = "open" /\ Current(ui, c) THEN Others(ToSet(ui'.shown)) ELSE {})
    /\ UNCHANGED <<daemonVars, keys, failures>>

(* The interface takes an announcement; a message that arrives in the open  *)
(* conversation is told to be read (acknowledgeIncoming).                   *)
NextEvent ==
    LET e == Head(stream)
    IN  /\ stream # <<>>
        /\ stream' = Tail(stream)
        /\ Handle(Announcement(ui, e), calls)
        /\ acked' =
              (IF e.event = "message.upsert" /\ e.message.room = ui.open
               THEN Others({e.message}) ELSE {})
        /\ UNCHANGED <<first, last, ours, keys, failures>>

(* ------------------------------- the reader ------------------------------ *)
Open(r) ==
    /\ ui.generation < MaxOpens
    /\ Handle(OpenChat(ui, r), calls)
    /\ UNCHANGED <<daemonVars, keys, failures>> /\ acked' = {}

(* The open conversation was deleted here (closeOpenMsg).                   *)
CloseOpen ==
    /\ ui.open # None
    /\ Handle(Does([ui EXCEPT !.open = None, !.shown = <<>>, !.cursor = 0], {}), calls)
    /\ UNCHANGED <<daemonVars, keys, failures>> /\ acked' = {}

Up ==
    /\ ui.open \in Busy
    /\ Handle(IF ui.cursor > 0 THEN Does([ui EXCEPT !.cursor = @ - 1], {}) ELSE LoadOlder(ui), calls)
    /\ UNCHANGED <<daemonVars, keys, failures>> /\ acked' = {}

Down ==
    /\ ui.cursor < Len(ui.shown) - 1
    /\ Handle(Does([ui EXCEPT !.cursor = @ + 1], {}), calls)
    /\ UNCHANGED <<daemonVars, keys, failures>> /\ acked' = {}

Pressed ==
    /\ ui.open \in Busy /\ ui.generation < MaxOpens
    /\ keys + failures < MaxActs /\ keys' = keys + 1

Refresh ==
    /\ Pressed /\ Handle(Does(ui, RefreshOpen(ui)), calls)
    /\ UNCHANGED <<daemonVars, failures>> /\ acked' = {}

(* The first message of a day was found in the open conversation.           *)
GoBackTo(m) ==
    /\ m.room = ui.open /\ m.n \in first[m.room] .. last[m.room]
    /\ Pressed /\ Handle(Seek(ui, m), calls)
    /\ UNCHANGED <<daemonVars, failures>> /\ acked' = {}

ReplyToSelected ==
    /\ SelectedMessage(ui) # None /\ Pressed
    /\ Handle(Does([ui EXCEPT !.replyTo = SelectedMessage(ui), !.editing = None], {}), calls)
    /\ UNCHANGED <<daemonVars, failures>> /\ acked' = {}

EditSelected ==
    /\ SelectedMessage(ui) \in ours /\ Pressed
    /\ Handle(Does([ui EXCEPT !.editing = SelectedMessage(ui), !.replyTo = None], {}), calls)
    /\ UNCHANGED <<daemonVars, failures>> /\ acked' = {}

(* Enter in the message box: a change of a message, or a new one.           *)
Send ==
    LET about == IF ui.editing # None THEN ui.editing ELSE ui.replyTo
        mode  == IF ui.editing # None THEN "edit" ELSE "send"
    IN  /\ ui.open # None /\ Pressed
        /\ Handle(Does([ui EXCEPT !.editing = None, !.replyTo = None],
                       {Call(ui, mode, 0, 0, about)}), calls)
        /\ UNCHANGED <<daemonVars, failures>> /\ acked' = {}

Next ==
    \/ \E r \in Rooms : Arrive(r) \/ Open(r)
    \/ \E c \in calls : Collect(c) \/ GoUnanswered(c) \/ Answer(c) \/ Fail(c) \/ Take(c)
    \/ NextEvent \/ CloseOpen \/ Up \/ Down \/ Refresh
    \/ \E m \in Messages : GoBackTo(m)
    \/ ReplyToSelected \/ EditSelected \/ Send

(* A call is answered or fails and its answer is taken; announcements are   *)
(* read. What the reader, the account and the senders do is not promised.   *)
Fairness ==
    /\ WF_terminalVars(\E c \in calls : Answer(c) \/ Fail(c))
    /\ WF_terminalVars(\E c \in calls : Take(c))
    /\ WF_terminalVars(NextEvent)

Spec == Init /\ [][Next]_terminalVars /\ Fairness

(* ------------------------------- properties ------------------------------ *)
(* The variables stay in their types.                                       *)
TypeOK ==
    /\ first \in [Rooms -> 1 .. MaxNumber] /\ last \in [Rooms -> 1 .. MaxNumber]
    /\ ours \subseteq Messages /\ acked \subseteq Messages
    /\ ui \in Interface
    /\ keys \in 0 .. MaxActs /\ failures \in 0 .. MaxActs

(* What is on screen belongs to the conversation that is open, whatever     *)
(* answers come after the reader moved on (generation, app.page).           *)
OnlyTheOpenChatIsShown == \A i \in DOMAIN ui.shown : ui.shown[i].room = ui.open

(* No message is on screen twice, though a page can overlap the one above   *)
(* it when the conversation was read again meanwhile (prepend).             *)
NoneShownTwice ==
    \A i, j \in DOMAIN ui.shown : ui.shown[i] = ui.shown[j] => i = j

(* What the box answers or changes is a message of the open conversation,   *)
(* to which it will be sent (openChat drops a half-written answer).         *)
AnswersStayInTheirChat == 
    ui.open # None => \A m \in {ui.replyTo, ui.editing} \ {None} : m.room = ui.open

(* An older page that comes in above leaves the cursor on the message it    *)
(* was on, unless a search moves it (app.page).                             *)
CursorStaysOnItsMessage ==
    [][\A c \in calls :
          (Take(c) /\ c.mode = "older" /\ ui.shown # <<>> /\ ui.seeking = None)
             => SelectedMessage(ui') = SelectedMessage(ui)]_terminalVars

(* A receipt is sent only for what is on screen at that moment, and never   *)
(* for what was written here (acknowledgeOpen, acknowledgeIncoming).        *)
ReceiptsFollowTheScreen ==
    [][acked' \subseteq ToSet(ui'.shown) \ ours]_terminalVars

(* Reading back ends, by scrolling or in search of a day: the pages come,   *)
(* a call failed, or the reader left the conversation (loadOlder, seek).    *)
ReadingBackEnds ==
    \A g \in 1 .. MaxOpens :
       (ui.loadingOlder /\ ui.generation = g)
          ~> \/ ~ui.loadingOlder /\ ui.seeking = None
             \/ ui.generation # g \/ ui.open = None \/ failures > 0

(* Reading the conversation again keeps the reader's place: whoever was not *)
(* at the newest message is not moved (pageReset, refreshOpen). The code    *)
(* puts the cursor on the newest message.                                   *)
ReaderKeepsPlace ==
    [][\A c \in calls :
          (Take(c) /\ c.mode = "reset" /\ Current(ui, c) /\ ui.cursor < Newest(ui)
             /\ SelectedMessage(ui) \in ToSet(c.answer.messages) /\ ui.seeking = None)
          => SelectedMessage(ui') = SelectedMessage(ui)]_terminalVars

(* The screen shows the conversation that is open, each message once; its   *)
(* box, cursor and receipts keep to what is shown; and reading back ends.   *)
ScreenFollowsTheReader ==
    /\ []OnlyTheOpenChatIsShown /\ []NoneShownTwice /\ []AnswersStayInTheirChat
    /\ CursorStaysOnItsMessage /\ ReceiptsFollowTheScreen /\ ReadingBackEnds

=============================================================================
