---------------------------- MODULE ChatSettings ----------------------------
(* What the account decides about its conversations, and this device's copy *)
(* of it: the pin of one conversation, the favourite conversations and the  *)
(* chat lists. A change made on another device comes as an event. A change  *)
(* made here is read, sent to the account and stored, three steps of a call *)
(* between which other calls and events are handled, and each of which may  *)
(* fail: a change the account accepted may have no answer, or no room in the*)
(* database. Every change the account accepts comes back as an event, those *)
(* made here too. History carries pins as hints, and the conversation has   *)
(* two addresses until it is known that they are one.                       *)
EXTENDS Integers, Sequences, FiniteSets, FiniteSetsExt

CONSTANTS
    Chats,       \* conversations, for the favourites
    Callers,     \* calls that may be open at once
    MaxChanges,  \* how many changes the account sees
    MaxLists,    \* how many chat lists it ever has
    None         \* no row, no call, nothing in hand

ListIds == 1 .. MaxLists

SettingsAssumption ==
    /\ IsFiniteSet(Chats) /\ MaxChanges \in Nat /\ MaxLists \in Nat
    /\ None \notin [pinned : BOOLEAN, action : Nat]

VARIABLES
    subject,   \* the setting this behaviour looks at: they share no column
    log,       \* the changes the account accepted, in order, with their time
    handled,   \* how many of them this device has handled
    now,       \* the clock
    rows,      \* chats, by address: pinned, and the time of the pin action
    linked,    \* the two addresses are known to be one
    hint,      \* the pin a history sync in hand carries
    favorites, \* chats.favorite
    labels,    \* the table labels
    calls,     \* the calls in hand
    outdone    \* history: accepted changes that a call here stored an older one over

copy == <<rows, linked, hint, favorites, labels>>
vars == <<subject, log, handled, now, copy, calls, outdone>>

Addresses == {"canonical", "alias"}
Settings  == {"pin", "favorites", "list"}

Init ==
    /\ subject \in Settings
    /\ log = <<>> /\ handled = 0 /\ now = 1
    /\ rows = [a \in Addresses |-> None] /\ linked = FALSE /\ hint = None
    /\ favorites = {} /\ labels = [i \in ListIds |-> "absent"]
    /\ calls = [c \in Callers |-> None] /\ outdone = {}

Row(pinned, action) == [pinned |-> pinned, action |-> action]

(* Once linked, every address leads to the canonical row.                   *)
At(address) == IF linked THEN "canonical" ELSE address

(* An action older than the row's is not taken.                             *)
UpdateChatPinnedAt(address, pinned, at) ==
    rows' = [rows EXCEPT ![At(address)] =
        IF @ = None \/ at >= @.action THEN Row(pinned, at) ELSE @]

(* Mutant: a favourite that went stays.                                     *)
AddChatFavorites(jids) == favorites' = favorites \cup jids
UpdateChatFavorites(jids) == favorites' = jids
(* Mutant: a deleted list is stored like a live one.                        *)
UpsertLiveLabel(id, deleted) == labels' = [labels EXCEPT ![id] = "live"]
UpsertLabel(id, deleted)  == labels' = [labels EXCEPT ![id] = IF deleted THEN "deleted" ELSE "live"]

(* Mutant: the number after the last list that is shown.                    *)
NextLiveLabelID == 1 + Max({0} \cup {i \in ListIds : labels[i] = "live"})
(* The next free number; a deleted list keeps its own.                      *)
NextLabelID == 1 + Max({0} \cup {i \in ListIds : labels[i] # "absent"})

Store(change, address, at) ==
    CASE change.setting = "pin" ->
           /\ UpdateChatPinnedAt(address, change.value, at)
           /\ UNCHANGED <<favorites, labels>>
      [] change.setting = "favorites" ->
           UpdateChatFavorites(change.value) /\ UNCHANGED <<rows, labels>>
      [] change.setting = "list" ->
           UpsertLabel(change.id, change.deleted) /\ UNCHANGED <<rows, favorites>>

-----------------------------------------------------------------------------
Pin(pinned)       == [setting |-> "pin", value |-> pinned]
Favorites(jids)   == [setting |-> "favorites", value |-> jids]
List(id, deleted) == [setting |-> "list", id |-> id, deleted |-> deleted]

Accept(change) ==
    /\ Len(log) < MaxChanges /\ UNCHANGED subject
    /\ log' = Append(log, [change |-> change, time |-> now]) /\ now' = now + 1

About(setting, n) == {i \in 1 .. n : log[i].change.setting = setting}
ListsOf(n) == {log[i].change.id : i \in About("list", n)}
Latest(of, none) ==
    IF About(of, Len(log)) = {} THEN none ELSE log[Max(About(of, Len(log)))].change.value

MakeElsewhere(change) ==
    /\ change.setting = subject /\ Accept(change)
    /\ UNCHANGED <<handled, copy, calls, outdone>>

(* Another device pins or unpins, adds or removes one favourite, makes or   *)
(* deletes a list.                                                          *)
ChangeElsewhere ==
    \/ \E pinned \in BOOLEAN : MakeElsewhere(Pin(pinned))
    \/ \E j \in Chats, jids \in {Latest("favorites", {})} :
           MakeElsewhere(Favorites(jids \cup {j})) \/ MakeElsewhere(Favorites(jids \ {j}))
    \/ \E i \in ListsOf(Len(log)) : MakeElsewhere(List(i, TRUE))
    \/ \E i \in {1 + Cardinality(ListsOf(Len(log)))} \cap ListIds : MakeElsewhere(List(i, FALSE))

(* The changes come in order; an event names either address.                *)
HandleChange ==
    /\ handled < Len(log)
    /\ handled' = handled + 1
    /\ \E address \in Addresses : Store(log[handled'].change, address, log[handled'].time)
    /\ UNCHANGED <<subject, log, now, linked, hint, calls, outdone>>

-----------------------------------------------------------------------------
(* Calls. *)

(* The favourites here are as new as the last change handled and not stored *)
(* over.                                                                    *)
UpTo == IF subject = "favorites" THEN Max((0 .. handled) \ outdone) ELSE 0

Begin(c, change) ==
    /\ calls[c] = None /\ change.setting = subject
    /\ calls' = [calls EXCEPT ![c] = [change |-> change, step |-> "send", place |-> 0,
                                      upTo |-> UpTo, known |-> ListsOf(handled)]]
    /\ UNCHANGED <<subject, log, handled, now, copy, outdone>>

SetChatPinned(c) == \E pinned \in BOOLEAN : Begin(c, Pin(pinned))

(* Mutant: only the conversation that changes travels.                      *)
SetOneFavorite(c) ==
    \E j \in Chats, favorite \in BOOLEAN : Begin(c, Favorites(IF favorite THEN {j} ELSE {}))

(* The whole list travels: it is read here, edited and sent complete.       *)
SetChatFavorite(c) ==
    \E j \in Chats, favorite \in BOOLEAN :
        Begin(c, Favorites(IF favorite THEN favorites \cup {j} ELSE favorites \ {j}))

CreateLabel(c) ==
    /\ NextLabelID \in ListIds
    /\ Begin(c, List(NextLabelID, FALSE))

Waits(c, step) == calls[c] # None /\ calls[c].step = step
End(c)         == calls' = [calls EXCEPT ![c] = None]

Send(c) ==
    /\ Waits(c, "send") /\ Accept(calls[c].change)
    /\ calls' = [calls EXCEPT ![c].step = "store", ![c].place = Len(log')]
    /\ UNCHANGED <<handled, copy, outdone>>

(* An error ends the call and nothing is stored. It does not tell whether   *)
(* the account refused the change, or accepted it and the answer was lost.  *)
SendFails(c) ==
    /\ Waits(c, "send") /\ End(c)
    /\ Accept(calls[c].change) \/ UNCHANGED <<subject, log, now>>
    /\ UNCHANGED <<handled, copy, outdone>>

(* The changes a change stored now outdoes: later ones about the same thing.*)
(* The pin is stamped with the time of storing, so it outdoes those to come *)
(* that the account has already, too.                                       *)
SameThing(i, j) == subject = "list" => log[i].change.id = log[j].change.id
Outdoes(place)  ==
    {i \in (place + 1) .. (IF subject = "pin" THEN Len(log) ELSE handled) : SameThing(i, place)}

(* Stored under the time of storing, not of sending, whatever came since.   *)
StoreSent(c) ==
    /\ Waits(c, "store") /\ End(c)
    /\ \E address \in Addresses : Store(calls[c].change, address, now)
    /\ now' = now + 1
    /\ LET place == calls[c].place
       IN  outdone' = {i \in outdone : ~SameThing(i, place)} \cup Outdoes(place)
    /\ UNCHANGED <<subject, log, handled, linked, hint>>

(* The database refuses: the account has the change, and the call fails.    *)
StoreFails(c) ==
    /\ Waits(c, "store") /\ End(c)
    /\ UNCHANGED <<subject, log, handled, now, copy, outdone>>

-----------------------------------------------------------------------------
(* A history sync is assembled by the phone and stored later. Its pin only  *)
(* seeds a row that no action has reached.                                  *)
HistoryArrives ==
    /\ subject = "pin" /\ hint = None
    /\ hint' = [address |-> "canonical", pinned |-> Latest("pin", FALSE)]
        \/ hint' = [address |-> "alias", pinned |-> Latest("pin", FALSE)]
    /\ UNCHANGED <<subject, log, handled, now, rows, linked, favorites, labels, calls, outdone>>

ApplyChatSnapshot ==
    /\ hint # None /\ hint' = None
    /\ rows' = [rows EXCEPT ![At(hint.address)] =
           IF @ = None \/ @.action = 0 THEN Row(hint.pinned, 0) ELSE @]
    /\ UNCHANGED <<subject, log, handled, now, linked, favorites, labels, calls, outdone>>

(* Mutant: a pin on either side stands, whenever it was made.               *)
MergeEitherPin(c, a) == Row(c.pinned \/ a.pinned, Max({c.action, a.action}))

(* The alias row is merged and goes: the newer action stands; between two   *)
(* hints a pin stands.                                                      *)
mergeChatPinState(c, a) ==
    IF a.action > c.action THEN a
    ELSE IF c.action > 0 THEN c ELSE Row(c.pinned \/ a.pinned, 0)

LinkChatIDs ==
    /\ subject = "pin" /\ ~linked /\ linked' = TRUE
    /\ rows' = [canonical |-> IF rows["alias"] = None THEN rows["canonical"]
                              ELSE IF rows["canonical"] = None THEN rows["alias"]
                              ELSE mergeChatPinState(rows["canonical"], rows["alias"]),
                alias |-> None]
    /\ UNCHANGED <<subject, log, handled, now, hint, favorites, labels, calls, outdone>>

Call(c) ==
    \/ SetChatPinned(c) \/ SetChatFavorite(c) \/ CreateLabel(c)
    \/ Send(c) \/ SendFails(c) \/ StoreSent(c) \/ StoreFails(c)

Next ==
    \/ ChangeElsewhere \/ HandleChange
    \/ HistoryArrives \/ ApplyChatSnapshot \/ LinkChatIDs
    \/ \E c \in Callers : Call(c)

Spec == Init /\ [][Next]_vars

-----------------------------------------------------------------------------
TypeOK ==
    /\ handled \in 0 .. Len(log) /\ Len(log) <= MaxChanges
    /\ \A a \in Addresses : rows[a] # None => rows[a].action \in 0 .. now
    /\ linked => rows["alias"] = None
    /\ favorites \subseteq Chats
    /\ labels \in [ListIds -> {"absent", "live", "deleted"}]
    /\ outdone \subseteq 1 .. Len(log)

(* The device has handled every change. A change that a call stored an older*)
(* one over stays lost here until the next about the same thing: the call   *)
(* stores what it sent without looking at what came meanwhile.              *)
HasHandled(setting) == subject = setting /\ handled = Len(log)

(* Once this device has handled everything, it shows the pin the account    *)
(* has: whatever the order of the echo of its own change, of history and of *)
(* the linking of the two addresses, and whether or not the call that made  *)
(* the change had an answer and could store it. Only an own change stored   *)
(* after the account accepted another one stands in its place.              *)
PinConverges ==
    /\ HasHandled("pin") /\ linked
    /\ Len(log) \notin {0} \cup outdone
    => rows["canonical"] # None /\ rows["canonical"].pinned = Latest("pin", FALSE)

(* And the favourites and lists the account has, unless an own change was   *)
(* stored after a later one had been handled.                               *)
FavoritesConverge ==
    HasHandled("favorites") /\ Len(log) \notin outdone => favorites = Latest("favorites", {})
ListsConverge ==
    HasHandled("list") =>
        \A id \in ListsOf(Len(log)) :
            LET last == Max({i \in About("list", Len(log)) : log[i].change.id = id})
            IN  \/ last \in outdone
                \/ labels[id] = IF log[last].change.deleted THEN "deleted" ELSE "live"

Sends(c, setting) ==
    /\ calls[c] # None /\ calls[c].change.setting = setting
    /\ calls'[c] # calls[c] /\ log' # log

FavoritesOf(n)  == IF n = 0 THEN {} ELSE log[n].change.value
Changed(j, from) ==
    \E n \in from + 1 .. Len(log) : (j \in FavoritesOf(n)) # (j \in FavoritesOf(from))

(* The whole list travels, so a favourite added or removed here may undo    *)
(* others: those changed since the newest change this device had when the   *)
(* call read the list, by another device, by a call of its own beside it or *)
(* by one that failed after the account had accepted. It undoes no other,   *)
(* however calls, echoes and failures interleave.                           *)
OtherFavoritesAreKept ==
    [][\A c \in Callers :
        Sends(c, "favorites") =>
            LET before == FavoritesOf(Len(log))  after == calls[c].change.value
            IN  Cardinality({j \in (before \ after) \cup (after \ before) :
                                ~Changed(j, calls[c].upTo)}) <= 1]_vars

(* A list made here never takes the number of a list this device has heard  *)
(* of, deleted ones included. A list it made itself, whose answer was lost  *)
(* or which it could not store, it hears of with the echo: until then the   *)
(* number is taken again, and the account has one list for two.             *)
NewListsAreNew ==
    [][\A c \in Callers :
        Sends(c, "list") => calls[c].change.id \notin calls[c].known]_vars

(* What this device holds of the account's settings ends as the account has *)
(* them, and a change made here changes one thing.                          *)
SettingsConverge ==
    /\ []PinConverges /\ []FavoritesConverge /\ []ListsConverge
    /\ OtherFavoritesAreKept /\ NewListsAreNew

=============================================================================
