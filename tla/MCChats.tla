------------------------------ MODULE MCChats -------------------------------
(* What is stored about conversations and messages beside the messages: the *)
(* unread badge, the settings of the account, votes and reactions, what a   *)
(* group holds; and the calls of the clients that change any of it. A       *)
(* behaviour looks at one of the five.                                      *)
EXTENDS GroupEdits, TLC

CONSTANTS Last, SentAt, Silent, MaxSnapshots, MaxReads,
          Chats, MaxChanges, MaxLists, MaxSaid, MaxDrops, Callers, MaxCalls

VARIABLES
    looking,  \* at what this behaviour looks
    sent, readTo, reads, arriving, receipts, marks, held, seen, unread, lastAt, pending, sync,
    snapshots, covered, paged, snapped,
    subject, log, handled, now, rows, linked, hint, favorites, labels, calls, outdone,
    addon, said, removals, sender, row, drops, votes, reaction, info, shown, came, readable,
    takenBack, replayed,
    method, path, at, answer, begun, agreed, accepted, stored, snapshot, told, screen, reread,
    unannounced, overlapped, latest

Unread == INSTANCE ChatUnread
Flags  == INSTANCE ChatSettings
Addons == INSTANCE MessageAddons
Calls  == INSTANCE ServiceCalls

ASSUME ConstantsAssumption ==
    /\ Unread!UnreadAssumption /\ Flags!SettingsAssumption
    /\ Addons!AddonsAssumption /\ Calls!CallsAssumption /\ EditsAssumption

unreadVars ==
    <<sent, readTo, reads, arriving, receipts, marks, held, seen, unread, lastAt, pending, sync,
      snapshots, covered, paged, snapped>>
flagsVars  == <<subject, log, handled, now, rows, linked, hint, favorites, labels, calls, outdone>>
addonsVars ==
    <<addon, said, removals, sender, row, drops, votes, reaction, info, shown, came, readable,
      takenBack, replayed>>
callsVars  ==
    <<method, path, at, answer, begun, agreed, accepted, stored, snapshot, told, screen, reread,
      unannounced, overlapped, latest>>

(* All messages but the first are of one second.                            *)
SharedSeconds == [m \in 1..Last |-> IF m = 1 THEN 1 ELSE 2]
Symmetry      == Permutations(Chats) \cup Permutations(Callers) \cup Permutations(Editors)

ChatsInit ==
    /\ looking \in {"unread", "settings", "addons", "calls", "groups"}
    /\ Init /\ Unread!Init /\ Flags!Init /\ Addons!Init /\ Calls!Init
    /\ looking # "settings" => subject = "pin"
    /\ looking # "addons" => addon = "votes"
    /\ looking # "calls" => method = "chat.pin"
    /\ looking # "groups" => field = "name"

ChatsNext ==
    /\ UNCHANGED looking
    /\ \/ looking = "unread" /\ Unread!Next /\ UNCHANGED <<flagsVars, addonsVars, callsVars, vars>>
       \/ looking = "settings" /\ Flags!Next
          /\ UNCHANGED <<unreadVars, addonsVars, callsVars, vars>>
       \/ looking = "addons" /\ Addons!Next /\ UNCHANGED <<unreadVars, flagsVars, callsVars, vars>>
       \/ looking = "calls" /\ Calls!Next /\ UNCHANGED <<unreadVars, flagsVars, addonsVars, vars>>
       \/ looking = "groups" /\ Next
          /\ UNCHANGED <<unreadVars, flagsVars, addonsVars, callsVars>>

ChatsSpec ==
    ChatsInit /\ [][ChatsNext]_<<looking, unreadVars, flagsVars, addonsVars, callsVars, vars>>

(* The variables of the five parts stay in their types.                     *)
ChatsTypeOK ==
    /\ TypeOK /\ Unread!TypeOK /\ Flags!TypeOK /\ Addons!TypeOK
    /\ looking = "calls" => Calls!TypeOK

(* The badge, the settings, votes and reactions, and the calls of the       *)
(* clients (no call is made while a behaviour looks elsewhere). What a group*)
(* holds is GroupEdits, which this module extends.                          *)
BadgeIsHonest         == Unread!BadgeIsHonest
SettingsConverge      == Flags!SettingsConverge
LatestIsShown         == Addons!LatestIsShown
NothingRefusedIsShown == looking = "calls" => Calls!NothingRefusedIsShown
SettledCallsAgree     == looking = "calls" => Calls!SettledCallsAgree
ChangesAreTold        == looking = "calls" => Calls!ChangesAreTold

=============================================================================
