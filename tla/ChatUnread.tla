----------------------------- MODULE ChatUnread -----------------------------
(* The unread badge of one conversation: chats.unread_count and the status  *)
(* of the incoming messages, with everything that writes them. Messages and *)
(* receipts arrive live, a history sync stores a snapshot of the phone in   *)
(* several transactions on a goroutine of its own, and the reader marks the *)
(* conversation read or unread here.                                        *)
(*                                                                          *)
(* The account reads on several devices. What it has read is known to the   *)
(* phone; this device learns of it by receipts and by snapshots.            *)
EXTENDS Integers, FiniteSets, FiniteSetsExt

CONSTANTS
    Last,          \* the incoming messages are 1 .. Last, in sending order
    SentAt,        \* the time WhatsApp gives to each of them, to the second
    Silent,        \* messages of kind system or unknown, never counted
    MaxSnapshots,  \* how many history syncs the phone sends
    MaxReads,      \* how often the account reads or marks, here or elsewhere
    None           \* nothing held

Incoming == 1 .. Last

(* A conversation of a history sync: what it carries, how far it is stored. *)
Sync == [at : {"chat", "messages", "boundary", "marked", "recount"},
         settings : BOOLEAN, marked : BOOLEAN, taken : BOOLEAN, msgs : SUBSET Incoming,
         boundary : Nat, through : Nat, unread : 0 .. Last]

UnreadAssumption ==
    /\ Last \in Nat \ {0}
    /\ SentAt \in [Incoming -> Nat \ {0}]
    /\ \A m, n \in Incoming : m < n => SentAt[m] <= SentAt[n]
    /\ Silent \subseteq Incoming
    /\ MaxSnapshots \in Nat /\ MaxReads \in Nat
    /\ None \notin Sync

VARIABLES
    sent,      \* how many messages the others have sent
    readTo,    \* the account has read messages 1 .. readTo
    reads,     \* how often it read
    arriving,  \* live messages not handled yet, in no order: some are sent again
    receipts,  \* receipts of the account's other devices, not handled yet
    marks,     \* calls that marked the conversation here, not stored yet
    held,      \* rows of messages
    seen,      \* rows whose status is read or played
    unread,    \* chats.unread_count
    lastAt,    \* chats.last_message_at, 0 for no message
    pending,   \* the receipt in hand
    sync,      \* the history sync in hand
    snapshots, \* how many syncs arrived
    covered,   \* history: sent when a read action was last stored here
    paged,     \* history: rows of a sync whose count was not taken
    snapped    \* history: how many messages were sent when the phone took a snapshot

account == <<sent, readTo, reads>>
chat    == <<unread, lastAt>>
vars    == <<account, arriving, receipts, marks, held, seen, chat, pending,
             sync, snapshots, covered, paged, snapped>>

Init ==
    /\ sent = 0 /\ readTo = 0 /\ reads = 0
    /\ arriving = {} /\ receipts = {} /\ marks = {}
    /\ held = {} /\ seen = {} /\ unread = 0 /\ lastAt = 0 /\ pending = None
    /\ sync = None /\ snapshots = 0 /\ covered = 0 /\ paged = {} /\ snapped = {}

Counted(M) == M \ Silent
Times(M)   == {SentAt[m] : m \in M}
NewestOf(M) == IF M = {} THEN 0 ELSE Max(Times(M))

(* The rows newer than the newest read one.                                 *)
Newer(rows, read) == {m \in Counted(rows) : SentAt[m] > NewestOf(read)}

(* The count every writer computes from the rows, once one of them is read. *)
Recount == unread' = IF seen = {} THEN unread ELSE Cardinality(Newer(held, seen))

Receipt == [type : {"read", "read-self"}, ids : SUBSET Incoming]

(* Everything up to a time becomes read; the badge then follows the rows.   *)
MarkChatReadThrough(through) ==
    /\ seen' = seen \cup {m \in held : SentAt[m] <= through}
    /\ unread' = IF seen' # {} THEN Cardinality(Newer(held, seen'))
                 ELSE IF lastAt <= through THEN 0 ELSE unread
    /\ UNCHANGED lastAt

(* MarkChatRead takes the clock of this device, which no stored row is past.*)
MarkChatRead ==
    /\ MarkChatReadThrough(Max({lastAt} \cup Times(Incoming)))
    /\ covered' = sent
MarkChatUnread == unread' = Max({unread, 1}) /\ UNCHANGED <<seen, lastAt, covered>>

-----------------------------------------------------------------------------
(* The account elsewhere. *)

Say ==
    /\ sent < Last
    /\ sent' = sent + 1 /\ arriving' = arriving \cup {sent'}
    /\ UNCHANGED <<readTo, reads, receipts, marks, held, seen, chat, pending,
                   sync, snapshots, covered, paged, snapped>>

(* The phone reads all there is. Its receipt names the messages; it is of   *)
(* type read-self when the account sends no read receipts.                  *)
ReadElsewhere ==
    /\ reads < MaxReads /\ readTo < sent
    /\ readTo' = sent /\ reads' = reads + 1
    /\ \E type \in {"read", "read-self"} :
           receipts' = receipts \cup {[type |-> type, ids |-> readTo + 1 .. sent]}
    /\ UNCHANGED <<sent, arriving, marks, held, seen, chat, pending, sync, snapshots, covered,
                   paged, snapped>>

(* The phone assembles a conversation: how many messages are unread, the    *)
(* time of the last, and some of the messages. An on-demand page carries    *)
(* messages alone.                                                          *)
HistoryArrives ==
    /\ sync = None /\ snapshots < MaxSnapshots /\ sent > 0
    /\ \E settings, marked \in BOOLEAN, msgs \in SUBSET (1 .. sent) :
           /\ marked => settings /\ readTo = sent
           /\ sync' = [at |-> "chat", settings |-> settings, marked |-> marked, taken |-> FALSE,
                       msgs |-> msgs, boundary |-> 0, through |-> SentAt[sent],
                       unread |-> Cardinality(Counted(readTo + 1 .. sent))]
    /\ snapshots' = snapshots + 1
    /\ snapped' = IF sync'.settings THEN snapped \cup {sent} ELSE snapped
    /\ UNCHANGED <<account, arriving, receipts, marks, held, seen, chat, pending,
                   covered, paged>>

-----------------------------------------------------------------------------
(* Live events. *)

(* handleMessage stores the row and counts it unless it was there.          *)
HandleMessage ==
    \E m \in arriving :
        /\ arriving' = arriving \ {m}
        /\ held' = held \cup {m}
        /\ unread' = unread + (IF m \in held THEN 0 ELSE 1)
        /\ lastAt' = Max({lastAt, SentAt[m]})
        /\ UNCHANGED <<account, receipts, marks, seen, pending, sync, snapshots, covered, paged,
                       snapped>>

(* Mutant: the receipt is also recorded for rows that are not there.        *)
UpdateReceiptAnyRow ==
    /\ pending = None
    /\ \E r \in receipts :
        /\ seen' = seen \cup r.ids
        /\ pending' = r /\ receipts' = receipts \ {r}
    /\ UNCHANGED <<account, arriving, marks, held, chat, sync, snapshots, covered, paged, snapped>>

(* handleReceipt stores the status of the rows there are, recounts the      *)
(* badge, and for a read-self receipt marks the conversation read.          *)
UpdateReceipt ==
    /\ pending = None
    /\ \E r \in receipts :
        /\ seen' = seen \cup (r.ids \cap held)
        /\ pending' = r /\ receipts' = receipts \ {r}
    /\ UNCHANGED <<account, arriving, marks, held, chat, sync, snapshots, covered, paged, snapped>>

RecalculateChatUnread ==
    /\ pending # None /\ pending.ids # {}
    /\ Recount
    /\ pending' = IF pending.type = "read-self" THEN [pending EXCEPT !.ids = {}] ELSE None
    /\ UNCHANGED <<account, arriving, receipts, marks, held, seen, lastAt, sync,
                   snapshots, covered, paged, snapped>>

ReadSelf ==
    /\ pending # None /\ pending.ids = {}
    /\ MarkChatRead /\ pending' = None
    /\ UNCHANGED <<account, arriving, receipts, marks, held, sync, snapshots, paged, snapped>>

-----------------------------------------------------------------------------
(* Calls of the reader here. The change goes to the account first.          *)

ReadHere ==
    /\ reads < MaxReads
    /\ readTo' = Max({readTo} \cup held) /\ reads' = reads + 1
    /\ marks' = marks \cup {"read"}
    /\ UNCHANGED <<sent, arriving, receipts, held, seen, chat, pending, sync, snapshots, covered,
                   paged, snapped>>

UnreadHere ==
    /\ reads < MaxReads
    /\ reads' = reads + 1 /\ marks' = marks \cup {"unread"}
    /\ UNCHANGED <<sent, readTo, arriving, receipts, held, seen, chat, pending, sync, snapshots,
                   covered, paged, snapped>>

StoreMark ==
    \E mark \in marks :
        /\ marks' = marks \ {mark}
        /\ IF mark = "read" THEN MarkChatRead ELSE MarkChatUnread
        /\ UNCHANGED <<account, arriving, receipts, held, pending, sync, snapshots, paged, snapped>>

-----------------------------------------------------------------------------
(* The history sync, one transaction at a time.                             *)

Syncing(phase) == sync # None /\ sync.at = phase
GoTo(phase)    == sync' = [sync EXCEPT !.at = phase]
Elsewhere      == UNCHANGED <<account, arriving, receipts, marks, pending, snapshots, covered, snapped>>

(* Mutant: an older snapshot replaces the badge too.                        *)
StoreAnyChat ==
    /\ Syncing("chat")
    /\ unread' = IF sync.settings THEN sync.unread ELSE unread
    /\ sync' = [sync EXCEPT !.at = "messages", !.taken = sync.settings]
    /\ lastAt' = Max({lastAt, sync.through})
    /\ UNCHANGED <<held, seen, paged>> /\ Elsewhere

(* A snapshot that covers the newest stored activity replaces the badge.    *)
StoreChat ==
    /\ Syncing("chat")
    /\ LET taken == sync.settings /\ sync.through >= lastAt
       IN  /\ unread' = IF taken THEN sync.unread ELSE unread
           /\ sync' = [sync EXCEPT !.at = "messages", !.taken = taken]
    /\ lastAt' = Max({lastAt, sync.through})
    /\ UNCHANGED <<held, seen, paged>> /\ Elsewhere

(* Mutant: the copy, which has no status, replaces the stored one.          *)
StoreHistoryCopy ==
    /\ Syncing("messages")
    /\ \E m \in sync.msgs :
        /\ sync' = [sync EXCEPT !.msgs = @ \ {m}]
        /\ held' = held \cup {m} /\ seen' = seen \ {m}
        /\ lastAt' = Max({lastAt, SentAt[m]})
        /\ paged' = IF sync.taken THEN paged ELSE paged \cup ({m} \ held)
    /\ UNCHANGED unread /\ Elsewhere

(* A stored row keeps its status, whatever the copy says.                   *)
StoreHistoryMessage ==
    /\ Syncing("messages")
    /\ \E m \in sync.msgs :
        /\ sync' = [sync EXCEPT !.msgs = @ \ {m}]
        /\ held' = held \cup {m}
        /\ lastAt' = Max({lastAt, SentAt[m]})
        /\ paged' = IF sync.taken THEN paged ELSE paged \cup ({m} \ held)
    /\ UNCHANGED <<seen, unread>> /\ Elsewhere

(* Mutant: rows that came after the snapshot are counted as its own.        *)
DescribedAll == Counted(held)

(* ApplyHistoryReadState looks up the message past the unread ones, ...     *)
Described == {m \in Counted(held) : SentAt[m] <= sync.through}
After(m)  == {n \in Described : SentAt[n] > SentAt[m] \/ (SentAt[n] = SentAt[m] /\ n > m)}
FindBoundary ==
    /\ Syncing("messages") /\ sync.msgs = {}
    /\ LET past == {m \in Described : Cardinality(After(m)) = sync.unread}
       IN  sync' = [sync EXCEPT
               !.boundary = IF sync.settings THEN NewestOf(past) ELSE 0,
               !.at = "boundary"]
    /\ UNCHANGED <<held, seen, chat, paged>> /\ Elsewhere

(* ... and marks the conversation read through it.                          *)
ApplyHistoryReadState ==
    /\ Syncing("boundary") /\ GoTo("marked")
    /\ IF sync.boundary > 0 THEN MarkChatReadThrough(sync.boundary)
       ELSE UNCHANGED <<seen, chat>>
    /\ UNCHANGED <<held, paged>> /\ Elsewhere

ApplyHistoryMark ==
    /\ Syncing("marked") /\ GoTo("recount")
    /\ unread' = IF sync.marked THEN Max({unread, 1}) ELSE unread
    /\ UNCHANGED <<held, seen, lastAt, paged>> /\ Elsewhere

RecalculateUnreadCounts ==
    /\ Syncing("recount") /\ sync' = None
    /\ Recount
    /\ UNCHANGED <<held, seen, lastAt, paged>> /\ Elsewhere

HandleHistorySync ==
    \/ StoreChat \/ StoreHistoryMessage \/ FindBoundary
    \/ ApplyHistoryReadState \/ ApplyHistoryMark \/ RecalculateUnreadCounts

Next ==
    \/ Say \/ ReadElsewhere \/ HistoryArrives
    \/ HandleMessage \/ UpdateReceipt \/ RecalculateChatUnread \/ ReadSelf
    \/ ReadHere \/ UnreadHere \/ StoreMark
    \/ HandleHistorySync

Spec == Init /\ [][Next]_vars

-----------------------------------------------------------------------------
TypeOK ==
    /\ sent \in 0 .. Last /\ readTo \in 0 .. sent /\ reads \in 0 .. MaxReads
    /\ arriving \subseteq Incoming /\ held \subseteq 1 .. sent
    /\ seen \subseteq held /\ covered \in 0 .. sent /\ paged \subseteq held
    /\ receipts \subseteq Receipt /\ pending \in Receipt \cup {None}
    /\ marks \subseteq {"read", "unread"}
    /\ unread \in Nat /\ lastAt \in 0 .. SentAt[Last]
    /\ snapshots \in 0 .. MaxSnapshots /\ snapped \subseteq 1 .. sent
    /\ sync \in Sync \cup {None}
    /\ sync # None => sync.msgs \subseteq 1 .. sent

(* The snapshots taken in the middle of a second: more messages of that     *)
(* second were sent after the phone assembled them. Times are to the second,*)
(* so the message such a snapshot ends with does not tell them apart.       *)
Torn == {s \in snapped : s < sent /\ SentAt[s + 1] = SentAt[s]}

(* A message becomes read only when the account has read one of its second  *)
(* or of a later one, or when a read action was stored here after such a    *)
(* one was sent. A snapshot tells how many messages are unread and not      *)
(* which, and this device may hold fewer of them, more of them or others:   *)
(* the boundary it derives never reaches past the second of what the        *)
(* account has read. Only a torn snapshot may read further, through its own *)
(* second: the messages it did not count push the boundary there.           *)
HistoryNeverReadsAhead ==
    \A m \in seen : \E r \in (1 .. Max({readTo, covered})) \cup Torn : SentAt[m] <= SentAt[r]

(* With no history sync in hand, the badge counts every message the reader  *)
(* cannot have seen: one that no device has read and that is of a later     *)
(* second than all the rows marked read, however snapshots, receipts and    *)
(* arrivals interleave. Left out are a message that history brings before   *)
(* its live event, with no count that is taken (nobody counts it), and the  *)
(* messages of the second of a torn snapshot (its count replaces theirs).   *)
NothingUnreadIsHidden ==
    sync = None =>
        unread >= Cardinality({m \in Newer(held, seen) \ paged :
                                   m > Max({readTo, covered}) /\ SentAt[m] \notin Times(Torn)})

(* Read is final: no copy of a message, live or of history, makes it unread *)
(* again; and a badge never falls while a message is stored.                *)
ReadStays ==
    [][/\ seen \subseteq seen'
       /\ held # held' => unread' >= unread]_vars

(* The badge of a conversation is honest: history does not read ahead of    *)
(* the account, nothing unread is hidden, and what was read stays read.     *)
BadgeIsHonest == []HistoryNeverReadsAhead /\ []NothingUnreadIsHidden /\ ReadStays

=============================================================================
