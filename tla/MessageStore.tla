---------------------------- MODULE MessageStore ----------------------------
(* One message in the index: its row in messages, its earlier versions in   *)
(* message_revisions and the address of its file in media_payloads, with    *)
(* everything that writes them: the handler of live events, the goroutine   *)
(* of a history sync, the RPC methods, receipts, downloads and the resolver *)
(* of link cards (internal/whatsapp, internal/service, internal/store).     *)
(*                                                                          *)
(* The store has one connection and each of its methods is one transaction, *)
(* so a step is one transaction. A writer that reads first and writes later *)
(* holds a copy, and every other writer may come in between.                *)
EXTENDS MessageMerge

CONSTANTS
    Messages,         \* the messages looked at
    Receipts,         \* the receipts that arrive
    Mixes,            \* what may happen, together, besides in-order live events
    MaxDisturbances,  \* how many such things happen
    NoRow             \* no such row, no copy held

(* Who wrote it, what it is, and whether it was sent to be viewed once.     *)
Message == [author: {"me", "them"}, content: {"text", "image"}, protected: BOOLEAN]

ASSUME MessageAssumption ==
    /\ MaxVersion \in Nat \ {0}
    /\ Messages \subseteq {m \in Message : m.protected => m.author = "them"}
    /\ Receipts \subseteq {"delivered", "read", "played"}
    /\ Mixes \subseteq SUBSET {"reorder", "history", "download", "preview",
                               "protect", "clear", "fault", "crash"}
    /\ MaxDisturbances \in Nat
    /\ NoRow \notin Row

VARIABLES
    about,      \* the message
    mix,        \* what may disturb its life
    said,       \* how many versions its author has written
    withdrawn,  \* its author deleted it for everyone
    live,       \* events the server has for this device, in order
    again,      \* events that could not be read and will be sent again
    row,        \* messages (survives a crash, as the next two)
    revisions,  \* message_revisions: the bodies, oldest first
    payload,    \* media_payloads holds the address of the file
    pc, copy,   \* the two handlers that store a copy, and the copy each holds
    fetching,   \* the copy a download holds
    resolving,  \* the body and the link a card is being resolved for
    outgoing,   \* versions the gateway sent for an RPC, not stored yet
    deleting,   \* the gateway deleted it for an RPC, not stored yet
    spent,      \* disturbances so far
    displayed,  \* history: the bodies the row has held since it was cleared
    revoked,    \* history: a revocation was handled since it was cleared
    cleared     \* history: nothing but this device wrote since it was cleared

given   == <<about, mix>>
wire    == <<given, said, withdrawn, live, again>>
tables  == <<row, revisions, payload>>
stores  == <<pc, copy>>
rpcs    == <<outgoing, deleting>>
history == <<displayed, revoked, cleared>>
vars    == <<wire, tables, stores, fetching, resolving, rpcs, spent, history>>

Handlers == {"live", "history"}
Event    == [type: {"say"}, version: Versions] \cup [type: {"revoke"}]
NoLink   == [body |-> NoText, card |-> NoCard]

Init ==
    /\ about \in Messages /\ mix \in Mixes
    /\ said = 0 /\ withdrawn = FALSE
    /\ live = <<>> /\ again = {}
    /\ row = NoRow /\ revisions = <<>> /\ payload = FALSE
    /\ pc = [h \in Handlers |-> "idle"] /\ copy = [h \in Handlers |-> NoRow]
    /\ fetching = NoRow /\ resolving = NoLink
    /\ outgoing = {} /\ deleting = FALSE
    /\ spent = 0
    /\ displayed = {} /\ revoked = FALSE /\ cleared = FALSE

Disturb(d) ==
    /\ d \in mix
    /\ spent < MaxDisturbances
    /\ spent' = spent + 1

Stored(r)  == r # NoRow
FromMe     == about.author = "me"
HasFile    == about.content = "image"

(* messageFromEvent: a correction is any version but the first; a text may  *)
(* bring a link card; a view-once envelope leaves a placeholder.            *)
MessageOf(v, marked, linked, status) ==
    LET m == [kind |-> about.content, body |-> v, edited |-> v > 1, revoked |-> FALSE,
              status |-> status, card |-> IF linked THEN v ELSE NoCard, media |-> FALSE]
    IN IF marked THEN Placeholder(m) ELSE m

FirstStatus == IF FromMe THEN "sent" ELSE "received"
Linked      == IF HasFile THEN {FALSE} ELSE BOOLEAN

(* The row after a transaction, and what history remembers of it.           *)
SetRow(r) ==
    /\ row' = r
    /\ displayed' = IF r = NoRow \/ r.body = NoText THEN displayed
                    ELSE displayed \cup {r.body}

(* redactViewOnceTx also forgets where a protected row's file is.           *)
RedactPayload == payload' = (payload /\ row'.kind # "view_once")

(* UpsertMessage.                                                           *)
Upsert(m) ==
    /\ SetRow(IF Stored(row) THEN Upserted(row, m) ELSE m)
    /\ RedactPayload

-----------------------------------------------------------------------------
(* The author, here or on another device, and the server between.           *)

Say ==
    /\ said < MaxVersion /\ ~withdrawn
    /\ said' = said + 1
    /\ live' = Append(live, [type |-> "say", version |-> said + 1])
    /\ UNCHANGED <<given, withdrawn, again, tables, stores, fetching, resolving,
                   rpcs, spent, history>>

Withdraw ==
    /\ said > 0 /\ ~withdrawn
    /\ withdrawn' = TRUE
    /\ live' = Append(live, [type |-> "revoke"])
    /\ UNCHANGED <<given, said, again, tables, stores, fetching, resolving, rpcs,
                   spent, history>>

(* UndecryptableMessage: the event is skipped and sent again later.         *)
Undecryptable ==
    /\ live # <<>> /\ pc["live"] = "idle"
    /\ Disturb("reorder")
    /\ again' = again \cup {Head(live)}
    /\ live' = Tail(live)
    /\ UNCHANGED <<given, said, withdrawn, tables, stores, fetching, resolving, rpcs,
                   history>>

-----------------------------------------------------------------------------
(* handleMessage and handleHistorySync store a copy in the same steps: look *)
(* at the row, record what a correction replaces, upsert, remember where    *)
(* the file is. The second runs beside the first, on a goroutine.           *)

(* Mutant: only the original is recorded.                                   *)
HoldFirstEdit(h, m) ==
    /\ pc' = [pc EXCEPT ![h] = IF Stored(row) /\ m.edited /\ ~row.edited
                               THEN "record" ELSE "upsert"]
    /\ copy' = [copy EXCEPT ![h] = IF Stored(row) /\ row.kind = "view_once"
                                   THEN Placeholder(m) ELSE m]

(* GetMessage, and what the handler decides by it.                          *)
Hold(h, m) ==
    LET replaces == Stored(row) /\ m.edited /\ row.body # NoText /\ row.body # m.body
    IN /\ pc' = [pc EXCEPT ![h] = IF replaces THEN "record" ELSE "upsert"]
       /\ copy' = [copy EXCEPT ![h] = IF Stored(row) /\ row.kind = "view_once"
                                      THEN Placeholder(m) ELSE m]

(* Mutant: the handler keeps the copy it has stored.                        *)
ReleaseKeepsCopy(h) == pc' = [pc EXCEPT ![h] = "idle"] /\ UNCHANGED copy

Release(h) ==
    /\ pc' = [pc EXCEPT ![h] = "idle"]
    /\ copy' = [copy EXCEPT ![h] = NoRow]

(* MarkRevoked: nothing happens to a message that is not there.             *)
MarkRevoked ==
    /\ revisions' = IF Stored(row) THEN Recorded(revisions, row) ELSE revisions
    /\ SetRow(IF Stored(row) THEN RevokedRow(row) ELSE NoRow)
    /\ revoked' = TRUE
    /\ UNCHANGED <<payload, cleared>>

(* The next event of the server, or one that is sent again.                 *)
Handle(event) ==
    /\ pc["live"] = "idle"
    /\ \/ /\ event.type = "say"
          /\ \E linked \in Linked :
                Hold("live", MessageOf(event.version, about.protected, linked, FirstStatus))
          /\ UNCHANGED <<tables, history>>
       \/ /\ event.type = "revoke"
          /\ MarkRevoked
          /\ UNCHANGED stores
    /\ UNCHANGED <<given, said, withdrawn, fetching, resolving, rpcs, spent>>

HandleNext  == live # <<>> /\ Handle(Head(live)) /\ live' = Tail(live) /\ UNCHANGED again
HandleAgain == \E e \in again : Handle(e) /\ again' = again \ {e} /\ UNCHANGED live

(* A page of history holds some version the author's phone had, protected   *)
(* or not, with the milestone that phone knew.                              *)
HistoryArrives ==
    /\ pc["history"] = "idle"
    /\ Disturb("history")
    /\ \E v \in 1..said, linked \in Linked,
          marked \in IF about.protected THEN BOOLEAN ELSE {FALSE},
          status \in {FirstStatus} \cup IF FromMe THEN Receipts ELSE {} :
          Hold("history", MessageOf(v, marked, linked, status))
    /\ UNCHANGED <<wire, tables, fetching, resolving, rpcs, history>>

(* RecordMessageRevision. The handlers drop its error.                      *)
Record(h) ==
    /\ pc[h] = "record"
    /\ \/ /\ revisions' = IF Stored(row) THEN Recorded(revisions, row) ELSE revisions
          /\ UNCHANGED spent
       \/ Disturb("fault") /\ UNCHANGED revisions
    /\ pc' = [pc EXCEPT ![h] = "upsert"]
    /\ UNCHANGED <<wire, row, payload, copy, fetching, resolving, rpcs, history>>

UpsertCopy(h) ==
    /\ pc[h] = "upsert"
    /\ Upsert(copy[h])
    /\ cleared' = FALSE
    /\ pc' = [pc EXCEPT ![h] = "payload"]
    /\ UNCHANGED <<wire, revisions, copy, fetching, resolving, rpcs, spent,
                   revoked>>

(* UpsertMessage fails, which ends the handling of this copy.               *)
UpsertFails(h) ==
    /\ pc[h] = "upsert"
    /\ Disturb("fault")
    /\ Release(h)
    /\ UNCHANGED <<wire, tables, fetching, resolving, rpcs, history>>

(* downloadableFromMessage: the original names its file; a correction comes *)
(* in an envelope that does not.                                            *)
NamesFile(m) == m.kind = "image" /\ ~m.edited

(* Mutant: no foreign key ties the payload to its row.                      *)
SaveLoosePayload(m) ==
    payload' = (payload \/ (NamesFile(m) /\ (Stored(row) => row.kind # "view_once")))

(* Mutant: the insert does not look at the row's kind.                      *)
SaveAnyPayload(m) == payload' = (payload \/ (NamesFile(m) /\ Stored(row)))

(* SaveMediaPayload, called for a copy that names a file; the statement     *)
(* refuses a protected row, and the foreign key a row that is gone.         *)
SaveMediaPayload(m) ==
    payload' = (payload \/ (NamesFile(m) /\ Stored(row) /\ row.kind # "view_once"))

(* rememberMediaPayload; the live handler may go on to cache the file.      *)
RememberPayload(h) ==
    /\ pc[h] = "payload"
    /\ SaveMediaPayload(copy[h])
    /\ Release(h)
    /\ \/ UNCHANGED <<fetching, spent>>
       \/ /\ h = "live" /\ NamesFile(copy[h]) /\ ~Stored(fetching)
          /\ Disturb("download")
          /\ fetching' = copy[h]
    /\ UNCHANGED <<wire, row, revisions, resolving, rpcs, history>>

(* A reply that carries a view-once quote of this message.                  *)
HandleProtectingReply ==
    /\ about.protected /\ Stored(row) /\ pc["live"] = "idle"
    /\ Disturb("protect")
    /\ SetRow(QuotedAsViewOnce(row))
    /\ RedactPayload
    /\ UNCHANGED <<wire, revisions, stores, fetching, resolving, rpcs, revoked, cleared>>

(* UpdateReceipt, for a receipt event or for message.played.                *)
Receipt ==
    /\ Stored(row)
    /\ \E s \in Receipts : SetRow(ReceiptRow(row, s))
    /\ UNCHANGED <<wire, revisions, payload, stores, fetching, resolving, rpcs, spent,
                   revoked, cleared>>

-----------------------------------------------------------------------------
(* The RPC methods: the gateway first, the store after.                     *)

(* message.send and message.edit: the gateway has sent a version.           *)
SendHere ==
    /\ FromMe /\ said < MaxVersion /\ ~withdrawn
    /\ said' = said + 1
    /\ outgoing' = outgoing \cup {said + 1}
    /\ UNCHANGED <<given, withdrawn, live, again, tables, stores, fetching, resolving,
                   deleting, spent, history>>

(* message.send stores what went out.                                       *)
StoreSent ==
    /\ 1 \in outgoing
    /\ outgoing' = outgoing \ {1}
    /\ \E linked \in Linked : Upsert(MessageOf(1, FALSE, linked, "sent"))
    /\ cleared' = FALSE
    /\ UNCHANGED <<wire, revisions, stores, fetching, resolving, deleting, spent,
                   revoked>>

(* EditMessage; its transaction fails when there is no live row.            *)
EditMessage ==
    /\ \E v \in outgoing \ {1} :
          /\ outgoing' = outgoing \ {v}
          /\ IF Stored(row) /\ ~row.revoked
             THEN /\ revisions' = Recorded(revisions, row)
                  /\ SetRow(EditedRow(row, v))
             ELSE UNCHANGED <<revisions, row, displayed>>
    /\ UNCHANGED <<wire, payload, stores, fetching, resolving, deleting, spent,
                   revoked, cleared>>

(* message.delete: for everyone, by the author or by who may.               *)
DeleteHere ==
    /\ said > 0 /\ ~withdrawn
    /\ withdrawn' = TRUE
    /\ deleting' = TRUE
    /\ UNCHANGED <<given, said, live, again, tables, stores, fetching, resolving,
                   outgoing, spent, history>>

StoreDeletion ==
    /\ deleting
    /\ deleting' = FALSE
    /\ MarkRevoked
    /\ UNCHANGED <<wire, stores, fetching, resolving, outgoing, spent>>

(* chat.clear: ClearChatMessages.                                           *)
ClearChat ==
    /\ Stored(row)
    /\ Disturb("clear")
    /\ row' = NoRow /\ revisions' = <<>> /\ payload' = FALSE
    /\ displayed' = {} /\ revoked' = FALSE /\ cleared' = TRUE
    /\ UNCHANGED <<wire, stores, fetching, resolving, rpcs>>

-----------------------------------------------------------------------------
(* Slow work that reads the row, goes to the network and writes back.       *)

(* fetchStoredMedia reads the message it fetches the file of.               *)
BeginDownload ==
    /\ Stored(row) /\ row.kind # "view_once" /\ HasFile
    /\ payload \/ row.media
    /\ ~Stored(fetching)
    /\ Disturb("download")
    /\ fetching' = row
    /\ UNCHANGED <<wire, tables, stores, resolving, rpcs, history>>

WithFile(m) == [kind |-> m.kind, body |-> m.body, edited |-> m.edited,
                revoked |-> m.revoked, status |-> m.status, card |-> m.card, media |-> TRUE]

(* downloadMedia, or the copy kept in media.db: the whole message is        *)
(* upserted, with the path of the file.                                     *)
FinishDownload ==
    /\ Stored(fetching)
    /\ Upsert(WithFile(fetching))
    /\ fetching' = NoRow
    /\ UNCHANGED <<wire, revisions, stores, resolving, rpcs, spent, revoked,
                   cleared>>

DownloadFails ==
    /\ Stored(fetching)
    /\ fetching' = NoRow
    /\ UNCHANGED <<wire, tables, stores, resolving, rpcs, spent, history>>

(* RefreshLinkPreview and the backfill of cards: the link of the card the   *)
(* row has, or else the one in its text.                                    *)
BeginResolve ==
    /\ Stored(row) /\ row.kind = "text" /\ row.body # NoText
    /\ resolving = NoLink
    /\ Disturb("preview")
    /\ resolving' = [body |-> row.body,
                     card |-> IF row.card # NoCard THEN row.card ELSE row.body]
    /\ UNCHANGED <<wire, tables, stores, fetching, rpcs, history>>

(* UpdateLinkPreviewForBody, or a resolver that found nothing.              *)
FinishResolve ==
    /\ resolving # NoLink
    /\ \/ Stored(row) /\ SetRow(CardUpdated(row, resolving.body, resolving.card))
       \/ UNCHANGED <<row, displayed>>
    /\ resolving' = NoLink
    /\ UNCHANGED <<wire, revisions, payload, stores, fetching, rpcs, spent, revoked,
                   cleared>>

(* The daemon stops and starts again. What goroutines held is lost; the     *)
(* event in hand comes again unless it was acknowledged already.            *)
InHand(e) ==
    /\ pc["live"] # "idle"
    /\ e.type = "say" /\ e.version <= said
    /\ copy["live"].body \in {e.version, NoText}

Crash ==
    /\ Disturb("crash")
    /\ again' \in {again} \cup {again \cup {e} : e \in {f \in Event : InHand(f)}}
    /\ pc' = [h \in Handlers |-> "idle"] /\ copy' = [h \in Handlers |-> NoRow]
    /\ fetching' = NoRow /\ resolving' = NoLink
    /\ outgoing' = {} /\ deleting' = FALSE
    /\ UNCHANGED <<given, said, withdrawn, live, tables, history>>

StoreCopy(h) == Record(h) \/ UpsertCopy(h) \/ UpsertFails(h) \/ RememberPayload(h)

Next ==
    \/ Say \/ Withdraw \/ Undecryptable
    \/ HandleNext \/ HandleAgain \/ HandleProtectingReply \/ HistoryArrives
    \/ \E h \in Handlers : StoreCopy(h)
    \/ Receipt
    \/ SendHere \/ StoreSent \/ EditMessage \/ DeleteHere \/ StoreDeletion \/ ClearChat
    \/ BeginDownload \/ FinishDownload \/ DownloadFails
    \/ BeginResolve \/ FinishResolve
    \/ Crash

Spec == Init /\ [][Next]_vars

-----------------------------------------------------------------------------
(* Properties                                                               *)

(* Every variable holds the kind of value the code can put there, and a     *)
(* handler holds a copy exactly while it stores one.                        *)
TypeOK ==
    /\ about \in Messages /\ mix \in Mixes
    /\ said \in 0..MaxVersion /\ withdrawn \in BOOLEAN
    /\ live \in Seq(Event) /\ again \subseteq Event
    /\ row \in Row \cup {NoRow}
    /\ revisions \in Seq(Versions)
    /\ payload \in BOOLEAN
    /\ pc \in [Handlers -> {"idle", "record", "upsert", "payload"}]
    /\ copy \in [Handlers -> Row \cup {NoRow}]
    /\ \A h \in Handlers : Stored(copy[h]) <=> pc[h] # "idle"
    /\ fetching \in Row \cup {NoRow}
    /\ resolving \in [body: Versions, card: Versions] \cup {NoLink}
    /\ outgoing \subseteq Versions /\ deleting \in BOOLEAN
    /\ spent \in 0..MaxDisturbances
    /\ displayed \subseteq Versions
    /\ revoked \in BOOLEAN /\ cleared \in BOOLEAN

(* The index is an implementation of the life a message is promised: a      *)
(* tombstone, a protection and a correction stand against every late copy,  *)
(* and its ticks never go back.                                             *)
Phase == IF Stored(row) THEN PhaseOf(row) ELSE "absent"

Life == INSTANCE MessageLife WITH
            Texts <- Versions, Original <- 1, Nothing <- NoText,
            phase <- Phase,
            text <- IF Stored(row) THEN row.body ELSE NoText,
            mark <- IF Stored(row) THEN Rank[row.status] ELSE 0

ImplementsLife == Life!Spec

(* The link card under a message describes the text above it, whatever was  *)
(* corrected while the card was being resolved or a copy was under way.     *)
CardDescribesText ==
    Stored(row) /\ ~row.revoked => row.card \in {NoCard, row.body}

(* A message known to be view-once keeps no text, no card, no file and no   *)
(* address of a file, whoever was storing a copy of it when that became     *)
(* known.                                                                   *)
ViewOnceHoldsNothing ==
    Stored(row) /\ row.kind = "view_once" =>
        row.body = NoText /\ row.card = NoCard /\ ~row.media /\ ~payload

(* Once a conversation is cleared nothing of the message is left: no        *)
(* handler that was storing a copy leaves a version or an address behind.   *)
ClearedLeavesNothing == ~Stored(row) => revisions = <<>> /\ ~payload

(* The words a message showed when it was taken back can still be read      *)
(* among its earlier versions.                                              *)
DeletedWordsKept ==
    [][Stored(row) /\ Stored(row') /\ row'.revoked /\ ~row.revoked /\ row.body # NoText
         => \E i \in DOMAIN revisions' : revisions'[i] = row.body]_vars

(* The handler of live events is the only writer of texts.                  *)
OnlyLiveWrites ==
    about.author = "them" /\ mix \cap {"history", "download", "fault"} = {}

(* "every version it stops saying is written to message_revisions first"    *)
(* (docs/ARCHITECTURE.md): every text the row has held is the one it holds  *)
(* now or among its earlier versions.                                       *)
EveryVersionKept ==
    \A v \in displayed :
        \/ Stored(row) /\ row.body = v
        \/ Stored(row) /\ row.kind = "view_once"
        \/ \E i \in DOMAIN revisions : revisions[i] = v

(* So it is as long as no history page, download or failing write comes     *)
(* between the steps of the live handler, whatever is sent again, protected,*)
(* cleared or restarted.                                                    *)
SaidIsKept == OnlyLiveWrites => EveryVersionKept

=============================================================================
