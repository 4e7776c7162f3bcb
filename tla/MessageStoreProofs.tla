------------------------- MODULE MessageStoreProofs -------------------------
(* Proofs about MessageStore, for any messages, receipts and bounds: the    *)
(* type invariant, what a protected and a cleared message leave behind,     *)
(* and, where no download runs across a clear, that the row implements      *)
(* MessageLife; and that no text is lost where only live events write.      *)
EXTENDS MessageStore, MessageMergeProofs

-----------------------------------------------------------------------------
(* The type invariant.                                                      *)

LEMMA ConstantsAre ==
    /\ MaxVersion \in Nat \ {0} /\ MaxDisturbances \in Nat
    /\ 1 \in Versions /\ NoText \notin Versions /\ NoText = 0 /\ NoCard = 0
    /\ Receipts \subseteq {"delivered", "read", "played"}
    /\ Receipts \subseteq Statuses
    /\ \A m \in Messages :
          /\ m.author \in {"me", "them"} /\ m.content \in {"text", "image"}
          /\ m.protected \in BOOLEAN
          /\ m.protected => m.author = "them"
    /\ \A r \in Row : r # NoRow
  BY MessageAssumption, StatusRank DEF Versions, NoText, NoCard, Message

LEMMA MessageOfType ==
    ASSUME TypeOK, NEW v \in Versions, NEW marked \in BOOLEAN, NEW linked \in BOOLEAN,
           NEW s \in Statuses
    PROVE  /\ MessageOf(v, marked, linked, s) \in Row
           /\ MessageOf(v, marked, linked, s).status = s
           /\ ~MessageOf(v, marked, linked, s).revoked
           /\ ~MessageOf(v, marked, linked, s).media
           /\ WellSaid(MessageOf(v, marked, linked, s))
           /\ MessageOf(v, marked, linked, s).kind = "view_once" => marked
  <1> DEFINE card == IF linked THEN v ELSE NoCard
             m == [kind |-> about.content, body |-> v, edited |-> v > 1, revoked |-> FALSE,
                   status |-> s, card |-> card, media |-> FALSE]
  <1>1. about.content \in {"text", "image"} /\ v # NoText /\ (v > 1 <=> v # 1)
    BY ConstantsAre DEF TypeOK, Versions
  <1>2. m \in Row
    BY <1>1 DEF Row, Kinds
  <1>3. /\ m.kind = about.content /\ m.body = v /\ m.edited = (v > 1) /\ m.revoked = FALSE
        /\ m.status = s /\ m.card = card /\ m.media = FALSE
    OBVIOUS
  <1>4. WellSaid(m)
    BY <1>1, <1>3 DEF WellSaid
  <1>5. MessageOf(v, marked, linked, s) = IF marked THEN Placeholder(m) ELSE m
    BY DEF MessageOf
  <1> HIDE DEF m
  <1>6. /\ Placeholder(m) \in Row /\ Placeholder(m).status = s /\ ~Placeholder(m).revoked
        /\ ~Placeholder(m).media /\ WellSaid(Placeholder(m))
    BY <1>2, <1>3, PlaceholderType, BareFields DEF WellSaid, Placeholder
  <1> QED
    BY <1>1, <1>2, <1>3, <1>4, <1>5, <1>6

WireTypes ==
    /\ about \in Messages /\ mix \in Mixes
    /\ said \in 0..MaxVersion /\ withdrawn \in BOOLEAN
    /\ live \in Seq(Event) /\ again \subseteq Event
TableTypes == row \in Row \cup {NoRow} /\ revisions \in Seq(Versions) /\ payload \in BOOLEAN
StoreTypes ==
    /\ pc \in [Handlers -> {"idle", "record", "upsert", "payload"}]
    /\ copy \in [Handlers -> Row \cup {NoRow}]
    /\ \A h \in Handlers : Stored(copy[h]) <=> pc[h] # "idle"
SlowTypes ==
    /\ fetching \in Row \cup {NoRow}
    /\ resolving \in [body: Versions, card: Versions] \cup {NoLink}
CallTypes == outgoing \subseteq Versions /\ deleting \in BOOLEAN
SpentType == spent \in 0..MaxDisturbances
HistoryTypes == displayed \subseteq Versions /\ revoked \in BOOLEAN /\ cleared \in BOOLEAN

LEMMA TypeParts ==
    TypeOK <=> /\ WireTypes /\ TableTypes /\ StoreTypes /\ SlowTypes /\ CallTypes
               /\ SpentType /\ HistoryTypes
  BY DEF TypeOK, WireTypes, TableTypes, StoreTypes, SlowTypes, CallTypes, SpentType,
     HistoryTypes

LEMMA TypePartsNext ==
    TypeOK' <=> /\ WireTypes' /\ TableTypes' /\ StoreTypes' /\ SlowTypes' /\ CallTypes'
                /\ SpentType' /\ HistoryTypes'
  BY DEF TypeOK, WireTypes, TableTypes, StoreTypes, SlowTypes, CallTypes, SpentType,
     HistoryTypes

LEMMA Kept ==
    ASSUME TypeOK
    PROVE  /\ UNCHANGED wire => WireTypes'
           /\ UNCHANGED tables => TableTypes'
           /\ UNCHANGED stores => StoreTypes'
           /\ fetching' = fetching /\ resolving' = resolving => SlowTypes'
           /\ UNCHANGED rpcs => CallTypes'
           /\ spent' = spent => SpentType'
           /\ UNCHANGED history => HistoryTypes'
  BY DEF TypeOK, wire, given, tables, stores, rpcs, history, WireTypes, TableTypes,
     StoreTypes, SlowTypes, CallTypes, SpentType, HistoryTypes, Stored

LEMMA DisturbType ==
    ASSUME TypeOK, NEW d, Disturb(d)
    PROVE  SpentType'
  BY ConstantsAre DEF TypeOK, Disturb, SpentType

LEMMA SetRowType ==
    ASSUME TypeOK, NEW r \in Row \cup {NoRow}, SetRow(r)
    PROVE  row' \in Row \cup {NoRow} /\ displayed' \subseteq Versions
  <1>1. r = NoRow \/ r.body = NoText \/ r.body \in Versions
    BY RowFields
  <1> QED
    BY <1>1 DEF SetRow, TypeOK

(* What UpsertMessage writes.                                               *)
Written(m) == IF Stored(row) THEN Upserted(row, m) ELSE m

LEMMA WrittenType ==
    ASSUME TypeOK, NEW m \in Row
    PROVE  Written(m) \in Row
  BY UpsertedType DEF Written, TypeOK, Stored

LEMMA UpsertType ==
    ASSUME TypeOK, NEW m \in Row, Upsert(m)
    PROVE  /\ row' = Written(m) /\ row' \in Row /\ displayed' \subseteq Versions
           /\ payload' = (payload /\ row'.kind # "view_once") /\ payload' \in BOOLEAN
  <1>1. SetRow(Written(m)) /\ RedactPayload
    BY DEF Upsert, Written
  <1>2. row' = Written(m) /\ row' \in Row /\ displayed' \subseteq Versions
    BY <1>1, WrittenType, SetRowType DEF SetRow
  <1> QED
    BY <1>1, <1>2 DEF RedactPayload

LEMMA WithFileType ==
    ASSUME NEW m \in Row
    PROVE  WithFile(m) \in Row
  BY RowFields, RowOf DEF WithFile

LEMMA HoldType ==
    ASSUME TypeOK, NEW h \in Handlers, NEW m \in Row, Hold(h, m)
    PROVE  StoreTypes'
  <1>1. Placeholder(m) \in Row /\ Placeholder(m) # NoRow /\ m # NoRow
    BY PlaceholderType, ConstantsAre
  <1>2. PICK q \in {m, Placeholder(m)} : copy' = [copy EXCEPT ![h] = q]
    BY DEF Hold
  <1>3. PICK p \in {"record", "upsert"} : pc' = [pc EXCEPT ![h] = p]
    BY DEF Hold
  <1> QED
    BY <1>1, <1>2, <1>3 DEF TypeOK, StoreTypes, Stored

LEMMA ReleaseType ==
    ASSUME TypeOK, NEW h \in Handlers, Release(h)
    PROVE  StoreTypes'
  BY DEF Release, TypeOK, StoreTypes, Stored

LEMMA GoesOnType ==
    ASSUME TypeOK, NEW h \in Handlers, pc[h] # "idle", NEW p \in {"upsert", "payload"},
           pc' = [pc EXCEPT ![h] = p], copy' = copy
    PROVE  StoreTypes'
  BY DEF TypeOK, StoreTypes, Stored

LEMMA MarkRevokedType ==
    ASSUME TypeOK, MarkRevoked
    PROVE  TableTypes' /\ HistoryTypes'
  <1>1. CASE Stored(row)
    <2>1. row \in Row
      BY <1>1 DEF TypeOK, Stored
    <2>2. RevokedRow(row) \in Row /\ Recorded(revisions, row) \in Seq(Versions)
      BY <2>1, RevokedType, RecordedType DEF TypeOK
    <2>3. SetRow(RevokedRow(row)) /\ revisions' = Recorded(revisions, row)
      BY <1>1 DEF MarkRevoked
    <2>4. row' \in Row \cup {NoRow} /\ displayed' \subseteq Versions
      BY <2>2, <2>3, SetRowType
    <2> QED
      BY <2>2, <2>3, <2>4 DEF MarkRevoked, TypeOK, TableTypes, HistoryTypes
  <1>2. CASE ~Stored(row)
    BY <1>2 DEF MarkRevoked, SetRow, TypeOK, TableTypes, HistoryTypes
  <1> QED
    BY <1>1, <1>2

LEMMA EventFields ==
    ASSUME NEW e \in Event
    PROVE  e.type \in {"say", "revoke"} /\ (e.type = "say" => e.version \in Versions)
  BY DEF Event

LEMMA FirstStatusType ==
    FirstStatus \in Statuses /\ "sent" \in Statuses /\ Linked \subseteq BOOLEAN
  BY StatusRank DEF FirstStatus, Linked

LEMMA WireStep ==
    ASSUME TypeOK, Say \/ Withdraw \/ Undecryptable
    PROVE  TypeOK'
  <1>1. CASE Say
    <2>1. said + 1 \in Versions
      BY <1>1, ConstantsAre DEF Say, TypeOK, Versions
    <2>2. [type |-> "say", version |-> said + 1] \in Event
      BY <2>1 DEF Event
    <2>3. WireTypes'
      BY <1>1, <2>1, <2>2 DEF Say, TypeOK, WireTypes, given, Versions
    <2> QED
      BY <1>1, <2>3, Kept, TypePartsNext DEF Say
  <1>2. CASE Withdraw
    <2>1. [type |-> "revoke"] \in Event
      BY DEF Event
    <2>2. WireTypes'
      BY <1>2, <2>1 DEF Withdraw, TypeOK, WireTypes, given
    <2> QED
      BY <1>2, <2>2, Kept, TypePartsNext DEF Withdraw
  <1>3. CASE Undecryptable
    <2>1. Head(live) \in Event /\ Tail(live) \in Seq(Event)
      BY <1>3 DEF Undecryptable, TypeOK
    <2>2. WireTypes'
      BY <1>3, <2>1 DEF Undecryptable, TypeOK, WireTypes, given
    <2> QED
      BY <1>3, <2>2, DisturbType, Kept, TypePartsNext DEF Undecryptable
  <1> QED
    BY <1>1, <1>2, <1>3

LEMMA HandleType ==
    ASSUME TypeOK, NEW e \in Event, Handle(e)
    PROVE  TableTypes' /\ StoreTypes' /\ SlowTypes' /\ CallTypes' /\ SpentType' /\ HistoryTypes'
  <1>1. SlowTypes' /\ CallTypes' /\ SpentType'
    BY Kept DEF Handle
  <1>2. CASE e.type = "say"
    <2>1. PICK linked \in Linked :
             Hold("live", MessageOf(e.version, about.protected, linked, FirstStatus))
      BY <1>2 DEF Handle
    <2>2. /\ MessageOf(e.version, about.protected, linked, FirstStatus) \in Row
          /\ "live" \in Handlers
      BY <1>2, EventFields, FirstStatusType, MessageOfType, ConstantsAre DEF TypeOK, Handlers
    <2> QED
      BY <1>1, <1>2, <2>1, <2>2, HoldType, Kept DEF Handle
  <1>3. CASE e.type = "revoke"
    BY <1>1, <1>3, MarkRevokedType, Kept DEF Handle
  <1> QED
    BY <1>2, <1>3, EventFields

LEMMA LiveStep ==
    ASSUME TypeOK, HandleNext \/ HandleAgain
    PROVE  TypeOK'
  <1>1. CASE HandleNext
    <2>1. Head(live) \in Event /\ Tail(live) \in Seq(Event) /\ Handle(Head(live))
      BY <1>1 DEF HandleNext, TypeOK
    <2>2. WireTypes'
      BY <1>1, <2>1 DEF HandleNext, Handle, TypeOK, WireTypes, given
    <2> QED
      BY <2>1, <2>2, HandleType, TypePartsNext
  <1>2. CASE HandleAgain
    <2>1. PICK e \in again : Handle(e) /\ again' = again \ {e} /\ live' = live
      BY <1>2 DEF HandleAgain
    <2>2. e \in Event
      BY DEF TypeOK
    <2>3. WireTypes'
      BY <2>1 DEF Handle, TypeOK, WireTypes, given
    <2> QED
      BY <2>1, <2>2, <2>3, HandleType, TypePartsNext
  <1> QED
    BY <1>1, <1>2

LEMMA HistoryArrivesStep ==
    ASSUME TypeOK, HistoryArrives
    PROVE  TypeOK'
  <1>1. PICK v \in 1..said, linked \in Linked,
             marked \in IF about.protected THEN BOOLEAN ELSE {FALSE},
             status \in {FirstStatus} \cup IF FromMe THEN Receipts ELSE {} :
             Hold("history", MessageOf(v, marked, linked, status))
    BY DEF HistoryArrives
  <1>2. v \in Versions /\ marked \in BOOLEAN /\ status \in Statuses /\ linked \in BOOLEAN
    <2>1. v \in Versions
      BY ConstantsAre DEF TypeOK, Versions
    <2>2. status \in Statuses
      BY FirstStatusType, ConstantsAre
    <2>3. marked \in BOOLEAN /\ linked \in BOOLEAN
      BY FirstStatusType
    <2> QED
      BY <2>1, <2>2, <2>3
  <1>3. MessageOf(v, marked, linked, status) \in Row
    BY <1>2, MessageOfType
  <1>4. StoreTypes'
    BY <1>1, <1>3, HoldType DEF Handlers
  <1> QED
    BY <1>4, DisturbType, Kept, TypePartsNext DEF HistoryArrives

LEMMA StoreCopyStep ==
    ASSUME TypeOK, NEW h \in Handlers, StoreCopy(h)
    PROVE  TypeOK'
  <1>1. pc[h] # "idle" => copy[h] \in Row
    BY DEF TypeOK, Stored
  <1>2. CASE Record(h)
    <2>1. TableTypes' /\ SpentType'
      <3>1. CASE spent' = spent /\ revisions' = IF Stored(row) THEN Recorded(revisions, row)
                                                ELSE revisions
        <4>1. Stored(row) => row \in Row
          BY DEF TypeOK, Stored
        <4>2. revisions' \in Seq(Versions)
          BY <3>1, <4>1, RecordedType DEF TypeOK
        <4> QED
          BY <1>2, <3>1, <4>2, Kept DEF Record, TypeOK, TableTypes
      <3>2. CASE Disturb("fault") /\ revisions' = revisions
        BY <1>2, <3>2, DisturbType DEF Record, TypeOK, TableTypes
      <3> QED
        BY <1>2, <3>1, <3>2 DEF Record
    <2>2. StoreTypes'
      BY <1>2, GoesOnType DEF Record
    <2> QED
      BY <1>2, <2>1, <2>2, Kept, TypePartsNext DEF Record
  <1>3. CASE UpsertCopy(h)
    <2>1. copy[h] \in Row /\ Upsert(copy[h])
      BY <1>1, <1>3 DEF UpsertCopy
    <2>2. TableTypes' /\ HistoryTypes'
      BY <1>3, <2>1, UpsertType DEF UpsertCopy, TypeOK, TableTypes, HistoryTypes
    <2>3. StoreTypes'
      BY <1>3, GoesOnType DEF UpsertCopy
    <2> QED
      BY <1>3, <2>2, <2>3, Kept, TypePartsNext DEF UpsertCopy
  <1>4. CASE UpsertFails(h)
    BY <1>4, ReleaseType, DisturbType, Kept, TypePartsNext DEF UpsertFails
  <1>5. CASE RememberPayload(h)
    <2>1. copy[h] \in Row /\ Release(h) /\ SaveMediaPayload(copy[h])
      BY <1>1, <1>5 DEF RememberPayload
    <2>2. TableTypes'
      BY <1>5, <2>1 DEF RememberPayload, SaveMediaPayload, TypeOK, TableTypes
    <2>3. SlowTypes' /\ SpentType'
      BY <1>5, <2>1, DisturbType, Kept DEF RememberPayload, TypeOK, SlowTypes
    <2> QED
      BY <1>5, <2>1, <2>2, <2>3, ReleaseType, Kept, TypePartsNext DEF RememberPayload
  <1> QED
    BY <1>2, <1>3, <1>4, <1>5 DEF StoreCopy

LEMMA ReplyStep ==
    ASSUME TypeOK, HandleProtectingReply
    PROVE  TypeOK'
  <1>1. row \in Row
    BY DEF HandleProtectingReply, TypeOK, Stored
  <1>2. QuotedAsViewOnce(row) \in Row
    BY <1>1, PlaceholderType DEF QuotedAsViewOnce
  <1>3. row' \in Row \cup {NoRow} /\ displayed' \subseteq Versions
    BY <1>2, SetRowType DEF HandleProtectingReply
  <1>4. TableTypes' /\ HistoryTypes'
    BY <1>3 DEF HandleProtectingReply, RedactPayload, TypeOK, TableTypes, HistoryTypes
  <1> QED
    BY <1>4, DisturbType, Kept, TypePartsNext DEF HandleProtectingReply

LEMMA ReceiptStep ==
    ASSUME TypeOK, Receipt
    PROVE  TypeOK'
  <1>1. row \in Row
    BY DEF Receipt, TypeOK, Stored
  <1>2. PICK s \in Receipts : SetRow(ReceiptRow(row, s))
    BY DEF Receipt
  <1>3. ReceiptRow(row, s) \in Row
    BY <1>1, ConstantsAre, ReceiptType
  <1>4. row' \in Row \cup {NoRow} /\ displayed' \subseteq Versions
    BY <1>2, <1>3, SetRowType
  <1>5. TableTypes' /\ HistoryTypes'
    BY <1>4 DEF Receipt, TypeOK, TableTypes, HistoryTypes
  <1> QED
    BY <1>5, Kept, TypePartsNext DEF Receipt

LEMMA RpcStep ==
    ASSUME TypeOK,
           SendHere \/ StoreSent \/ EditMessage \/ DeleteHere \/ StoreDeletion \/ ClearChat
    PROVE  TypeOK'
  <1>1. CASE SendHere
    <2>1. said + 1 \in Versions
      BY <1>1, ConstantsAre DEF SendHere, TypeOK, Versions
    <2>2. WireTypes' /\ CallTypes'
      BY <1>1, <2>1 DEF SendHere, TypeOK, WireTypes, CallTypes, given, Versions
    <2> QED
      BY <1>1, <2>2, Kept, TypePartsNext DEF SendHere
  <1>2. CASE StoreSent
    <2>1. PICK linked \in Linked : Upsert(MessageOf(1, FALSE, linked, "sent"))
      BY <1>2 DEF StoreSent
    <2>2. MessageOf(1, FALSE, linked, "sent") \in Row
      BY ConstantsAre, FirstStatusType, MessageOfType
    <2>3. TableTypes' /\ HistoryTypes'
      BY <1>2, <2>1, <2>2, UpsertType DEF StoreSent, TypeOK, TableTypes, HistoryTypes
    <2>4. CallTypes'
      BY <1>2 DEF StoreSent, TypeOK, CallTypes
    <2> QED
      BY <1>2, <2>3, <2>4, Kept, TypePartsNext DEF StoreSent
  <1>3. CASE EditMessage
    <2>1. PICK v \in outgoing \ {1} :
            /\ outgoing' = outgoing \ {v}
            /\ IF Stored(row) /\ ~row.revoked
               THEN revisions' = Recorded(revisions, row) /\ SetRow(EditedRow(row, v))
               ELSE UNCHANGED <<revisions, row, displayed>>
      BY <1>3 DEF EditMessage
    <2>2. /\ row' \in Row \cup {NoRow} /\ displayed' \subseteq Versions
          /\ revisions' \in Seq(Versions)
      <3>1. CASE Stored(row) /\ ~row.revoked
        <4>1. row \in Row /\ v \in Versions
          BY <3>1 DEF TypeOK, Stored
        <4> QED
          BY <2>1, <3>1, <4>1, EditedType, RecordedType, SetRowType DEF TypeOK
      <3>2. CASE ~(Stored(row) /\ ~row.revoked)
        BY <2>1, <3>2 DEF TypeOK
      <3> QED
        BY <3>1, <3>2
    <2>3. TableTypes' /\ HistoryTypes' /\ CallTypes'
      BY <1>3, <2>1, <2>2 DEF EditMessage, TypeOK, TableTypes, HistoryTypes, CallTypes
    <2> QED
      BY <1>3, <2>3, Kept, TypePartsNext DEF EditMessage
  <1>4. CASE DeleteHere
    <2>1. WireTypes' /\ CallTypes'
      BY <1>4 DEF DeleteHere, TypeOK, WireTypes, CallTypes, given
    <2> QED
      BY <1>4, <2>1, Kept, TypePartsNext DEF DeleteHere
  <1>5. CASE StoreDeletion
    <2>1. CallTypes'
      BY <1>5 DEF StoreDeletion, TypeOK, CallTypes
    <2> QED
      BY <1>5, <2>1, MarkRevokedType, Kept, TypePartsNext DEF StoreDeletion
  <1>6. CASE ClearChat
    <2>1. <<>> \in Seq(Versions)
      OBVIOUS
    <2>2. TableTypes' /\ HistoryTypes'
      BY <1>6, <2>1 DEF ClearChat, TableTypes, HistoryTypes
    <2> QED
      BY <1>6, <2>2, DisturbType, Kept, TypePartsNext DEF ClearChat
  <1> QED
    BY <1>1, <1>2, <1>3, <1>4, <1>5, <1>6

LEMMA SlowStep ==
    ASSUME TypeOK,
           BeginDownload \/ FinishDownload \/ DownloadFails \/ BeginResolve \/ FinishResolve
    PROVE  TypeOK'
  <1>1. CASE BeginDownload
    <2>1. SlowTypes'
      BY <1>1 DEF BeginDownload, TypeOK, SlowTypes
    <2> QED
      BY <1>1, <2>1, DisturbType, Kept, TypePartsNext DEF BeginDownload
  <1>2. CASE FinishDownload
    <2>1. fetching \in Row
      BY <1>2 DEF FinishDownload, TypeOK, Stored
    <2>2. WithFile(fetching) \in Row
      BY <2>1, WithFileType
    <2>3. TableTypes' /\ HistoryTypes' /\ SlowTypes'
      BY <1>2, <2>2, UpsertType DEF FinishDownload, TypeOK, TableTypes, HistoryTypes, SlowTypes
    <2> QED
      BY <1>2, <2>3, Kept, TypePartsNext DEF FinishDownload
  <1>3. CASE DownloadFails
    <2>1. SlowTypes'
      BY <1>3 DEF DownloadFails, TypeOK, SlowTypes
    <2> QED
      BY <1>3, <2>1, Kept, TypePartsNext DEF DownloadFails
  <1>4. CASE BeginResolve
    <2>1. row \in Row
      BY <1>4 DEF BeginResolve, TypeOK, Stored
    <2>2. row.body \in Versions /\ (row.card # NoCard => row.card \in Versions)
      BY <1>4, <2>1, RowFields DEF BeginResolve
    <2>3. resolving' \in [body: Versions, card: Versions]
      BY <1>4, <2>2 DEF BeginResolve
    <2>4. SlowTypes'
      BY <1>4, <2>3 DEF BeginResolve, TypeOK, SlowTypes
    <2> QED
      BY <1>4, <2>4, DisturbType, Kept, TypePartsNext DEF BeginResolve
  <1>5. CASE FinishResolve
    <2>1. row' \in Row \cup {NoRow} /\ displayed' \subseteq Versions
      <3>1. CASE Stored(row) /\ SetRow(CardUpdated(row, resolving.body, resolving.card))
        <4>1. row \in Row /\ resolving.card \in Versions
          BY <1>5, <3>1 DEF FinishResolve, TypeOK, Stored
        <4>2. CardUpdated(row, resolving.body, resolving.card) \in Row
          BY <4>1, RowFields, RowOf DEF CardUpdated
        <4> QED
          BY <3>1, <4>2, SetRowType
      <3>2. CASE UNCHANGED <<row, displayed>>
        BY <3>2 DEF TypeOK
      <3> QED
        BY <1>5, <3>1, <3>2 DEF FinishResolve
    <2>2. TableTypes' /\ HistoryTypes' /\ SlowTypes'
      BY <1>5, <2>1 DEF FinishResolve, TypeOK, TableTypes, HistoryTypes, SlowTypes
    <2> QED
      BY <1>5, <2>2, Kept, TypePartsNext DEF FinishResolve
  <1> QED
    BY <1>1, <1>2, <1>3, <1>4, <1>5

LEMMA CrashStep ==
    ASSUME TypeOK, Crash
    PROVE  TypeOK'
  <1>1. WireTypes'
    BY DEF Crash, TypeOK, WireTypes, given
  <1>2. StoreTypes' /\ SlowTypes' /\ CallTypes'
    BY DEF Crash, TypeOK, StoreTypes, SlowTypes, CallTypes, Stored
  <1> QED
    BY <1>1, <1>2, DisturbType, Kept, TypePartsNext DEF Crash

LEMMA TypeInit == Init => TypeOK
  <1> SUFFICES ASSUME Init PROVE TypeOK
    OBVIOUS
  <1>1. <<>> \in Seq(Event) /\ <<>> \in Seq(Versions)
    OBVIOUS
  <1>2. WireTypes /\ TableTypes /\ SpentType
    <2>1. 0 \in 0..MaxVersion /\ 0 \in 0..MaxDisturbances
      BY ConstantsAre
    <2> QED
      BY <1>1, <2>1, Zenon DEF Init, WireTypes, TableTypes, SpentType
  <1>3. StoreTypes /\ SlowTypes /\ CallTypes /\ HistoryTypes
    BY DEF Init, StoreTypes, SlowTypes, CallTypes, HistoryTypes, Stored
  <1> QED
    BY <1>2, <1>3, TypeParts

LEMMA TypeStep == TypeOK /\ [Next]_vars => TypeOK'
  <1> SUFFICES ASSUME TypeOK, [Next]_vars PROVE TypeOK'
    OBVIOUS
  <1>1. CASE UNCHANGED vars
    BY <1>1, Kept, TypePartsNext DEF vars
  <1> QED
    BY <1>1, WireStep, LiveStep, ReplyStep, HistoryArrivesStep, StoreCopyStep, ReceiptStep,
       RpcStep, SlowStep, CrashStep DEF Next

(* Every variable keeps to its type, and a handler holds a copy exactly     *)
(* while it stores one, for any messages, mixes and bounds.                 *)
THEOREM TypeCorrect == Spec => []TypeOK
  BY TypeInit, TypeStep, PTL DEF Spec

-----------------------------------------------------------------------------
(* What a step does to the tables: ten ways, for the twenty-three actions.  *)

(* The versions, unless the text is written in the same transaction.        *)
VersionsKept == revisions' = revisions
VersionAdded == Stored(row) /\ revisions' = Recorded(revisions, row)

Untouched ==
    /\ row' = row /\ displayed' = displayed
    /\ payload' = payload \/ (Stored(row) /\ row.kind # "view_once")
    /\ VersionsKept \/ VersionAdded
Cleared == "clear" \in mix /\ row' = NoRow /\ revisions' = <<>> /\ ~payload' /\ displayed' = {}
Wrote(m) ==
    /\ row' = Written(m) /\ SetRow(Written(m))
    /\ payload' = (payload /\ row'.kind # "view_once")
    /\ VersionsKept
CopyWritten == \E h \in Handlers : pc[h] = "upsert" /\ Stored(copy[h]) /\ Wrote(copy[h])
FileWritten == Stored(fetching) /\ Wrote(WithFile(fetching))
SentWritten == 1 \in outgoing /\ \E linked \in BOOLEAN : Wrote(MessageOf(1, FALSE, linked, "sent"))
Rewrote(q) == Stored(row) /\ SetRow(q) /\ payload' = payload
TakenBack  == Rewrote(RevokedRow(row)) /\ VersionAdded
Protected  ==
    /\ Stored(row) /\ about.protected /\ SetRow(QuotedAsViewOnce(row))
    /\ payload' = (payload /\ row'.kind # "view_once")
    /\ VersionsKept
    /\ pc["live"] = "idle"
Ticked     == VersionsKept /\ \E t \in Receipts : Rewrote(ReceiptRow(row, t))
Corrected  == ~row.revoked /\ VersionAdded /\ \E v \in outgoing \ {1} : Rewrote(EditedRow(row, v))
Carded     ==
    /\ resolving # NoLink /\ VersionsKept
    /\ Rewrote(CardUpdated(row, resolving.body, resolving.card))

Changes ==
    \/ Untouched \/ Cleared \/ CopyWritten \/ FileWritten \/ SentWritten
    \/ TakenBack \/ Protected \/ Ticked \/ Corrected \/ Carded

LEMMA MarkRevokedChanges ==
    ASSUME MarkRevoked
    PROVE  TakenBack \/ Untouched
  <1>1. CASE Stored(row)
    BY <1>1 DEF MarkRevoked, TakenBack, Rewrote, VersionAdded
  <1>2. CASE ~Stored(row)
    BY <1>2 DEF MarkRevoked, Untouched, VersionsKept, SetRow, Stored
  <1> QED
    BY <1>1, <1>2

LEMMA UpsertChanges ==
    ASSUME NEW m, Upsert(m), revisions' = revisions
    PROVE  Wrote(m)
  BY DEF Upsert, Wrote, Written, SetRow, RedactPayload, VersionsKept

LEMMA NextChanges ==
    ASSUME TypeOK, [Next]_vars
    PROVE  Changes
  <1>1. ASSUME UNCHANGED tables, UNCHANGED history
        PROVE  Untouched
    BY <1>1 DEF tables, history, Untouched, VersionsKept
  <1>2. CASE Say \/ Withdraw \/ Undecryptable \/ HistoryArrives \/ SendHere \/ DeleteHere
          \/ BeginDownload \/ DownloadFails \/ BeginResolve \/ Crash \/ UNCHANGED vars
    BY <1>1, <1>2 DEF Say, Withdraw, Undecryptable, HistoryArrives, SendHere, DeleteHere,
       BeginDownload, DownloadFails, BeginResolve, Crash, vars, Changes
  <1>3. CASE HandleNext \/ HandleAgain
    <2>1. PICK e : Handle(e)
      BY <1>3 DEF HandleNext, HandleAgain
    <2> QED
      BY <1>1, <2>1, MarkRevokedChanges DEF Handle, Changes
  <1>4. ASSUME NEW h \in Handlers, StoreCopy(h)
        PROVE  Changes
    <2>1. CASE Record(h)
      BY <2>1 DEF Record, Changes, Untouched, VersionsKept, VersionAdded, history
    <2>2. CASE UpsertCopy(h)
      <3>1. pc[h] = "upsert" /\ Stored(copy[h])
        BY <2>2 DEF UpsertCopy, TypeOK
      <3>2. Wrote(copy[h])
        BY <2>2, UpsertChanges DEF UpsertCopy
      <3> QED
        BY <3>1, <3>2 DEF CopyWritten, Changes
    <2>3. CASE UpsertFails(h)
      BY <1>1, <2>3 DEF UpsertFails, Changes
    <2>4. CASE RememberPayload(h)
      BY <2>4 DEF RememberPayload, SaveMediaPayload, Changes, Untouched, VersionsKept,
         history, TypeOK
    <2> QED
      BY <1>4, <2>1, <2>2, <2>3, <2>4 DEF StoreCopy
  <1>5. CASE HandleProtectingReply
    BY <1>5 DEF HandleProtectingReply, RedactPayload, Changes, Protected, VersionsKept
  <1>6. CASE Receipt
    BY <1>6 DEF Receipt, Changes, Ticked, Rewrote, VersionsKept
  <1>7. CASE StoreSent
    <2>1. PICK linked \in BOOLEAN : Upsert(MessageOf(1, FALSE, linked, "sent"))
      BY <1>7, FirstStatusType DEF StoreSent
    <2> QED
      BY <1>7, <2>1, UpsertChanges DEF StoreSent, SentWritten, Changes
  <1>8. CASE EditMessage
    BY <1>8 DEF EditMessage, Changes, Corrected, Rewrote, VersionAdded, Untouched, VersionsKept
  <1>9. CASE StoreDeletion
    BY <1>9, MarkRevokedChanges DEF StoreDeletion, Changes
  <1>10. CASE ClearChat
    BY <1>10 DEF ClearChat, Disturb, Changes, Cleared
  <1>11. CASE FinishDownload
    BY <1>11, UpsertChanges DEF FinishDownload, FileWritten, Changes
  <1>12. CASE FinishResolve
    BY <1>12 DEF FinishResolve, Changes, Carded, Rewrote, Untouched, VersionsKept
  <1> QED
    BY <1>2, <1>3, <1>4, <1>5, <1>6, <1>7, <1>8, <1>9, <1>10, <1>11, <1>12 DEF Next

LEMMA GivenKept ==
    ASSUME [Next]_vars
    PROVE  about' = about /\ mix' = mix
  BY DEF Next, vars, wire, given, Say, Withdraw, Undecryptable, HandleNext, HandleAgain, Handle,
     HandleProtectingReply, HistoryArrives, StoreCopy, Record, UpsertCopy, UpsertFails,
     RememberPayload, Receipt, SendHere, StoreSent, EditMessage, DeleteHere, StoreDeletion,
     ClearChat, BeginDownload, FinishDownload, DownloadFails, BeginResolve, FinishResolve, Crash

-----------------------------------------------------------------------------
(* What holds whatever is mixed: copies in flight are well said, and what   *)
(* is protected or cleared is gone.                                         *)

(* Only a message sent as view-once is marked so, and the milestone fits    *)
(* the side it was written on.                                              *)
Fits(m) ==
    /\ m.kind = "view_once" => about.protected
    /\ IF FromMe THEN m.status # "received" ELSE m.status # "sent"

Fresh(m)  == WellSaid(m) /\ Fits(m) /\ ~m.revoked /\ ~m.media
Bared(r)  == r.body = NoText /\ r.card = NoCard /\ ~r.media
CopyInv   == \A h \in Handlers : Stored(copy[h]) => Fresh(copy[h])
LateInv   == Stored(fetching) => fetching.kind # "view_once" /\ "download" \in mix
OutInv    == outgoing # {} => FromMe
ProtectedInv == Stored(row) /\ row.kind = "view_once" => about.protected /\ Bared(row) /\ ~payload

BaseInv == CopyInv /\ LateInv /\ OutInv /\ ProtectedInv /\ ClearedLeavesNothing

LEMMA FreshMessage ==
    ASSUME TypeOK, NEW v \in Versions, NEW marked \in BOOLEAN, NEW linked \in BOOLEAN,
           NEW s \in {FirstStatus} \cup IF FromMe THEN Receipts ELSE {},
           marked => about.protected
    PROVE  MessageOf(v, marked, linked, s) \in Row /\ Fresh(MessageOf(v, marked, linked, s))
  <1>1. s \in Statuses /\ (IF FromMe THEN s # "received" ELSE s # "sent")
    BY FirstStatusType, ConstantsAre DEF FirstStatus
  <1> QED
    BY <1>1, MessageOfType DEF Fresh, Fits

LEMMA FreshPlaceholder ==
    ASSUME TypeOK, NEW m \in Row, Fresh(m), about.protected
    PROVE  Fresh(Placeholder(m))
  <1>1. ~Placeholder(m).media
    BY DEF Placeholder
  <1> QED
    BY <1>1, BareFields DEF Fresh, Fits, WellSaid

LEMMA HoldFresh ==
    ASSUME TypeOK, CopyInv, ProtectedInv, NEW h \in Handlers, NEW m \in Row, Fresh(m),
           Hold(h, m), about' = about
    PROVE  CopyInv'
  <1>1. PICK q \in {m, Placeholder(m)} :
           copy' = [copy EXCEPT ![h] = q] /\ (q = m \/ (Stored(row) /\ row.kind = "view_once"))
    BY DEF Hold
  <1>2. Fresh(q)
    BY <1>1, FreshPlaceholder DEF ProtectedInv
  <1>3. \A g \in Handlers : copy'[g] = q \/ copy'[g] = copy[g]
    BY <1>1 DEF TypeOK
  <1> QED
    BY <1>2, <1>3 DEF CopyInv, Fresh, Fits, FromMe, Stored

LEMMA HandleFresh ==
    ASSUME TypeOK, CopyInv, ProtectedInv, NEW e \in Event, Handle(e), about' = about
    PROVE  CopyInv'
  <1>1. CASE e.type = "say"
    <2>1. PICK linked \in Linked :
             Hold("live", MessageOf(e.version, about.protected, linked, FirstStatus))
      BY <1>1 DEF Handle
    <2>2. about.protected \in BOOLEAN /\ linked \in BOOLEAN /\ e.version \in Versions
      BY <1>1, EventFields, FirstStatusType, ConstantsAre DEF TypeOK
    <2>3. /\ MessageOf(e.version, about.protected, linked, FirstStatus) \in Row
          /\ Fresh(MessageOf(e.version, about.protected, linked, FirstStatus))
      BY <2>2, FreshMessage
    <2> QED
      BY <2>1, <2>3, HoldFresh DEF Handlers
  <1>2. CASE e.type = "revoke"
    BY <1>2 DEF Handle, stores, CopyInv, Fresh, Fits, FromMe, Stored
  <1> QED
    BY <1>1, <1>2, EventFields

(* A handler holds nothing but what it decoded.                             *)
LEMMA CopyStep ==
    ASSUME TypeOK, CopyInv, ProtectedInv, [Next]_vars
    PROVE  CopyInv'
  <1>1. about' = about
    BY GivenKept
  <1>2. ASSUME \A h \in Handlers : copy'[h] = copy[h] \/ copy'[h] = NoRow
        PROVE  CopyInv'
    BY <1>1, <1>2 DEF CopyInv, Fresh, Fits, FromMe, Stored
  <1>3. CASE HandleNext
    BY <1>1, <1>3, HandleFresh DEF HandleNext, TypeOK
  <1>4. CASE HandleAgain
    <2>1. PICK e \in again : Handle(e)
      BY <1>4 DEF HandleAgain
    <2> QED
      BY <1>1, <2>1, HandleFresh DEF TypeOK
  <1>5. CASE HistoryArrives
    <2>1. PICK v \in 1..said, linked \in Linked,
               marked \in IF about.protected THEN BOOLEAN ELSE {FALSE},
               status \in {FirstStatus} \cup IF FromMe THEN Receipts ELSE {} :
               Hold("history", MessageOf(v, marked, linked, status))
      BY <1>5 DEF HistoryArrives
    <2>2. v \in Versions
      BY ConstantsAre DEF TypeOK, Versions
    <2>3. marked \in BOOLEAN /\ linked \in BOOLEAN /\ (marked => about.protected)
      BY FirstStatusType
    <2>4. Fresh(MessageOf(v, marked, linked, status)) /\ MessageOf(v, marked, linked, status) \in Row
      BY <2>2, <2>3, FreshMessage
    <2> QED
      BY <1>1, <2>1, <2>4, HoldFresh DEF Handlers
  <1>6. ASSUME NEW h \in Handlers, StoreCopy(h)
        PROVE  CopyInv'
    <2>1. CASE copy' = copy
      BY <1>2, <2>1
    <2>2. CASE copy' = [copy EXCEPT ![h] = NoRow]
      BY <1>2, <2>2 DEF TypeOK
    <2> QED
      BY <1>6, <2>1, <2>2 DEF StoreCopy, Record, UpsertCopy, UpsertFails, RememberPayload, Release
  <1>7. CASE Crash
    BY <1>2, <1>7 DEF Crash
  <1>8. CASE copy' = copy
    BY <1>2, <1>8
  <1> QED
    BY <1>3, <1>4, <1>5, <1>6, <1>7, <1>8 DEF Next, vars, stores, Say, Withdraw, Undecryptable,
       HandleProtectingReply, Receipt, SendHere, StoreSent, EditMessage, DeleteHere,
       StoreDeletion, ClearChat, BeginDownload, FinishDownload, DownloadFails, BeginResolve,
       FinishResolve

(* A download holds the row, or the copy just stored, of a message that is  *)
(* not protected.                                                           *)
FetchStays == fetching' \in {fetching, NoRow}
FetchBegins ==
    \/ Stored(row) /\ fetching' = row /\ UNCHANGED tables
    \/ /\ Stored(copy["live"]) /\ fetching' = copy["live"]
       /\ row' = row

LEMMA FetchStep ==
    ASSUME TypeOK, [Next]_vars
    PROVE  \/ FetchStays
           \/ FetchBegins /\ fetching'.kind # "view_once" /\ "download" \in mix
  <1>1. ASSUME NEW h \in Handlers, RememberPayload(h)
        PROVE  \/ FetchStays
               \/ FetchBegins /\ fetching'.kind # "view_once" /\ "download" \in mix
    <2>1. CASE fetching' = fetching
      BY <2>1 DEF FetchStays
    <2>2. CASE /\ h = "live" /\ NamesFile(copy[h]) /\ Disturb("download")
               /\ fetching' = copy[h]
      <3>1. Stored(copy["live"]) /\ row' = row
        BY <1>1, <2>2 DEF RememberPayload, TypeOK
      <3> QED
        BY <2>2, <3>1 DEF FetchBegins, NamesFile, Disturb
    <2> QED
      BY <1>1, <2>1, <2>2 DEF RememberPayload
  <1>2. CASE BeginDownload
    BY <1>2 DEF BeginDownload, FetchBegins, Disturb
  <1>3. CASE fetching' = fetching \/ fetching' = NoRow
    BY <1>3 DEF FetchStays
  <1>4. ASSUME NEW h \in Handlers, Record(h) \/ UpsertCopy(h) \/ UpsertFails(h)
        PROVE  fetching' = fetching
    BY <1>4 DEF Record, UpsertCopy, UpsertFails
  <1> QED
    BY <1>1, <1>2, <1>3, <1>4 DEF Next, vars, StoreCopy, Say, Withdraw, Undecryptable, HandleNext,
       HandleAgain, Handle, HistoryArrives, HandleProtectingReply, Receipt, SendHere, StoreSent,
       EditMessage, DeleteHere, StoreDeletion, ClearChat, FinishDownload, DownloadFails,
       BeginResolve, FinishResolve, Crash

LEMMA OutStep ==
    ASSUME TypeOK, OutInv, [Next]_vars
    PROVE  OutInv'
  <1>1. about' = about
    BY GivenKept
  <1>2. outgoing' \subseteq outgoing \/ FromMe
    BY DEF Next, vars, rpcs, Say, Withdraw, Undecryptable, HandleNext,
       HandleAgain, Handle, HandleProtectingReply, HistoryArrives, StoreCopy, Record, UpsertCopy,
       UpsertFails, RememberPayload, Receipt, SendHere, StoreSent, EditMessage, DeleteHere,
       StoreDeletion, ClearChat, BeginDownload, FinishDownload, DownloadFails, BeginResolve,
       FinishResolve, Crash
  <1> QED
    BY <1>1, <1>2 DEF OutInv, FromMe

LEMMA RedactedBared ==
    ASSUME NEW r \in Row, Redacted(r).kind = "view_once"
    PROVE  r.kind = "view_once" /\ Bared(Redacted(r))
  <1>1. r.kind = "view_once" /\ Redacted(r) = Bare(r)
    BY RedactedFields DEF Redacted
  <1> QED
    BY <1>1 DEF Bare, Bared

LEMMA UpsertedBared ==
    ASSUME NEW r \in Row, NEW m \in Row, Upserted(r, m).kind = "view_once"
    PROVE  "view_once" \in {r.kind, m.kind} /\ Bared(Upserted(r, m))
  <1> DEFINE p == ProtectedCopy(r, m)
             q == Overwritten(r, p)
  <1>1. p \in Row /\ q \in Row /\ Upserted(r, m) = Redacted(q)
    BY ProtectedCopyType, OverwrittenType, UpsertedIs
  <1>2. q.kind = "view_once" /\ Bared(Upserted(r, m))
    BY <1>1, RedactedBared
  <1>3. q.kind \in {r.kind, p.kind}
    BY <1>1, OverwrittenFields
  <1>4. p = m \/ "view_once" \in {r.kind, m.kind}
    BY DEF ProtectedCopy
  <1> QED
    BY <1>2, <1>3, <1>4

(* A row written from a copy that is not protected, or that is a protected  *)
(* copy with nothing in it.                                                 *)
LEMMA WroteProtected ==
    ASSUME TypeOK, ProtectedInv, NEW m \in Row, Wrote(m), about' = about,
           m.kind = "view_once" => about.protected /\ Bared(m)
    PROVE  ProtectedInv' /\ ClearedLeavesNothing'
  <1>1. row' = Written(m) /\ row' \in Row /\ Stored(row')
    BY WrittenType, ConstantsAre DEF Wrote, Stored
  <1>2. row'.kind = "view_once" => about.protected /\ Bared(row')
    <2>1. CASE Stored(row)
      BY <1>1, <2>1, UpsertedBared DEF Written, ProtectedInv, TypeOK, Stored
    <2>2. CASE ~Stored(row)
      BY <1>1, <2>2 DEF Written
    <2> QED
      BY <2>1, <2>2
  <1> QED
    BY <1>1, <1>2 DEF Wrote, ProtectedInv, ClearedLeavesNothing, Stored

(* A row rewritten in place, with its payload.                              *)
LEMMA RewroteProtected ==
    ASSUME TypeOK, ProtectedInv, NEW q \in Row, Rewrote(q), about' = about,
           q.kind = "view_once" => row.kind = "view_once" /\ (Bared(row) => Bared(q))
    PROVE  ProtectedInv' /\ ClearedLeavesNothing'
  <1>1. Stored(row) /\ row' = q /\ Stored(row') /\ payload' = payload
    BY ConstantsAre DEF Rewrote, SetRow, Stored
  <1> QED
    BY <1>1 DEF ProtectedInv, ClearedLeavesNothing, Stored

LEMMA ProtectedStep ==
    ASSUME TypeOK, BaseInv, [Next]_vars
    PROVE  ProtectedInv' /\ ClearedLeavesNothing'
  <1>1. about' = about
    BY GivenKept
  <1>2. Stored(row) => row \in Row
    BY DEF TypeOK, Stored
  <1>3. CASE Untouched
    BY <1>1, <1>3 DEF Untouched, VersionsKept, VersionAdded, BaseInv, ProtectedInv,
       ClearedLeavesNothing, Stored
  <1>4. CASE Cleared
    BY <1>4 DEF Cleared, ProtectedInv, ClearedLeavesNothing, Stored
  <1>5. CASE CopyWritten
    <2>1. PICK h \in Handlers : Stored(copy[h]) /\ Wrote(copy[h])
      BY <1>5 DEF CopyWritten
    <2>2. copy[h] \in Row /\ Fresh(copy[h])
      BY <2>1 DEF TypeOK, BaseInv, CopyInv, Stored
    <2> QED
      BY <1>1, <2>1, <2>2, WroteProtected DEF BaseInv, Fresh, Fits, WellSaid, Bared
  <1>6. CASE FileWritten
    <2>1. fetching \in Row /\ fetching.kind # "view_once" /\ Wrote(WithFile(fetching))
      BY <1>6 DEF FileWritten, TypeOK, BaseInv, LateInv, Stored
    <2>2. WithFile(fetching) \in Row /\ WithFile(fetching).kind # "view_once"
      BY <2>1, RowFields, RowOf DEF WithFile
    <2> QED
      BY <1>1, <2>1, <2>2, WroteProtected DEF BaseInv
  <1>7. CASE SentWritten
    <2>1. PICK linked \in BOOLEAN : Wrote(MessageOf(1, FALSE, linked, "sent"))
      BY <1>7 DEF SentWritten
    <2>2. MessageOf(1, FALSE, linked, "sent") \in Row
      BY ConstantsAre, FirstStatusType, MessageOfType
    <2>3. MessageOf(1, FALSE, linked, "sent").kind = about.content
      BY DEF MessageOf
    <2>4. about.content # "view_once"
      BY ConstantsAre DEF TypeOK
    <2> QED
      BY <1>1, <2>1, <2>2, <2>3, <2>4, WroteProtected DEF BaseInv
  <1>8. CASE TakenBack
    <2>1. Rewrote(RevokedRow(row)) /\ RevokedRow(row) \in Row
      BY <1>2, <1>8, RevokedType DEF TakenBack, Rewrote
    <2>2. RevokedRow(row).kind = "view_once" =>
             row.kind = "view_once" /\ (Bared(row) => Bared(RevokedRow(row)))
      BY DEF RevokedRow, Bared
    <2> QED
      BY <1>1, <2>1, <2>2, RewroteProtected DEF BaseInv
  <1>9. CASE Protected
    <2>1. row \in Row /\ QuotedAsViewOnce(row) \in Row /\ row' = QuotedAsViewOnce(row)
      BY <1>2, <1>9, PlaceholderType DEF Protected, QuotedAsViewOnce, SetRow
    <2>2. row'.kind = "view_once" => Bared(row')
      BY <2>1, RedactedBared DEF QuotedAsViewOnce, Bare, Bared
    <2> QED
      BY <1>1, <1>9, <2>1, <2>2, ConstantsAre DEF Protected, ProtectedInv, ClearedLeavesNothing, Stored
  <1>10. CASE Ticked
    <2>1. PICK t \in Receipts : Rewrote(ReceiptRow(row, t))
      BY <1>10 DEF Ticked
    <2>2. ReceiptRow(row, t) \in Row
      BY <1>2, <2>1, ConstantsAre, ReceiptType DEF Rewrote
    <2>3. ReceiptRow(row, t).kind = row.kind /\ (Bared(row) => Bared(ReceiptRow(row, t)))
      BY DEF ReceiptRow, Bared
    <2> QED
      BY <1>1, <2>1, <2>2, <2>3, RewroteProtected DEF BaseInv
  <1>11. CASE Corrected
    <2>1. PICK v \in outgoing \ {1} : Rewrote(EditedRow(row, v))
      BY <1>11 DEF Corrected
    <2>2. v \in Versions /\ ~about.protected
      BY <2>1, ConstantsAre DEF TypeOK, BaseInv, OutInv, FromMe
    <2>3. EditedRow(row, v) \in Row /\ row.kind # "view_once"
      BY <1>2, <2>1, <2>2, EditedType DEF Rewrote, BaseInv, ProtectedInv
    <2>4. EditedRow(row, v).kind = row.kind
      BY DEF EditedRow
    <2> QED
      BY <1>1, <2>1, <2>3, <2>4, RewroteProtected DEF BaseInv
  <1>12. CASE Carded
    <2> DEFINE q == CardUpdated(row, resolving.body, resolving.card)
    <2>1. Rewrote(q) /\ resolving.card \in Versions /\ resolving.body \in Versions
      BY <1>12 DEF Carded, TypeOK
    <2>2. row \in Row
      BY <1>2, <2>1 DEF Rewrote
    <2>3. q \in Row /\ q.kind = row.kind
      BY <2>1, <2>2, RowFields, RowOf DEF CardUpdated
    <2>4. Bared(row) => q = row
      BY <2>1, ConstantsAre DEF Bared, CardUpdated
    <2> HIDE DEF q
    <2> QED
      BY <1>1, <2>1, <2>3, <2>4, RewroteProtected DEF BaseInv
  <1> QED
    BY <1>3, <1>4, <1>5, <1>6, <1>7, <1>8, <1>9, <1>10, <1>11, <1>12, NextChanges DEF Changes

LEMMA LateStep ==
    ASSUME TypeOK, BaseInv, [Next]_vars
    PROVE  LateInv'
  BY FetchStep, GivenKept DEF BaseInv, LateInv, FetchStays, Stored

LEMMA BaseInit == Init => BaseInv
  BY DEF Init, BaseInv, CopyInv, LateInv, OutInv, ProtectedInv, ClearedLeavesNothing, Stored

LEMMA BaseStep == TypeOK /\ BaseInv /\ [Next]_vars => BaseInv'
  <1> SUFFICES ASSUME TypeOK, BaseInv, [Next]_vars PROVE BaseInv'
    OBVIOUS
  <1>1. CopyInv' /\ OutInv' /\ LateInv' /\ ProtectedInv' /\ ClearedLeavesNothing'
    BY CopyStep, OutStep, LateStep, ProtectedStep DEF BaseInv
  <1> QED
    BY <1>1 DEF BaseInv

LEMMA BaseAlways == Spec => [](TypeOK /\ BaseInv)
  <1>1. Init => TypeOK /\ BaseInv
    BY TypeInit, BaseInit
  <1>2. TypeOK /\ BaseInv /\ [Next]_vars => TypeOK' /\ BaseInv'
    BY TypeStep, BaseStep
  <1> QED
    BY <1>1, <1>2, PTL DEF Spec

(* Whoever was storing a copy, fetching the file or resolving a card when a *)
(* message became known to be view-once, its row keeps nothing.             *)
THEOREM ProtectedIsBare == Spec => []ViewOnceHoldsNothing
  <1>1. BaseInv => ViewOnceHoldsNothing
    BY DEF BaseInv, ProtectedInv, Bared, ViewOnceHoldsNothing
  <1> QED
    BY <1>1, BaseAlways, PTL

(* A message that is not in the index has no versions and no address of a   *)
(* file there, whatever was under way when it was cleared.                  *)
THEOREM ClearedIsEmpty == Spec => []ClearedLeavesNothing
  <1>1. BaseInv => ClearedLeavesNothing
    BY DEF BaseInv
  <1> QED
    BY <1>1, BaseAlways, PTL

-----------------------------------------------------------------------------
(* Where no download runs across a clear: the row is well said and only     *)
(* moves on. A download that holds a tombstone would otherwise write it     *)
(* over a row that was stored anew.                                         *)

Apart == ~({"download", "clear"} \subseteq mix)

RowSound   == Stored(row) => WellSaid(row) /\ Fits(row)
FetchSound ==
    Stored(fetching) =>
        WellSaid(fetching) /\ Fits(fetching) /\ (fetching.revoked => Stored(row) /\ row.revoked)
ResolveSound == resolving # NoLink => resolving.card = resolving.body

SoundInv == RowSound /\ FetchSound /\ ResolveSound

(* The row there is afterwards is as far in its life, or further, and a     *)
(* tombstone is put up by a revocation and by nothing else.                 *)
Onward(r, q) ==
    /\ Follows(PhaseOf(r), PhaseOf(q))
    /\ Rank[q.status] >= Rank[r.status]

LEMMA FitsStatus ==
    ASSUME NEW r \in Row, NEW s \in Statuses, Fits(r),
           IF FromMe THEN s # "received" ELSE s # "sent"
    PROVE  /\ IF FromMe THEN LaterStatus(r.status, s) # "received"
                        ELSE LaterStatus(r.status, s) # "sent"
           /\ Rank[LaterStatus(r.status, s)] >= Rank[r.status]
  <1>1. r.status \in Statuses /\ LaterStatus(r.status, s) \in {r.status, s}
    BY RowFields, LaterStatusType
  <1>2. r.status = "sent" => s # "received"
    BY DEF Fits
  <1> QED
    BY <1>1, <1>2, LaterStatusRank DEF Fits

LEMMA SameRank ==
    ASSUME NEW r \in Row
    PROVE  Rank[r.status] >= Rank[r.status]
  BY RowFields, RankType

LEMMA WroteSound ==
    ASSUME TypeOK, RowSound, NEW m \in Row, WellSaid(m), Fits(m),
           m.revoked => Stored(row) /\ row.revoked, Wrote(m), about' = about
    PROVE  /\ RowSound' /\ Stored(row')
           /\ Stored(row) => Onward(row, row') /\ (row'.revoked => row.revoked)
  <1>1. row' = Written(m) /\ row' \in Row /\ Stored(row')
    BY WrittenType, ConstantsAre DEF Wrote, Stored
  <1>2. CASE ~Stored(row)
    BY <1>1, <1>2 DEF Written, RowSound, Fits, FromMe
  <1>3. CASE Stored(row)
    <2>1. /\ row \in Row /\ WellSaid(row) /\ Fits(row) /\ row' = Upserted(row, m)
          /\ m.revoked => row.revoked
      BY <1>1, <1>3 DEF TypeOK, RowSound, Written, Stored
    <2>2. /\ WellSaid(row') /\ Follows(PhaseOf(row), PhaseOf(row'))
          /\ row'.status = LaterStatus(row.status, m.status)
          /\ row'.kind = "view_once" => "view_once" \in {row.kind, m.kind}
      BY <2>1, UpsertedWell
    <2>3. m.status \in Statuses /\ (IF FromMe THEN m.status # "received" ELSE m.status # "sent")
      BY RowFields DEF Fits
    <2>4. /\ IF FromMe THEN row'.status # "received" ELSE row'.status # "sent"
          /\ Rank[row'.status] >= Rank[row.status]
      BY <2>1, <2>2, <2>3, FitsStatus
    <2>5. row'.revoked => row.revoked
      <3> DEFINE p == ProtectedCopy(row, m)
                 q == Overwritten(row, p)
      <3>1. row'.revoked = (row.revoked \/ m.revoked)
        <4>1. p \in Row /\ p.revoked = m.revoked
          BY <2>1, ProtectedCopyType, ProtectedCopyFields
        <4>2. q \in Row /\ q.revoked = (row.revoked \/ p.revoked)
          BY <2>1, <4>1, OverwrittenType, OverwrittenFields
        <4>3. row' = Redacted(q)
          BY <2>1, UpsertedIs
        <4> HIDE DEF q, p
        <4>4. row'.revoked = q.revoked
          BY <4>2, <4>3, RedactedFields
        <4> QED
          BY <4>1, <4>2, <4>4
      <3> QED
        BY <2>1, <3>1
    <2>6. Fits(row')
      BY <2>1, <2>2, <2>4 DEF Fits
    <2>7. RowSound'
      BY <1>1, <2>2, <2>6 DEF RowSound, Fits, FromMe
    <2> QED
      BY <1>1, <2>2, <2>4, <2>5, <2>7 DEF Onward
  <1> QED
    BY <1>2, <1>3

LEMMA RewroteSound ==
    ASSUME TypeOK, NEW q \in Row, WellSaid(q), Fits(q), Rewrote(q) \/ row' = q, about' = about
    PROVE  RowSound' /\ Stored(row') /\ row' = q
  BY ConstantsAre DEF Rewrote, SetRow, RowSound, Fits, FromMe, Stored

LEMMA CardSound ==
    ASSUME NEW r \in Row, WellSaid(r), Fits(r), NEW b \in Versions
    PROVE  LET q == CardUpdated(r, b, b) IN
           q \in Row /\ WellSaid(q) /\ Fits(q) /\ Onward(r, q) /\ q.revoked = r.revoked
  <1> DEFINE q == CardUpdated(r, b, b)
  <1>1. Follows(PhaseOf(r), PhaseOf(r)) /\ Rank[r.status] >= Rank[r.status]
    BY FlagsFollow, SameRank
  <1>2. CASE r.revoked \/ r.body # b
    BY <1>1, <1>2 DEF CardUpdated, Onward
  <1>3. CASE ~r.revoked /\ r.body = b
    <2>1. /\ q.kind = r.kind /\ q.body = r.body /\ q.edited = r.edited
          /\ q.revoked = r.revoked /\ q.status = r.status /\ q.card = r.body
      BY <1>3 DEF CardUpdated
    <2>2. q \in Row
      BY <1>3, RowFields, RowOf DEF CardUpdated
    <2>3. r.kind # "view_once"
      BY <1>3, ConstantsAre DEF WellSaid
    <2>4. WellSaid(q) /\ Fits(q)
      BY <2>1, <2>3 DEF WellSaid, Fits
    <2>5. Follows(PhaseOf(r), PhaseOf(q))
      BY <2>1, <2>2, FlagsFollow
    <2> HIDE DEF q
    <2>6. Rank[q.status] >= Rank[r.status]
      BY <1>1, <2>1
    <2> QED
      BY <2>1, <2>2, <2>4, <2>5, <2>6 DEF q, Onward
  <1> QED
    BY <1>2, <1>3

LEMMA QuotedSound ==
    ASSUME NEW r \in Row, WellSaid(r), Fits(r), about.protected
    PROVE  LET q == QuotedAsViewOnce(r) IN
           q \in Row /\ WellSaid(q) /\ Fits(q) /\ Onward(r, q) /\ q.revoked = r.revoked
  <1>1. CASE r.revoked
    BY <1>1, PlaceholderType, RedactedRowWell, RedactedFields, SameRank
       DEF QuotedAsViewOnce, Onward, Fits
  <1>2. CASE ~r.revoked
    <2> DEFINE q == Bare(r)
    <2>1. QuotedAsViewOnce(r) = q /\ q \in Row
      BY <1>2, PlaceholderType DEF QuotedAsViewOnce
    <2>2. /\ q.kind = "view_once" /\ q.body = NoText /\ q.card = NoCard
          /\ q.revoked = r.revoked /\ q.status = r.status
      BY BareFields
    <2> HIDE DEF q
    <2>3. WellSaid(q) /\ Fits(q)
      BY <2>2 DEF WellSaid, Fits
    <2>4. Follows(PhaseOf(r), PhaseOf(q))
      BY <2>1, <2>2, FlagsFollow
    <2> QED
      BY <2>1, <2>2, <2>3, <2>4, SameRank DEF Onward
  <1> QED
    BY <1>1, <1>2

(* A step that clears nothing keeps the row, well said and no earlier in    *)
(* its life; only MarkRevoked turns it into a tombstone.                    *)
RowKeeps ==
    /\ RowSound'
    /\ Stored(row) =>
          Stored(row') /\ Onward(row, row') /\ (row'.revoked => row.revoked \/ TakenBack)

LEMMA SameRowKeeps ==
    ASSUME TypeOK, RowSound, row' = row, about' = about
    PROVE  RowKeeps
  <1>1. Stored(row) => row \in Row
    BY DEF TypeOK, Stored
  <1>2. Stored(row) => Onward(row, row)
    BY <1>1, FlagsFollow, SameRank DEF Onward
  <1>3. RowSound'
    BY DEF RowSound, Stored, Fits, FromMe
  <1> QED
    BY <1>2, <1>3 DEF RowKeeps

LEMMA WroteKeeps ==
    ASSUME TypeOK, RowSound, NEW m \in Row, WellSaid(m), Fits(m),
           m.revoked => Stored(row) /\ row.revoked, Wrote(m), about' = about
    PROVE  RowKeeps
  BY WroteSound DEF RowKeeps

LEMMA RewroteKeeps ==
    ASSUME TypeOK, Stored(row), NEW q \in Row, WellSaid(q), Fits(q), Rewrote(q) \/ row' = q,
           about' = about, Onward(row, q), q.revoked => row.revoked \/ TakenBack
    PROVE  RowKeeps
  BY RewroteSound DEF RowKeeps

LEMMA RowStep ==
    ASSUME TypeOK, BaseInv, SoundInv, [Next]_vars
    PROVE  Cleared \/ RowKeeps
  <1>1. about' = about
    BY GivenKept
  <1>2. Stored(row) => row \in Row /\ WellSaid(row) /\ Fits(row)
    BY DEF TypeOK, SoundInv, RowSound, Stored
  <1>3. RowSound
    BY DEF SoundInv
  <1>4. CASE Untouched
    BY <1>1, <1>3, <1>4, SameRowKeeps DEF Untouched
  <1>5. CASE CopyWritten
    <2>1. PICK h \in Handlers : Stored(copy[h]) /\ Wrote(copy[h])
      BY <1>5 DEF CopyWritten
    <2>2. copy[h] \in Row /\ Fresh(copy[h])
      BY <2>1 DEF TypeOK, BaseInv, CopyInv, Stored
    <2> QED
      BY <1>1, <1>3, <2>1, <2>2, WroteKeeps DEF Fresh
  <1>6. CASE FileWritten
    <2> DEFINE m == WithFile(fetching)
    <2>1. /\ fetching \in Row /\ Wrote(m) /\ WellSaid(fetching) /\ Fits(fetching)
          /\ fetching.revoked => Stored(row) /\ row.revoked
      BY <1>6 DEF FileWritten, TypeOK, SoundInv, FetchSound, Stored
    <2>2. m \in Row
      BY <2>1, WithFileType
    <2>3. /\ m.kind = fetching.kind /\ m.body = fetching.body /\ m.edited = fetching.edited
          /\ m.revoked = fetching.revoked /\ m.status = fetching.status /\ m.card = fetching.card
      BY DEF WithFile
    <2> HIDE DEF m
    <2>4. WellSaid(m) /\ Fits(m)
      BY <2>1, <2>3 DEF WellSaid, Fits
    <2> QED
      BY <1>1, <1>3, <2>1, <2>2, <2>3, <2>4, WroteKeeps
  <1>7. CASE SentWritten
    <2>1. PICK linked \in BOOLEAN : Wrote(MessageOf(1, FALSE, linked, "sent"))
      BY <1>7 DEF SentWritten
    <2>2. FromMe /\ FirstStatus = "sent"
      BY <1>7 DEF SentWritten, BaseInv, OutInv, FirstStatus
    <2>3. 1 \in Versions /\ "sent" \in {FirstStatus} \cup (IF FromMe THEN Receipts ELSE {})
      BY <2>2, ConstantsAre
    <2>4. /\ MessageOf(1, FALSE, linked, "sent") \in Row
          /\ Fresh(MessageOf(1, FALSE, linked, "sent"))
      BY <2>3, FreshMessage
    <2> QED
      BY <1>1, <1>3, <2>1, <2>4, WroteKeeps DEF Fresh
  <1>8. CASE TakenBack
    <2>1. Stored(row) /\ Rewrote(RevokedRow(row)) /\ RevokedRow(row) \in Row
      BY <1>2, <1>8, RevokedType DEF TakenBack, Rewrote
    <2>2. WellSaid(RevokedRow(row)) /\ Fits(RevokedRow(row)) /\ Onward(row, RevokedRow(row))
      BY <1>2, <2>1, RevokedWell, SameRank DEF Fits, Onward
    <2> QED
      BY <1>1, <1>8, <2>1, <2>2, RewroteKeeps
  <1>9. CASE Protected
    <2>1. Stored(row) /\ row' = QuotedAsViewOnce(row) /\ about.protected
      BY <1>9 DEF Protected, SetRow
    <2> QED
      BY <1>1, <1>2, <2>1, QuotedSound, RewroteKeeps
  <1>10. CASE Ticked
    <2>1. PICK t \in Receipts : Rewrote(ReceiptRow(row, t))
      BY <1>10 DEF Ticked
    <2> DEFINE q == ReceiptRow(row, t)
    <2>2. Stored(row) /\ t \in Statuses /\ t # "received" /\ t # "sent"
      BY <2>1, ConstantsAre DEF Rewrote
    <2>3. /\ q \in Row /\ WellSaid(q) /\ Follows(PhaseOf(row), PhaseOf(q))
          /\ q.status = LaterStatus(row.status, t) /\ q.kind = row.kind
      BY <1>2, <2>2, ReceiptType, ReceiptWell
    <2>4. q.revoked = row.revoked
      BY DEF ReceiptRow
    <2>5. Rewrote(q)
      BY <2>1
    <2> HIDE DEF q
    <2>6. Fits(q) /\ Onward(row, q)
      BY <1>2, <2>2, <2>3, FitsStatus DEF Fits, Onward
    <2> QED
      BY <1>1, <2>2, <2>3, <2>4, <2>5, <2>6, RewroteKeeps
  <1>11. CASE Corrected
    <2>1. PICK v \in outgoing \ {1} : Rewrote(EditedRow(row, v))
      BY <1>11 DEF Corrected
    <2> DEFINE q == EditedRow(row, v)
    <2>2. Stored(row) /\ ~row.revoked /\ v \in Versions \ {1} /\ row.kind # "view_once"
      BY <1>11, <2>1, ConstantsAre DEF Corrected, Rewrote, TypeOK, BaseInv, OutInv, ProtectedInv, FromMe
    <2>3. /\ q \in Row /\ WellSaid(q) /\ Follows(PhaseOf(row), PhaseOf(q))
          /\ q.status = row.status /\ q.kind = row.kind
      BY <1>2, <2>2, EditedType, EditedWell
    <2>4. q.revoked = row.revoked
      BY DEF EditedRow
    <2>5. Rewrote(q)
      BY <2>1
    <2> HIDE DEF q
    <2>6. Fits(q) /\ Onward(row, q)
      BY <1>2, <2>2, <2>3, SameRank DEF Fits, Onward
    <2> QED
      BY <1>1, <2>2, <2>3, <2>4, <2>5, <2>6, RewroteKeeps
  <1>12. CASE Carded
    <2>1. /\ Stored(row) /\ resolving.card = resolving.body /\ resolving.body \in Versions
          /\ Rewrote(CardUpdated(row, resolving.body, resolving.body))
      BY <1>12 DEF Carded, Rewrote, TypeOK, SoundInv, ResolveSound
    <2> QED
      BY <1>1, <1>2, <2>1, CardSound, RewroteKeeps
  <1> QED
    BY <1>4, <1>5, <1>6, <1>7, <1>8, <1>9, <1>10, <1>11, <1>12, NextChanges DEF Changes

LEMMA TombstoneStays ==
    ASSUME TypeOK, TypeOK', Stored(row), row.revoked, RowKeeps
    PROVE  Stored(row') /\ row'.revoked
  <1>1. row \in Row /\ row' \in Row /\ Follows(PhaseOf(row), PhaseOf(row')) /\ Stored(row')
    BY DEF TypeOK, Stored, RowKeeps, Onward
  <1> QED
    BY <1>1, PhaseIs, RowFields DEF Follows

LEMMA FetchSoundStep ==
    ASSUME TypeOK, TypeOK', BaseInv, SoundInv, Apart, [Next]_vars
    PROVE  FetchSound'
  <1>1. about' = about /\ mix' = mix
    BY GivenKept
  <1>2. CASE fetching' = NoRow
    BY <1>2 DEF FetchSound, Stored
  <1>3. CASE fetching' = fetching /\ Stored(fetching)
    <2>1. "download" \in mix /\ ~Cleared
      BY <1>3 DEF BaseInv, LateInv, Apart, Cleared
    <2>2. RowKeeps
      BY <2>1, RowStep
    <2>3. WellSaid(fetching) /\ Fits(fetching) /\ (fetching.revoked => Stored(row) /\ row.revoked)
      BY <1>3 DEF SoundInv, FetchSound
    <2>4. fetching.revoked => Stored(row') /\ row'.revoked
      BY <2>2, <2>3, TombstoneStays
    <2> QED
      BY <1>1, <1>3, <2>3, <2>4 DEF FetchSound, Fits, FromMe, Stored
  <1>4. CASE FetchBegins
    <2>1. CASE Stored(row) /\ fetching' = row /\ row' = row
      BY <1>1, <2>1 DEF SoundInv, RowSound, FetchSound, Fits, FromMe, Stored
    <2>2. CASE Stored(copy["live"]) /\ fetching' = copy["live"]
      <3>1. Fresh(copy["live"])
        BY <2>2 DEF BaseInv, CopyInv, Handlers
      <3> QED
        BY <1>1, <2>2, <3>1 DEF Fresh, FetchSound, Fits, FromMe, Stored
    <2> QED
      BY <1>4, <2>1, <2>2 DEF FetchBegins, tables
  <1> QED
    BY <1>2, <1>3, <1>4, FetchStep DEF FetchStays, Stored

LEMMA ResolveStep ==
    ASSUME TypeOK, SoundInv, [Next]_vars
    PROVE  ResolveSound'
  <1>1. resolving' \in {resolving, NoLink} \/ BeginResolve
    BY DEF Next, vars, Say, Withdraw, Undecryptable, HandleNext,
       HandleAgain, Handle, HandleProtectingReply, HistoryArrives, StoreCopy, Record, UpsertCopy,
       UpsertFails, RememberPayload, Receipt, SendHere, StoreSent, EditMessage, DeleteHere,
       StoreDeletion, ClearChat, BeginDownload, FinishDownload, DownloadFails,
       FinishResolve, Crash
  <1>2. CASE resolving' \in {resolving, NoLink}
    BY <1>2 DEF SoundInv, ResolveSound
  <1>3. CASE BeginResolve
    <2>1. WellSaid(row) /\ row.kind = "text" /\ row.body # NoText
      BY <1>3 DEF BeginResolve, SoundInv, RowSound
    <2>2. row.card \in {NoCard, row.body}
      BY <2>1 DEF WellSaid
    <2>3. resolving' = [body |-> row.body,
                        card |-> IF row.card # NoCard THEN row.card ELSE row.body]
      BY <1>3 DEF BeginResolve
    <2> QED
      BY <2>2, <2>3 DEF ResolveSound
  <1> QED
    BY <1>1, <1>2, <1>3

LEMMA SoundStep ==
    TypeOK /\ TypeOK' /\ BaseInv /\ SoundInv /\ Apart /\ [Next]_vars => SoundInv' /\ Apart'
  <1> SUFFICES ASSUME TypeOK, TypeOK', BaseInv, SoundInv, Apart, [Next]_vars
               PROVE  SoundInv' /\ Apart'
    OBVIOUS
  <1>1. RowSound'
    BY RowStep DEF RowKeeps, Cleared, RowSound, Stored
  <1>2. FetchSound' /\ ResolveSound'
    BY FetchSoundStep, ResolveStep
  <1>3. Apart'
    BY GivenKept DEF Apart
  <1> QED
    BY <1>1, <1>2, <1>3 DEF SoundInv

LEMMA SoundAlways == Spec /\ Apart => [](TypeOK /\ BaseInv /\ SoundInv /\ Apart)
  <1>1. Init /\ Apart => TypeOK /\ BaseInv /\ SoundInv /\ Apart
    <2>1. Init => SoundInv
      BY DEF Init, SoundInv, RowSound, FetchSound, ResolveSound, Stored
    <2> QED
      BY <2>1, TypeInit, BaseInit
  <1>2. TypeOK /\ BaseInv /\ SoundInv /\ Apart /\ [Next]_vars
           => TypeOK' /\ BaseInv' /\ SoundInv' /\ Apart'
    BY TypeStep, BaseStep, SoundStep
  <1> QED
    BY <1>1, <1>2, PTL DEF Spec

(* Where no download runs across a clear, the card under a message is the   *)
(* card of its text, whoever corrects it while a card is resolved or a copy *)
(* is stored.                                                               *)
THEOREM CardCorrect == Spec /\ Apart => []CardDescribesText
  <1>1. SoundInv => CardDescribesText
    BY DEF SoundInv, RowSound, WellSaid, CardDescribesText
  <1> QED
    BY <1>1, SoundAlways, PTL

(* ... and the words a message showed when it was taken back are among its  *)
(* earlier versions.                                                        *)
THEOREM WordsKept == Spec /\ Apart => DeletedWordsKept
  <1>1. ASSUME TypeOK, BaseInv, SoundInv, [Next]_vars,
               Stored(row), Stored(row'), row'.revoked, ~row.revoked, row.body # NoText
        PROVE  \E i \in DOMAIN revisions' : revisions'[i] = row.body
    <2>1. TakenBack
      BY <1>1, RowStep DEF Cleared, RowKeeps, Stored
    <2>2. revisions' = Recorded(revisions, row) /\ row \in Row /\ revisions \in Seq(Versions)
      BY <1>1, <2>1 DEF TakenBack, VersionAdded, TypeOK, Stored
    <2>3. row.body \in Versions
      BY <1>1, <2>2, RowFields
    <2>4. CASE revisions # <<>> /\ revisions[Len(revisions)] = row.body
      <3>1. revisions' = revisions /\ Len(revisions) \in DOMAIN revisions
        BY <1>1, <2>2, <2>4 DEF Recorded
      <3> QED
        BY <2>4, <3>1
    <2>5. CASE ~(revisions # <<>> /\ revisions[Len(revisions)] = row.body)
      <3>1. revisions' = Append(revisions, row.body)
        BY <1>1, <2>2, <2>5 DEF Recorded
      <3>2. Len(revisions) + 1 \in DOMAIN revisions' /\ revisions'[Len(revisions) + 1] = row.body
        BY <2>2, <2>3, <3>1
      <3> QED
        BY <3>2
    <2> QED
      BY <2>4, <2>5
  <1>2. TypeOK /\ BaseInv /\ SoundInv /\ [Next]_vars =>
           [Stored(row) /\ Stored(row') /\ row'.revoked /\ ~row.revoked /\ row.body # NoText
              => \E i \in DOMAIN revisions' : revisions'[i] = row.body]_vars
    BY <1>1
  <1> QED
    BY <1>2, SoundAlways, PTL DEF Spec, DeletedWordsKept

-----------------------------------------------------------------------------
(* Where the handler of live events is the only writer of texts, no text is *)
(* lost: what it is about to overwrite is recorded, or is not overwritten.  *)

Recalled(q, v) == \E i \in DOMAIN q : q[i] = v

(* Writing the copy m over the row r takes no text away, unless it protects.*)
Harmless(r, m) ==
    \/ "view_once" \in {r.kind, m.kind}
    \/ r.body \in {NoText, m.body}
    \/ r.edited /\ ~m.edited

Alone     == pc["history"] = "idle" /\ fetching = NoRow
WriterInv ==
    pc["live"] = "upsert" /\ Stored(row) =>
        Harmless(row, copy["live"]) \/ Recalled(revisions, row.body)
KeepInv   == Alone /\ WriterInv /\ EveryVersionKept

LEMMA RecordedHas ==
    ASSUME NEW q \in Seq(Versions), NEW r \in Row
    PROVE  /\ \A v : Recalled(q, v) => Recalled(Recorded(q, r), v)
           /\ r.body = NoText \/ Recalled(Recorded(q, r), r.body)
  <1>1. CASE r.body = NoText
    BY <1>1 DEF Recorded
  <1>2. CASE r.body # NoText /\ q # <<>> /\ q[Len(q)] = r.body
    <2>1. Recorded(q, r) = q /\ Len(q) \in DOMAIN q
      BY <1>2 DEF Recorded
    <2> QED
      BY <1>2, <2>1 DEF Recalled
  <1>3. CASE r.body # NoText /\ ~(q # <<>> /\ q[Len(q)] = r.body)
    <2>1. r.body \in Versions /\ Recorded(q, r) = Append(q, r.body)
      BY <1>3, RowFields DEF Recorded
    <2>2. /\ Len(q) + 1 \in DOMAIN Append(q, r.body) /\ Append(q, r.body)[Len(q) + 1] = r.body
          /\ \A i \in DOMAIN q : i \in DOMAIN Append(q, r.body) /\ Append(q, r.body)[i] = q[i]
      BY <2>1
    <2> QED
      BY <2>1, <2>2 DEF Recalled
  <1> QED
    BY <1>1, <1>2, <1>3

LEMMA UpsertedKeeps ==
    ASSUME NEW r \in Row, NEW m \in Row, WellSaid(r), WellSaid(m)
    PROVE  LET w == Upserted(r, m) IN
           /\ r.kind = "view_once" => w.kind = "view_once"
           /\ Harmless(r, m) => w.kind = "view_once" \/ r.body \in {NoText, w.body}
           /\ Harmless(w, m)
  <1> DEFINE p == ProtectedCopy(r, m)
             q == Overwritten(r, p)
             w == Upserted(r, m)
             Goal == /\ r.kind = "view_once" => w.kind = "view_once"
                     /\ Harmless(r, m) => w.kind = "view_once" \/ r.body \in {NoText, w.body}
                     /\ Harmless(w, m)
  <1>1. p \in Row /\ q \in Row /\ w = Redacted(q)
    BY ProtectedCopyType, OverwrittenType, UpsertedIs
  <1>2. /\ q.kind = (IF r.revoked THEN r.kind ELSE p.kind)
        /\ q.body = (IF TextStands(r, p) THEN r.body ELSE p.body)
        /\ q.edited = (r.edited \/ p.edited)
    BY <1>1, OverwrittenFields
  <1>3. w.kind = q.kind /\ (q.kind # "view_once" => w = q)
    BY <1>1, RedactedFields
  <1>4. /\ "view_once" \in {r.kind, m.kind} => p.kind = "view_once"
        /\ "view_once" \notin {r.kind, m.kind} => p = m
    BY ProtectedCopyFields
  <1> HIDE DEF p, q, w
  <1>5. ASSUME "view_once" \in {r.kind, m.kind} PROVE Goal
    BY <1>2, <1>3, <1>4, <1>5 DEF WellSaid, Harmless
  <1>6. ASSUME "view_once" \notin {r.kind, m.kind} PROVE Goal
    <2>1. p = m /\ w = q
      BY <1>2, <1>3, <1>4, <1>6
    <2> QED
      BY <1>2, <1>6, <2>1 DEF WellSaid, Harmless, TextStands
  <1> QED
    BY <1>5, <1>6 DEF w

(* What every kind of write has to do for no text to be lost.               *)
LEMMA KeepsSaid ==
    ASSUME TypeOK, EveryVersionKept,
           \A v : Recalled(revisions, v) => Recalled(revisions', v),
           Stored(row) =>
               /\ Stored(row')
               /\ row.kind = "view_once" => row'.kind = "view_once"
               /\ \/ row'.kind = "view_once" \/ row.body \in {NoText, row'.body}
                  \/ Recalled(revisions', row.body),
           displayed' = displayed \/ (Stored(row') /\ displayed' = displayed \cup {row'.body})
    PROVE  EveryVersionKept'
  <1> SUFFICES ASSUME NEW v \in displayed'
               PROVE  \/ Stored(row') /\ row'.body = v
                      \/ Stored(row') /\ row'.kind = "view_once"
                      \/ Recalled(revisions', v)
    BY DEF EveryVersionKept, Recalled
  <1>1. CASE v \in displayed
    <2>1. v # NoText
      BY <1>1, ConstantsAre DEF TypeOK
    <2>2. \/ Stored(row) /\ row.body = v
          \/ Stored(row) /\ row.kind = "view_once"
          \/ Recalled(revisions, v)
      BY <1>1 DEF EveryVersionKept, Recalled
    <2> QED
      BY <2>1, <2>2
  <1>2. CASE v \notin displayed
    BY <1>2
  <1> QED
    BY <1>1, <1>2

(* The same, and for what the live handler is about to do.                  *)
LEMMA SameWords ==
    ASSUME TypeOK, KeepInv, Stored(row), NEW q \in Row, SetRow(q),
           q.kind = row.kind, q.body = row.body, q.edited = row.edited, VersionsKept
    PROVE  /\ EveryVersionKept'
           /\ Harmless(row, copy["live"]) \/ Recalled(revisions, row.body) =>
                 Harmless(row', copy["live"]) \/ Recalled(revisions', row'.body)
  <1>1. row' = q /\ Stored(row') /\ displayed' \in {displayed, displayed \cup {row'.body}}
    BY ConstantsAre DEF SetRow, Stored
  <1>2. EveryVersionKept'
    BY <1>1, KeepsSaid DEF KeepInv, VersionsKept
  <1> QED
    BY <1>1, <1>2 DEF Harmless, VersionsKept

(* A write that is not the live handler's own leaves it as harmless as it   *)
(* was; its own write is harmless to repeat.                                *)
LEMMA TextsStep ==
    ASSUME TypeOK, BaseInv, SoundInv, KeepInv, OnlyLiveWrites, [Next]_vars
    PROVE  /\ EveryVersionKept'
           /\ pc["live"] = "upsert" /\ Stored(row') =>
                 Harmless(row', copy["live"]) \/ Recalled(revisions', row'.body)
  <1>1. Stored(row) => row \in Row /\ WellSaid(row)
    BY DEF TypeOK, SoundInv, RowSound, Stored
  <1>2. outgoing = {} /\ ~Stored(fetching)
    BY ConstantsAre DEF TypeOK, OnlyLiveWrites, BaseInv, OutInv, FromMe, KeepInv, Alone, Stored
  <1>3. \A v : VersionAdded /\ Recalled(revisions, v) => Recalled(revisions', v)
    BY <1>1, RecordedHas DEF VersionAdded, TypeOK
  <1>4. CASE Untouched
    <2>1. \A v : Recalled(revisions, v) => Recalled(revisions', v)
      BY <1>3, <1>4 DEF Untouched, VersionsKept
    <2>2. EveryVersionKept'
      BY <1>4, <2>1, KeepsSaid DEF KeepInv, Untouched
    <2> QED
      BY <1>4, <2>1, <2>2 DEF KeepInv, WriterInv, Untouched
  <1>5. CASE Cleared
    BY <1>5 DEF Cleared, EveryVersionKept, Stored
  <1>6. CASE CopyWritten
    <2> DEFINE m == copy["live"]
    <2>1. pc["live"] = "upsert" /\ Stored(m) /\ Wrote(m)
      BY <1>6 DEF CopyWritten, Handlers, KeepInv, Alone
    <2>2. m \in Row /\ WellSaid(m)
      BY <2>1 DEF TypeOK, BaseInv, CopyInv, Fresh, Handlers, Stored
    <2>3. /\ row' = Written(m) /\ row' \in Row /\ Stored(row') /\ revisions' = revisions
          /\ displayed' \in {displayed, displayed \cup {row'.body}}
      BY <2>1, <2>2, WrittenType, ConstantsAre DEF Wrote, SetRow, VersionsKept, Stored
    <2>4. Harmless(row', m)
      BY <1>1, <2>2, <2>3, UpsertedKeeps DEF Written, Harmless
    <2>5. Stored(row) =>
             /\ row.kind = "view_once" => row'.kind = "view_once"
             /\ \/ row'.kind = "view_once" \/ row.body \in {NoText, row'.body}
                \/ Recalled(revisions', row.body)
      BY <1>1, <2>1, <2>2, <2>3, UpsertedKeeps DEF Written, KeepInv, WriterInv
    <2>6. EveryVersionKept'
      BY <2>3, <2>5, KeepsSaid DEF KeepInv
    <2> QED
      BY <2>4, <2>6
  <1>7. CASE FileWritten \/ SentWritten \/ Corrected
    BY <1>2, <1>7 DEF FileWritten, SentWritten, Corrected
  <1>8. CASE TakenBack
    <2>1. /\ Stored(row) /\ row' = RevokedRow(row) /\ row'.body = NoText /\ displayed' = displayed
          /\ row.kind = "view_once" => row'.kind = "view_once"
          /\ Stored(row')
      BY <1>1, <1>8, RevokedType, ConstantsAre DEF TakenBack, Rewrote, SetRow, RevokedRow, Stored
    <2>2. row.body = NoText \/ Recalled(revisions', row.body)
      BY <1>1, <1>8, <2>1, RecordedHas DEF TakenBack, VersionAdded, TypeOK
    <2>3. EveryVersionKept'
      BY <1>3, <1>8, <2>1, <2>2, KeepsSaid DEF KeepInv, TakenBack
    <2> QED
      BY <2>1, <2>3 DEF Harmless
  <1>9. CASE Protected
    <2>1. Stored(row) /\ SetRow(QuotedAsViewOnce(row)) /\ QuotedAsViewOnce(row) \in Row
      BY <1>1, <1>9, PlaceholderType DEF Protected, QuotedAsViewOnce
    <2>2. /\ row' = QuotedAsViewOnce(row) /\ Stored(row')
          /\ displayed' \in {displayed, displayed \cup {row'.body}}
      BY <2>1, ConstantsAre DEF SetRow, Stored
    <2>3. row'.kind = "view_once" \/ row' = row
      BY <1>1, <2>1, <2>2, BareFields, RedactedFields DEF QuotedAsViewOnce
    <2>4. EveryVersionKept'
      BY <1>9, <2>1, <2>2, <2>3, KeepsSaid DEF KeepInv, Protected, VersionsKept
    <2> QED
      BY <1>9, <2>4 DEF Protected
  <1>10. CASE Ticked
    <2>1. PICK t \in Receipts : SetRow(ReceiptRow(row, t)) /\ Stored(row)
      BY <1>10 DEF Ticked, Rewrote
    <2>2. /\ ReceiptRow(row, t) \in Row /\ ReceiptRow(row, t).kind = row.kind
          /\ ReceiptRow(row, t).body = row.body /\ ReceiptRow(row, t).edited = row.edited
      BY <1>1, <2>1, ReceiptType, ConstantsAre DEF ReceiptRow
    <2>3. VersionsKept
      BY <1>10 DEF Ticked
    <2> QED
      BY <2>1, <2>2, <2>3, SameWords DEF KeepInv, WriterInv
  <1>11. CASE Carded
    <2> DEFINE q == CardUpdated(row, resolving.body, resolving.body)
    <2>1. SetRow(q) /\ Stored(row) /\ VersionsKept /\ resolving.body \in Versions
      BY <1>11 DEF Carded, Rewrote, TypeOK, SoundInv, ResolveSound
    <2>2. q \in Row
      BY <1>1, <2>1, CardSound, RowFields DEF SoundInv, RowSound
    <2>3. q.kind = row.kind /\ q.body = row.body /\ q.edited = row.edited
      BY <1>1, <2>1 DEF CardUpdated
    <2> HIDE DEF q
    <2> QED
      BY <2>1, <2>2, <2>3, SameWords DEF KeepInv, WriterInv
  <1> QED
    BY <1>4, <1>5, <1>6, <1>7, <1>8, <1>9, <1>10, <1>11, NextChanges DEF Changes

(* A handler that is about to write has recorded what it overwrites, or has *)
(* seen that there is nothing to record.                                    *)
LEMMA HoldHarmless ==
    ASSUME TypeOK, SoundInv, NEW m \in Row, WellSaid(m), ~m.revoked, Hold("live", m),
           pc'["live"] = "upsert", Stored(row)
    PROVE  Harmless(row, copy'["live"])
  <1>1. WellSaid(row) /\ row \in Row
    BY DEF TypeOK, SoundInv, RowSound, Stored
  <1>2. ~m.edited \/ row.body \in {NoText, m.body}
    BY DEF Hold, TypeOK, Handlers
  <1>3. copy'["live"] = IF row.kind = "view_once" THEN Placeholder(m) ELSE m
    BY DEF Hold, TypeOK, Handlers
  <1>4. CASE "view_once" \in {row.kind, m.kind}
    BY <1>3, <1>4 DEF Harmless
  <1>5. CASE "view_once" \notin {row.kind, m.kind}
    BY <1>1, <1>2, <1>3, <1>5, RowFields DEF Harmless, WellSaid
  <1> QED
    BY <1>4, <1>5

LEMMA HandleHarmless ==
    ASSUME TypeOK, BaseInv, SoundInv, KeepInv, NEW e \in Event, Handle(e), about' = about
    PROVE  WriterInv'
  <1>1. CASE e.type = "say"
    <2>1. PICK linked \in Linked :
             Hold("live", MessageOf(e.version, about.protected, linked, FirstStatus))
      BY <1>1 DEF Handle
    <2>2. about.protected \in BOOLEAN /\ linked \in BOOLEAN /\ e.version \in Versions
      BY <1>1, EventFields, FirstStatusType, ConstantsAre DEF TypeOK
    <2>3. /\ MessageOf(e.version, about.protected, linked, FirstStatus) \in Row
          /\ WellSaid(MessageOf(e.version, about.protected, linked, FirstStatus))
          /\ ~MessageOf(e.version, about.protected, linked, FirstStatus).revoked
      BY <2>2, FreshMessage DEF Fresh
    <2>4. row' = row
      BY <1>1 DEF Handle, tables
    <2> QED
      BY <2>1, <2>3, <2>4, HoldHarmless DEF WriterInv, Stored
  <1>2. CASE e.type = "revoke"
    BY <1>2 DEF Handle, stores, WriterInv
  <1> QED
    BY <1>1, <1>2, EventFields

LEMMA WriterStep ==
    ASSUME TypeOK, BaseInv, SoundInv, KeepInv, OnlyLiveWrites, [Next]_vars
    PROVE  WriterInv'
  <1>1. about' = about
    BY GivenKept
  <1>2. ASSUME pc'["live"] = "upsert" => pc["live"] = "upsert" /\ copy'["live"] = copy["live"]
        PROVE  WriterInv'
    BY <1>2, TextsStep DEF WriterInv
  <1>3. CASE HandleNext
    BY <1>1, <1>3, HandleHarmless DEF HandleNext, TypeOK
  <1>4. CASE HandleAgain
    <2>1. PICK e \in again : Handle(e)
      BY <1>4 DEF HandleAgain
    <2> QED
      BY <1>1, <2>1, HandleHarmless DEF TypeOK
  <1>5. CASE Record("live")
    <2>1. ~Disturb("fault")
      BY DEF OnlyLiveWrites, Disturb
    <2>2. row' = row /\ copy' = copy /\
          revisions' = IF Stored(row) THEN Recorded(revisions, row) ELSE revisions
      BY <1>5, <2>1 DEF Record
    <2>3. Stored(row) => Recalled(revisions', row.body) \/ row.body = NoText
      BY <2>2, RecordedHas DEF TypeOK, Stored
    <2> QED
      BY <2>2, <2>3 DEF WriterInv, Harmless
  <1>6. ASSUME NEW h \in Handlers, StoreCopy(h), ~Record("live")
        PROVE  WriterInv'
    <2>1. h = "live"
      BY <1>6 DEF Handlers, StoreCopy, Record, UpsertCopy, UpsertFails, RememberPayload,
         KeepInv, Alone
    <2>2. UpsertCopy("live") \/ UpsertFails("live") \/ RememberPayload("live")
      BY <1>6, <2>1 DEF StoreCopy
    <2>3. pc'["live"] # "upsert"
      BY <2>2 DEF UpsertCopy, UpsertFails, RememberPayload, Release, TypeOK, Handlers
    <2> QED
      BY <1>2, <2>3
  <1>7. CASE Crash
    BY <1>2, <1>7 DEF Crash, Handlers
  <1>8. CASE HistoryArrives
    BY <1>8 DEF HistoryArrives, Disturb, OnlyLiveWrites
  <1>9. CASE UNCHANGED stores
    BY <1>2, <1>9 DEF stores
  <1> QED
    BY <1>3, <1>4, <1>5, <1>6, <1>7, <1>8, <1>9 DEF Next, vars, Say, Withdraw, Undecryptable,
       HandleProtectingReply, Receipt, SendHere, StoreSent, EditMessage, DeleteHere,
       StoreDeletion, ClearChat, BeginDownload, FinishDownload, DownloadFails, BeginResolve,
       FinishResolve

LEMMA AloneStep ==
    ASSUME TypeOK, KeepInv, OnlyLiveWrites, [Next]_vars
    PROVE  Alone'
  <1>1. ~Disturb("history") /\ ~Disturb("download")
    BY DEF OnlyLiveWrites, Disturb
  <1>2. pc["history"] = "idle" /\ fetching = NoRow
    BY DEF KeepInv, Alone
  <1>3. ASSUME NEW h \in Handlers, StoreCopy(h)
        PROVE  Alone'
    <2>1. h = "live"
      BY <1>2, <1>3 DEF Handlers, StoreCopy, Record, UpsertCopy, UpsertFails, RememberPayload
    <2>2. fetching' = fetching
      BY <1>1, <1>3 DEF StoreCopy, Record, UpsertCopy, UpsertFails, RememberPayload
    <2>3. pc'["history"] = pc["history"]
      BY <1>3, <2>1 DEF StoreCopy, Record, UpsertCopy, UpsertFails, RememberPayload, Release,
         TypeOK, Handlers
    <2> QED
      BY <1>2, <2>2, <2>3 DEF Alone
  <1>4. ASSUME NEW e, Handle(e)
        PROVE  Alone'
    BY <1>2, <1>4 DEF Handle, Hold, stores, Alone, TypeOK, Handlers
  <1>5. CASE Crash
    BY <1>5 DEF Crash, Alone, Handlers
  <1>6. CASE fetching' \in {fetching, NoRow} /\ UNCHANGED stores
    BY <1>2, <1>6 DEF stores, Alone
  <1> QED
    BY <1>1, <1>2, <1>3, <1>4, <1>5, <1>6 DEF Next, vars, Say, Withdraw, Undecryptable,
       HandleNext, HandleAgain, HandleProtectingReply, HistoryArrives, Receipt, SendHere,
       StoreSent, EditMessage, DeleteHere, StoreDeletion, ClearChat, BeginDownload,
       FinishDownload, DownloadFails, BeginResolve, FinishResolve

LEMMA KeepAlways == Spec /\ Apart /\ OnlyLiveWrites => []EveryVersionKept
  <1>1. Init => KeepInv
    BY DEF Init, KeepInv, Alone, WriterInv, EveryVersionKept, Handlers
  <1>2. TypeOK /\ BaseInv /\ SoundInv /\ KeepInv /\ OnlyLiveWrites /\ [Next]_vars
           => KeepInv' /\ OnlyLiveWrites'
    BY TextsStep, WriterStep, AloneStep, GivenKept DEF KeepInv, OnlyLiveWrites
  <1>3. KeepInv => EveryVersionKept
    BY DEF KeepInv
  <1> QED
    BY <1>1, <1>2, <1>3, SoundAlways, PTL DEF Spec

(* Every text a message has shown is the one it shows or among its earlier  *)
(* versions, as long as the handler of live events is the only writer of    *)
(* its texts, whatever is sent again, protected, cleared or restarted.      *)
THEOREM TextsAreKept == Spec => []SaidIsKept
  <1>1. OnlyLiveWrites => Apart
    BY DEF OnlyLiveWrites, Apart
  <1>2. ~OnlyLiveWrites /\ [Next]_vars => ~OnlyLiveWrites'
    BY GivenKept DEF OnlyLiveWrites
  <1>3. ~OnlyLiveWrites => SaidIsKept
    BY DEF SaidIsKept
  <1>4. EveryVersionKept => SaidIsKept
    BY DEF SaidIsKept
  <1> QED
    BY <1>1, <1>2, <1>3, <1>4, KeepAlways, PTL DEF Spec

-----------------------------------------------------------------------------
(* The row implements MessageLife.                                          *)

LEMMA FollowsIsLater ==
    ASSUME NEW p \in Phases, NEW q \in Phases, Follows(p, q)
    PROVE  q \in Life!Later(p)
  BY DEF Phases, Follows, Life!Later

LEMMA LifeOfRow ==
    ASSUME NEW r \in Row, WellSaid(r)
    PROVE  /\ PhaseOf(r) \in Life!Phases \ {"absent"}
           /\ r.body \in Life!Says(PhaseOf(r))
           /\ Rank[r.status] \in Life!Marks
  <1>1. PhaseOf(r) \in Phases
    BY PhaseType
  <1>2. r.body \in Life!Says(PhaseOf(r))
    BY <1>1, SaysItsPhase DEF Life!Says, Phases
  <1>3. Rank[r.status] \in Life!Marks
    BY RowFields, RankType DEF Life!Marks
  <1> QED
    BY <1>1, <1>2, <1>3 DEF Phases, Life!Phases

LEMMA LifeStep ==
    ASSUME TypeOK, TypeOK', BaseInv, SoundInv, [Next]_vars
    PROVE  [Life!Next]_(Life!vars)
  <1>1. Stored(row) => row \in Row
    BY DEF TypeOK, Stored
  <1>2. CASE ~Stored(row')
    <2>1. CASE Stored(row)
      BY <1>2, <2>1 DEF Phase, Life!Next, Life!Clear
    <2>2. CASE ~Stored(row)
      BY <1>2, <2>2 DEF Phase, Life!vars, Stored
    <2> QED
      BY <2>1, <2>2
  <1>3. CASE Stored(row')
    <2>1. RowKeeps
      BY <1>3, RowStep DEF Cleared, Stored
    <2>2. row' \in Row /\ WellSaid(row')
      BY <1>3, <2>1 DEF RowKeeps, RowSound, TypeOK, Stored
    <2>3. /\ PhaseOf(row') \in Life!Phases \ {"absent"} /\ row'.body \in Life!Says(PhaseOf(row'))
          /\ Rank[row'.status] \in Life!Marks
      BY <2>2, LifeOfRow
    <2>4. CASE ~Stored(row)
      <3>1. Life!Appear
        BY <1>3, <2>3, <2>4 DEF Life!Appear, Phase
      <3> QED
        BY <3>1 DEF Life!Next
    <2>5. CASE Stored(row)
      <3>1. Follows(PhaseOf(row), PhaseOf(row')) /\ Rank[row'.status] >= Rank[row.status]
        BY <2>1, <2>5 DEF RowKeeps, Onward
      <3>2. PhaseOf(row') \in Life!Later(PhaseOf(row)) /\ PhaseOf(row) # "absent"
        BY <1>1, <2>2, <2>5, <3>1, PhaseType, FollowsIsLater DEF Phases
      <3>3. Life!Advance
        BY <1>3, <2>3, <2>5, <3>1, <3>2 DEF Life!Advance, Phase
      <3> QED
        BY <3>3 DEF Life!Next
    <2> QED
      BY <2>4, <2>5
  <1> QED
    BY <1>2, <1>3

(* Where no download runs across a clear, the index shows a message whose   *)
(* life goes as MessageLife promises, for any interleaving of the handlers, *)
(* the RPC methods, receipts, downloads, resolvers and restarts.            *)
THEOREM LifeImplemented == Spec /\ Apart => ImplementsLife
  <1>1. Init => Life!Init
    BY DEF Init, Phase, Life!Init, Stored
  <1>2. TypeOK /\ TypeOK' /\ BaseInv /\ SoundInv /\ [Next]_vars => [Life!Next]_(Life!vars)
    BY LifeStep
  <1> QED
    BY <1>1, <1>2, SoundAlways, PTL DEF Spec, ImplementsLife, Life!Spec

=============================================================================
