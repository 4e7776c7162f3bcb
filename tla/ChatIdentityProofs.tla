------------------------- MODULE ChatIdentityProofs -------------------------
(* Proofs about ChatIdentity, for any copies, callers and bounds: the type  *)
(* invariant with its foreign keys, what linking keeps, where nothing is    *)
(* stored, and that the message of the canonical conversation implements    *)
(* MessageLife.                                                             *)
EXTENDS ChatIdentity, MessageMergeProofs

-----------------------------------------------------------------------------
(* Calls and rows.                                                          *)

LEMMA KeysAre == Keys = {"pn", "lid"}
  BY DEF Keys

LEMMA CallFields ==
    ASSUME NEW d \in Call
    PROVE  /\ d.at \in Keys
           /\ d.do \in {"upsert", "edit", "vote", "react", "revoke", "receipt", "delete",
                        "clear", "link"}
           /\ d.do = "upsert" => d.copy \in Copies
           /\ d.do = "edit" => d.version \in Versions \ {1}
           /\ d.do \in {"vote", "react"} => d.stamp \in Stamps
  BY DEF Call

LEMMA CopyIs ==
    ASSUME NEW m \in Copies
    PROVE  m \in Row /\ ~m.revoked /\ WellSaid(m)
  BY IdentityAssumption

LEMMA RowIs ==
    ASSUME TypeOK, NEW k \in Keys, Stored(k)
    PROVE  rows[k] \in Row
  BY DEF TypeOK, Stored

LEMMA NoRowIs ==
    ASSUME NEW r \in Row
    PROVE  r # NoRow
  BY IdentityAssumption

LEMMA TakenCall ==
    ASSUME TypeOK, NEW c \in Callers, NEW what, Takes(c, what)
    PROVE  /\ call[c] \in Call /\ call[c] # NoCall /\ call[c].do = what
           /\ call' = [call EXCEPT ![c] = NoCall]
           /\ call' \in [Callers -> Call \cup {NoCall}]
           /\ mine' = mine /\ calls' = calls
  BY DEF TypeOK, Takes

-----------------------------------------------------------------------------
(* The type invariant.                                                      *)

(* The foreign keys: what hangs off a conversation or a message has it.     *)
ForeignKeys ==
    \A k \in Keys :
        /\ Stored(k) \/ votes[k] # Never => k \in chats
        /\ reactions[k] # Never => Stored(k)

CallTypes  == call \in [Callers -> Call \cup {NoCall}] /\ calls \in 0..MaxCalls /\ mine \in BOOLEAN
TableTypes ==
    /\ linked \in BOOLEAN /\ chats \subseteq Keys
    /\ rows \in [Keys -> Row \cup {NoRow}]
    /\ revisions \in [Keys -> Seq(Versions)]
    /\ votes \in [Keys -> 0..MaxStamp] /\ reactions \in [Keys -> 0..MaxStamp]
HistoryTypes == recorded \subseteq Versions /\ late \in BOOLEAN

LEMMA TypeParts == TypeOK <=> CallTypes /\ TableTypes /\ HistoryTypes /\ ForeignKeys
  BY DEF TypeOK, CallTypes, TableTypes, HistoryTypes, ForeignKeys

LEMMA TypePartsNext == TypeOK' <=> CallTypes' /\ TableTypes' /\ HistoryTypes' /\ ForeignKeys'
  BY DEF TypeOK, CallTypes, TableTypes, HistoryTypes, ForeignKeys

LEMMA TypeInit == Init => TypeOK
  <1> SUFFICES ASSUME Init PROVE TypeOK
    OBVIOUS
  <1>1. MaxStamp \in Nat /\ MaxCalls \in Nat
    BY IdentityAssumption
  <1>2. revisions \in [Keys -> Seq(Versions)]
    <2>1. <<>> \in Seq(Versions)
      OBVIOUS
    <2> QED
      BY <2>1, Zenon DEF Init
  <1>3. CallTypes /\ HistoryTypes
    <2>1. call \in [Callers -> Call \cup {NoCall}] /\ calls = 0 /\ mine \in BOOLEAN
      BY Zenon DEF Init
    <2>2. 0 \in 0..MaxCalls
      BY <1>1
    <2> QED
      BY <2>1, <2>2, Zenon DEF Init, CallTypes, HistoryTypes
  <1>4. TableTypes
    <2>1. Never \in 0..MaxStamp
      BY <1>1 DEF Never
    <2>2. /\ rows \in [Keys -> Row \cup {NoRow}]
          /\ votes \in [Keys -> 0..MaxStamp] /\ reactions \in [Keys -> 0..MaxStamp]
      BY <2>1, Zenon DEF Init
    <2> QED
      BY <1>2, <2>2 DEF Init, TableTypes
  <1>5. ForeignKeys
    BY DEF Init, ForeignKeys, Stored
  <1> QED
    BY <1>3, <1>4, <1>5, TypeParts

LEMMA HistoryStep ==
    ASSUME TypeOK, NEW k \in Keys, Writes(k), revisions' \in [Keys -> Seq(Versions)]
    PROVE  HistoryTypes'
  <1>1. revisions'[k] \in Seq(Versions)
    OBVIOUS
  <1>2. \A i \in DOMAIN revisions'[k] : revisions'[k][i] \in Versions
    BY <1>1
  <1> QED
    BY <1>2 DEF TypeOK, Writes, HistoryTypes

LEMMA BeginStep ==
    ASSUME TypeOK, NEW c \in Callers, NEW d \in Call, Begin(c, d)
    PROVE  TypeOK'
  <1>1. calls' \in 0..MaxCalls
    BY IdentityAssumption DEF TypeOK, Begin
  <1>2. call' \in [Callers -> Call \cup {NoCall}]
    BY DEF TypeOK, Begin
  <1> QED
    BY <1>1, <1>2 DEF TypeOK, Begin, tables, history, Stored

LEMMA ResolveStep ==
    ASSUME TypeOK, NEW c \in Callers, Resolve(c) \/ ResolveClear(c) \/ ResolveLink(c)
    PROVE  \E d \in Call :
             /\ Begin(c, d)
             /\ d.do = "upsert" => Fits(d.copy)
             /\ d.do = "edit" => mine
  <1>1. \A k \in Keys : Canonical(k) \in Keys
    BY DEF Canonical, Keys
  <1>2. \A k \in Keys : \A m \in Copies :
          /\ [do |-> "upsert", at |-> Canonical(k), copy |-> m] \in Call
          /\ [do |-> "upsert", at |-> Canonical(k), copy |-> m].do = "upsert"
          /\ [do |-> "upsert", at |-> Canonical(k), copy |-> m].copy = m
    BY <1>1 DEF Call
  <1>3. \A k \in Keys : \A v \in Versions \ {1} :
          /\ [do |-> "edit", at |-> Canonical(k), version |-> v] \in Call
          /\ [do |-> "edit", at |-> Canonical(k), version |-> v].do = "edit"
    BY <1>1 DEF Call
  <1>4. \A k \in Keys : \A what \in {"vote", "react"}, t \in Stamps :
          /\ [do |-> what, at |-> Canonical(k), stamp |-> t] \in Call
          /\ [do |-> what, at |-> Canonical(k), stamp |-> t].do \in {"vote", "react"}
    BY <1>1 DEF Call
  <1>5. \A k \in Keys : \A what \in {"revoke", "receipt", "delete"} :
          /\ [do |-> what, at |-> Canonical(k)] \in Call
          /\ [do |-> what, at |-> Canonical(k)].do = what
    BY <1>1 DEF Call
  <1>6. \A k \in Keys : \A what \in {"clear", "link"} :
          /\ [do |-> what, at |-> k] \in Call
          /\ [do |-> what, at |-> k].do = what
    BY DEF Call
  <1>7. CASE Resolve(c)
    BY <1>2, <1>3, <1>4, <1>5, <1>7 DEF Resolve
  <1>8. CASE ResolveClear(c)
    BY <1>6, <1>8 DEF ResolveClear
  <1>9. CASE ResolveLink(c)
    BY <1>6, <1>9 DEF ResolveLink, Keys
  <1> QED
    BY <1>7, <1>8, <1>9

LEMMA CallsAfter ==
    ASSUME TypeOK, NEW c \in Callers, NEW what, Takes(c, what)
    PROVE  CallTypes'
  BY TakenCall DEF CallTypes, TypeOK

LEMMA UpsertTypes ==
    ASSUME TypeOK, NEW c \in Callers, UpsertMessage(c)
    PROVE  TypeOK'
  <1> DEFINE k == call[c].at
             m == call[c].copy
             q == IF Stored(k) THEN Upserted(rows[k], m) ELSE m
  <1>1. Takes(c, "upsert")
    BY DEF UpsertMessage
  <1>2. k \in Keys /\ m \in Row
    BY <1>1, TakenCall, CallFields, CopyIs
  <1>3. q \in Row /\ q # NoRow
    BY <1>2, RowIs, UpsertedType, NoRowIs
  <1>4. rows' = [rows EXCEPT ![k] = q] /\ chats' = chats \cup {k}
    BY DEF UpsertMessage
  <1>5. votes' \in [Keys -> 0..MaxStamp] /\ \A j \in Keys : votes'[j] # Never => votes[j] # Never
    BY <1>2, IdentityAssumption DEF UpsertMessage, TypeOK, VotesAfter, Never
  <1>6. linked' = linked /\ revisions' = revisions /\ reactions' = reactions
    BY DEF UpsertMessage
  <1>7. rows' \in [Keys -> Row \cup {NoRow}] /\ \A j \in Keys : Stored(j)' <=> Stored(j) \/ j = k
    <2> HIDE DEF k, q
    <2> QED
      BY <1>2, <1>3, <1>4 DEF TypeOK, Stored
  <1>8. TableTypes'
    BY <1>2, <1>4, <1>5, <1>6, <1>7 DEF TypeOK, TableTypes
  <1>9. ForeignKeys'
    BY <1>2, <1>4, <1>5, <1>6, <1>7 DEF TypeOK, ForeignKeys
  <1>10. HistoryTypes'
    BY <1>2, <1>6, HistoryStep DEF UpsertMessage, TypeOK
  <1> QED
    BY <1>1, <1>8, <1>9, <1>10, CallsAfter, TypePartsNext

LEMMA RevokeTypes ==
    ASSUME TypeOK, NEW c \in Callers, MarkRevoked(c)
    PROVE  TypeOK'
  <1> DEFINE k == call[c].at
  <1>1. Takes(c, "revoke")
    BY DEF MarkRevoked
  <1>2. k \in Keys
    BY <1>1, TakenCall, CallFields
  <1>3. linked' = linked /\ chats' = chats /\ reactions' = reactions /\ Writes(k)
    BY DEF MarkRevoked
  <1>4. TableTypes' /\ ForeignKeys'
    <2>1. CASE Stored(k)
      <3>1. /\ RevokedRow(rows[k]) \in Row /\ RevokedRow(rows[k]) # NoRow
            /\ Recorded(revisions[k], rows[k]) \in Seq(Versions)
        BY <1>2, <2>1, RowIs, RevokedType, NoRowIs, RecordedType DEF TypeOK
      <3>2. /\ revisions' = [revisions EXCEPT ![k] = Recorded(revisions[k], rows[k])]
            /\ rows' = [rows EXCEPT ![k] = RevokedRow(rows[k])]
            /\ votes' = [votes EXCEPT ![k] = Never]
        BY <2>1 DEF MarkRevoked
      <3> HIDE DEF k
      <3>3. /\ rows' \in [Keys -> Row \cup {NoRow}]
            /\ revisions' \in [Keys -> Seq(Versions)]
            /\ \A j \in Keys : Stored(j)' <=> Stored(j)
        BY <1>2, <2>1, <3>1, <3>2 DEF TypeOK, Stored
      <3>4. votes' \in [Keys -> 0..MaxStamp] /\ \A j \in Keys : votes'[j] # Never => votes[j] # Never
        BY <1>2, <3>2, IdentityAssumption DEF TypeOK, Never
      <3> QED
        BY <1>3, <3>3, <3>4 DEF TypeOK, TableTypes, ForeignKeys
    <2>2. CASE ~Stored(k)
      <3>1. revisions' = revisions /\ rows' = rows /\ votes' = votes
        BY <2>2 DEF MarkRevoked
      <3> QED
        BY <1>3, <3>1 DEF TypeOK, TableTypes, ForeignKeys, Stored
    <2> QED
      BY <2>1, <2>2
  <1>5. HistoryTypes'
    BY <1>2, <1>3, <1>4, HistoryStep DEF TableTypes
  <1> QED
    BY <1>1, <1>4, <1>5, CallsAfter, TypePartsNext

LEMMA EditTypes ==
    ASSUME TypeOK, NEW c \in Callers, EditMessage(c)
    PROVE  TypeOK'
  <1> DEFINE k == call[c].at
             v == call[c].version
  <1>1. Takes(c, "edit")
    BY DEF EditMessage
  <1>2. k \in Keys /\ v \in Versions
    BY <1>1, TakenCall, CallFields
  <1>3. /\ linked' = linked /\ chats' = chats /\ votes' = votes /\ reactions' = reactions
        /\ Writes(k)
    BY DEF EditMessage
  <1>4. TableTypes' /\ ForeignKeys'
    <2>1. CASE Stored(k) /\ ~rows[k].revoked
      <3>1. /\ EditedRow(rows[k], v) \in Row /\ EditedRow(rows[k], v) # NoRow
            /\ Recorded(revisions[k], rows[k]) \in Seq(Versions)
        BY <1>2, <2>1, RowIs, EditedType, NoRowIs, RecordedType DEF TypeOK
      <3>2. /\ revisions' = [revisions EXCEPT ![k] = Recorded(revisions[k], rows[k])]
            /\ rows' = [rows EXCEPT ![k] = EditedRow(rows[k], v)]
        BY <2>1 DEF EditMessage
      <3> HIDE DEF k, v
      <3>3. /\ rows' \in [Keys -> Row \cup {NoRow}]
            /\ revisions' \in [Keys -> Seq(Versions)]
            /\ \A j \in Keys : Stored(j)' <=> Stored(j)
        BY <1>2, <2>1, <3>1, <3>2 DEF TypeOK, Stored
      <3> QED
        BY <1>3, <3>3 DEF TypeOK, TableTypes, ForeignKeys
    <2>2. CASE ~(Stored(k) /\ ~rows[k].revoked)
      <3>1. revisions' = revisions /\ rows' = rows
        BY <2>2 DEF EditMessage
      <3> QED
        BY <1>3, <3>1 DEF TypeOK, TableTypes, ForeignKeys, Stored
    <2> QED
      BY <2>1, <2>2
  <1>5. HistoryTypes'
    BY <1>2, <1>3, <1>4, HistoryStep DEF TableTypes
  <1> QED
    BY <1>1, <1>4, <1>5, CallsAfter, TypePartsNext

LEMMA ReceiptTypes ==
    ASSUME TypeOK, NEW c \in Callers, UpdateReceipt(c)
    PROVE  TypeOK'
  <1> DEFINE k == call[c].at
  <1>1. Takes(c, "receipt")
    BY DEF UpdateReceipt
  <1>2. k \in Keys
    BY <1>1, TakenCall, CallFields
  <1>3. /\ linked' = linked /\ chats' = chats /\ votes' = votes /\ reactions' = reactions
        /\ revisions' = revisions /\ Writes(k)
    BY DEF UpdateReceipt
  <1>4. rows' \in [Keys -> Row \cup {NoRow}] /\ \A j \in Keys : Stored(j)' <=> Stored(j)
    <2>1. CASE Stored(k)
      <3>1. ReceiptRow(rows[k], "read") \in Row /\ ReceiptRow(rows[k], "read") # NoRow
        BY <1>2, <2>1, RowIs, ReceiptType, StatusRank, NoRowIs
      <3>2. rows' = [rows EXCEPT ![k] = ReceiptRow(rows[k], "read")]
        BY <2>1 DEF UpdateReceipt
      <3> HIDE DEF k
      <3> QED
        BY <1>2, <2>1, <3>1, <3>2 DEF TypeOK, Stored
    <2>2. CASE ~Stored(k)
      BY <2>2 DEF UpdateReceipt, TypeOK, Stored
    <2> QED
      BY <2>1, <2>2
  <1>5. TableTypes' /\ ForeignKeys'
    BY <1>3, <1>4 DEF TypeOK, TableTypes, ForeignKeys
  <1>6. HistoryTypes'
    BY <1>2, <1>3, <1>5, HistoryStep DEF TableTypes
  <1> QED
    BY <1>1, <1>5, <1>6, CallsAfter, TypePartsNext

LEMMA VoteTypes ==
    ASSUME TypeOK, NEW c \in Callers, SavePollVote(c)
    PROVE  TypeOK'
  <1> DEFINE k == call[c].at
             t == call[c].stamp
  <1>1. Takes(c, "vote")
    BY DEF SavePollVote
  <1>2. k \in Keys /\ t \in 0..MaxStamp
    BY <1>1, TakenCall, CallFields, IdentityAssumption DEF Stamps
  <1>3. /\ linked' = linked /\ chats' = chats /\ rows' = rows /\ reactions' = reactions
        /\ revisions' = revisions /\ Writes(k)
        /\ votes' = votes \/ (k \in chats /\ votes' = [votes EXCEPT ![k] = t])
    BY DEF SavePollVote
  <1> HIDE DEF k, t
  <1>4. /\ votes' \in [Keys -> 0..MaxStamp]
        /\ \A j \in Keys : votes'[j] # Never => votes[j] # Never \/ j \in chats
    BY <1>2, <1>3 DEF TypeOK
  <1>5. TableTypes' /\ ForeignKeys'
    BY <1>3, <1>4 DEF TypeOK, TableTypes, ForeignKeys, Stored
  <1>6. HistoryTypes'
    BY <1>2, <1>3, <1>5, HistoryStep DEF TableTypes
  <1> QED
    BY <1>1, <1>5, <1>6, CallsAfter, TypePartsNext

LEMMA ReactTypes ==
    ASSUME TypeOK, NEW c \in Callers, UpsertReaction(c)
    PROVE  TypeOK'
  <1> DEFINE k == call[c].at
             t == call[c].stamp
  <1>1. Takes(c, "react")
    BY DEF UpsertReaction
  <1>2. k \in Keys /\ t \in 0..MaxStamp
    BY <1>1, TakenCall, CallFields, IdentityAssumption DEF Stamps
  <1>3. /\ linked' = linked /\ chats' = chats /\ rows' = rows /\ votes' = votes
        /\ revisions' = revisions /\ Writes(k)
        /\ reactions' = reactions \/ (Stored(k) /\ reactions' = [reactions EXCEPT ![k] = t])
    BY DEF UpsertReaction
  <1> HIDE DEF k, t
  <1>4. /\ reactions' \in [Keys -> 0..MaxStamp]
        /\ \A j \in Keys : reactions'[j] # Never => reactions[j] # Never \/ Stored(j)
    BY <1>2, <1>3 DEF TypeOK
  <1>5. TableTypes' /\ ForeignKeys'
    BY <1>3, <1>4 DEF TypeOK, TableTypes, ForeignKeys, Stored
  <1>6. HistoryTypes'
    BY <1>2, <1>3, <1>5, HistoryStep DEF TableTypes
  <1> QED
    BY <1>1, <1>5, <1>6, CallsAfter, TypePartsNext

(* An emptied conversation has nothing that could hang off it.              *)
LEMMA EmptyTypes ==
    ASSUME TypeOK, NEW k \in Keys, Empty(k), linked' \in BOOLEAN,
           chats' \subseteq Keys, \A j \in chats : j = k \/ j \in chats'
    PROVE  TableTypes' /\ ForeignKeys' /\ HistoryTypes'
  <1>1. /\ rows' = [rows EXCEPT ![k] = NoRow] /\ revisions' = [revisions EXCEPT ![k] = <<>>]
        /\ votes' = [votes EXCEPT ![k] = Never] /\ reactions' = [reactions EXCEPT ![k] = Never]
        /\ recorded' = {} /\ late' = late
    BY DEF Empty
  <1>2. <<>> \in Seq(Versions)
    OBVIOUS
  <1>3. rows' \in [Keys -> Row \cup {NoRow}] /\ revisions' \in [Keys -> Seq(Versions)]
    BY <1>1, <1>2 DEF TypeOK
  <1>4. votes' \in [Keys -> 0..MaxStamp] /\ reactions' \in [Keys -> 0..MaxStamp]
    BY <1>1, IdentityAssumption DEF TypeOK, Never
  <1>5. \A j \in Keys :
           /\ votes'[j] # Never => j # k /\ votes[j] # Never
           /\ reactions'[j] # Never => j # k /\ reactions[j] # Never
           /\ Stored(j)' <=> j # k /\ Stored(j)
    BY <1>1 DEF TypeOK, Stored
  <1>6. TableTypes' /\ HistoryTypes'
    BY <1>1, <1>3, <1>4 DEF TypeOK, TableTypes, HistoryTypes
  <1>7. ForeignKeys'
    BY <1>5 DEF TypeOK, ForeignKeys
  <1> QED
    BY <1>6, <1>7

LEMMA DeleteTypes ==
    ASSUME TypeOK, NEW c \in Callers, DeleteChat(c)
    PROVE  TypeOK'
  <1>1. Takes(c, "delete") /\ Empty(call[c].at) /\ linked' = FALSE
    BY DEF DeleteChat
  <1>2. call[c].at \in Keys
    BY <1>1, TakenCall, CallFields
  <1>3. chats' \subseteq Keys /\ \A j \in chats : j = call[c].at \/ j \in chats'
    BY DEF DeleteChat, TypeOK
  <1> QED
    BY <1>1, <1>2, <1>3, EmptyTypes, CallsAfter, TypePartsNext

LEMMA ClearTypes ==
    ASSUME TypeOK, NEW c \in Callers, ClearChatMessages(c)
    PROVE  TypeOK'
  <1>1. Takes(c, "clear") /\ Empty(call[c].at) /\ linked' = linked /\ chats' = chats
    BY DEF ClearChatMessages
  <1>2. call[c].at \in Keys
    BY <1>1, TakenCall, CallFields
  <1>3. linked' \in BOOLEAN /\ chats' \subseteq Keys
    BY <1>1 DEF TypeOK
  <1> QED
    BY <1>1, <1>2, <1>3, EmptyTypes, CallsAfter, TypePartsNext

LEMMA MovedRowIs ==
    ASSUME TypeOK
    PROVE  /\ ~Stored("pn") => MovedRow = rows["lid"]
           /\ Stored("pn") /\ ~Stored("lid") => MovedRow = Redacted(rows["pn"])
           /\ Stored("pn") /\ Stored("lid") => MovedRow = Merged(rows["lid"], rows["pn"])
           /\ MovedRow \in Row \cup {NoRow}
           /\ MovedRow # NoRow <=> Stored("pn") \/ Stored("lid")
  <1>1. CASE ~Stored("pn")
    BY <1>1 DEF MovedRow, TypeOK, Keys, Stored
  <1>2. CASE Stored("pn") /\ ~Stored("lid")
    <2>1. Redacted(rows["pn"]) \in Row /\ Redacted(rows["pn"]) # NoRow
      BY <1>2, KeysAre, RowIs, PlaceholderType, NoRowIs
    <2> QED
      BY <1>2, <2>1 DEF MovedRow
  <1>3. CASE Stored("pn") /\ Stored("lid")
    <2>1. Merged(rows["lid"], rows["pn"]) \in Row /\ Merged(rows["lid"], rows["pn"]) # NoRow
      BY <1>3, KeysAre, RowIs, MergedType, NoRowIs
    <2> QED
      BY <1>3, <2>1 DEF MovedRow
  <1> QED
    BY <1>1, <1>2, <1>3

(* The vote that counts after a link is one of the two, and the later one   *)
(* unless the poll was taken back or protected.                             *)
LEMMA MovedVoteIs ==
    ASSUME TypeOK
    PROVE  /\ MovedVote \in 0..MaxStamp
           /\ MovedVote # Never => votes["pn"] # Never \/ votes["lid"] # Never
           /\ Stored("pn") => MovedRow.revoked \/ MovedRow.kind = "view_once"
                \/ MovedVote >= votes["pn"]
  <1>1. votes["pn"] \in 0..MaxStamp /\ votes["lid"] \in 0..MaxStamp
    BY DEF TypeOK, Keys
  <1>2. VotesAfter("lid", MovedRow) \in {Never, votes["lid"]}
    BY DEF VotesAfter
  <1>3. MaxStamp \in Nat /\ Never = 0
    BY IdentityAssumption DEF Never
  <1>4. Stored("pn") => MovedRow # NoRow
    BY MovedRowIs
  <1> QED
    BY <1>1, <1>2, <1>3, <1>4 DEF MovedVote

LEMMA LinkTypes ==
    ASSUME TypeOK, NEW c \in Callers, LinkChatAliases(c)
    PROVE  TypeOK'
  <1>1. /\ Takes(c, "link") /\ linked' = TRUE /\ chats' = MovedChats
        /\ rows' = [pn |-> NoRow, lid |-> MovedRow]
        /\ revisions' = [revisions EXCEPT !["pn"] = <<>>]
        /\ votes' = [pn |-> Never, lid |-> MovedVote]
        /\ reactions' = [pn |-> Never, lid |-> MovedReaction]
        /\ recorded' = recorded /\ late' = late
    BY DEF LinkChatAliases, history
  <1>2. revisions' \in [Keys -> Seq(Versions)]
    <2>1. <<>> \in Seq(Versions)
      OBVIOUS
    <2> QED
      BY <1>1, <2>1, KeysAre DEF TypeOK
  <1>3. rows' \in [Keys -> Row \cup {NoRow}]
    BY <1>1, KeysAre, MovedRowIs
  <1>4. votes' \in [Keys -> 0..MaxStamp]
    BY <1>1, KeysAre, MovedVoteIs, IdentityAssumption DEF Never
  <1>5. /\ MovedReaction \in 0..MaxStamp
        /\ MovedReaction # Never => reactions["pn"] # Never \/ reactions["lid"] # Never
    BY DEF MovedReaction, TypeOK, Keys
  <1>6. reactions' \in [Keys -> 0..MaxStamp]
    BY <1>1, <1>5, KeysAre, IdentityAssumption DEF Never
  <1>7. chats' \subseteq Keys /\ \A j \in chats : j # "pn" => j \in chats'
    BY <1>1, KeysAre DEF MovedChats, TypeOK
  <1>8. TableTypes' /\ HistoryTypes'
    BY <1>1, <1>2, <1>3, <1>4, <1>6, <1>7 DEF TypeOK, TableTypes, HistoryTypes
  <1>9. ForeignKeys'
    <2>1. \A k \in Keys :
             /\ Stored(k) \/ votes[k] # Never => k \in chats
             /\ reactions[k] # Never => Stored(k)
      BY DEF TypeOK
    <2>2. "pn" \in chats \/ "lid" \in chats => "lid" \in chats'
      BY <1>1 DEF MovedChats
    <2>3. /\ rows'["pn"] = NoRow /\ rows'["lid"] = MovedRow
          /\ votes'["pn"] = Never /\ votes'["lid"] = MovedVote
          /\ reactions'["pn"] = Never /\ reactions'["lid"] = MovedReaction
      BY <1>1
    <2>4. /\ Stored("lid") \/ Stored("pn") \/ votes["lid"] # Never \/ votes["pn"] # Never
               => "lid" \in chats'
          /\ reactions["lid"] # Never \/ reactions["pn"] # Never
               => Stored("lid") \/ Stored("pn")
      BY <2>1, <2>2, KeysAre
    <2>5. MovedRow # NoRow \/ MovedVote # Never => "lid" \in chats'
      BY <2>4, MovedRowIs, MovedVoteIs
    <2>6. MovedReaction # Never => MovedRow # NoRow
      BY <1>5, <2>4, MovedRowIs
    <2> QED
      BY <2>3, <2>5, <2>6, KeysAre DEF ForeignKeys, Stored
  <1> QED
    BY <1>1, <1>8, <1>9, CallsAfter, TypePartsNext

LEMMA TypeStep == TypeOK /\ [Next]_vars => TypeOK'
  <1> SUFFICES ASSUME TypeOK, [Next]_vars PROVE TypeOK'
    OBVIOUS
  <1>1. CASE Next
    <2>1. PICK c \in Callers :
            \/ Resolve(c) \/ ResolveClear(c) \/ ResolveLink(c)
            \/ UpsertMessage(c) \/ MarkRevoked(c) \/ EditMessage(c) \/ UpdateReceipt(c)
            \/ SavePollVote(c) \/ UpsertReaction(c)
            \/ DeleteChat(c) \/ ClearChatMessages(c) \/ LinkChatAliases(c)
      BY <1>1 DEF Next
    <2>2. CASE Resolve(c) \/ ResolveClear(c) \/ ResolveLink(c)
      BY <2>2, ResolveStep, BeginStep
    <2>3. CASE ~(Resolve(c) \/ ResolveClear(c) \/ ResolveLink(c))
      BY <2>1, <2>3, UpsertTypes, RevokeTypes, EditTypes, ReceiptTypes, VoteTypes,
         ReactTypes, DeleteTypes, ClearTypes, LinkTypes
    <2> QED
      BY <2>2, <2>3
  <1>2. CASE UNCHANGED vars
    BY <1>2 DEF vars, tables, history, TypeOK, Stored
  <1> QED
    BY <1>1, <1>2

(* Every variable keeps to its type and the foreign keys hold, for any      *)
(* callers, copies and bounds: nothing is left hanging off a conversation   *)
(* or a message that a link, a clear or a deletion took away.               *)
THEOREM TypeCorrect == Spec => []TypeOK
  BY TypeInit, TypeStep, PTL DEF Spec

-----------------------------------------------------------------------------
(* The inductive invariant. What a row says is not enough: whether an       *)
(* upsert can take a tick back, or an edit unprotect a message, depends on  *)
(* who wrote it and on what the calls under way will write.                 *)

Sound(r) ==
    /\ WellSaid(r)
    /\ IF mine THEN r.kind # "view_once" /\ r.status # "received" ELSE r.status # "sent"

RowInv  == \A k \in Keys : Stored(k) => Sound(rows[k])
CallInv == \A c \in Callers : call[c] # NoCall =>
               /\ call[c].do = "upsert" => Fits(call[c].copy)
               /\ call[c].do = "edit" => mine
IInv    == TypeOK /\ RowInv /\ CallInv

(* From a row to a later one of the same message.                           *)
Advances(r, q) ==
    /\ Sound(q)
    /\ Follows(PhaseOf(r), PhaseOf(q))
    /\ Rank[q.status] >= Rank[r.status]

(* What one step does to the row of one conversation.                       *)
Stays(k)     == rows'[k] = rows[k]
Goes(k)      == rows'[k] = NoRow
Comes(k)     == ~Stored(k) /\ rows'[k] \in Row /\ Sound(rows'[k])
MovesOn(k)   == Stored(k) /\ rows'[k] \in Row /\ Advances(rows[k], rows'[k])
RowStep(k)   == Stays(k) \/ Goes(k) \/ Comes(k) \/ MovesOn(k)

LEMMA CopySound ==
    ASSUME NEW m \in Copies, Fits(m)
    PROVE  Sound(m)
  BY CopyIs DEF Fits, Sound

LEMMA UpsertAdvances ==
    ASSUME NEW r \in Row, Sound(r), NEW m \in Copies, Fits(m)
    PROVE  Advances(r, Upserted(r, m))
  <1> DEFINE u == Upserted(r, m)
  <1>1. /\ m \in Row /\ ~m.revoked /\ WellSaid(m) /\ WellSaid(r)
    BY CopyIs DEF Sound
  <1>2. /\ WellSaid(u) /\ Follows(PhaseOf(r), PhaseOf(u))
        /\ u.status = LaterStatus(r.status, m.status)
        /\ u.kind = "view_once" => "view_once" \in {r.kind, m.kind}
    BY <1>1, UpsertedWell
  <1>3. /\ r.status \in Statuses /\ m.status \in Statuses
        /\ u.status \in {r.status, m.status}
    BY <1>1, <1>2, RowFields, LaterStatusType
  <1>4. r.status = "sent" => m.status # "received"
    BY DEF Sound, Fits
  <1>5. Rank[u.status] >= Rank[r.status]
    BY <1>2, <1>3, <1>4, LaterStatusRank
  <1>6. Sound(u)
    BY <1>2, <1>3 DEF Sound, Fits
  <1> QED
    BY <1>2, <1>5, <1>6 DEF Advances

LEMMA SameRank ==
    ASSUME NEW s \in Statuses
    PROVE  Rank[s] >= Rank[s]
  BY RankType

LEMMA EditAdvances ==
    ASSUME NEW r \in Row, Sound(r), ~r.revoked, mine, NEW v \in Versions \ {1}
    PROVE  Advances(r, EditedRow(r, v))
  BY EditedWell, RowFields, SameRank DEF Sound, Advances

LEMMA RevokeAdvances ==
    ASSUME NEW r \in Row, Sound(r)
    PROVE  Advances(r, RevokedRow(r))
  BY RevokedWell, RowFields, SameRank DEF Sound, Advances

LEMMA ReceiptAdvances ==
    ASSUME NEW r \in Row, Sound(r)
    PROVE  Advances(r, ReceiptRow(r, "read"))
  <1>1. r.status \in Statuses /\ "read" \in Statuses
    BY RowFields, StatusRank
  <1>2. LaterStatus(r.status, "read") \in {r.status, "read"}
    BY <1>1, LaterStatusType
  <1>3. Rank[LaterStatus(r.status, "read")] >= Rank[r.status]
    BY <1>1, LaterStatusRank
  <1> QED
    BY <1>1, <1>2, <1>3, ReceiptWell DEF Sound, Advances

LEMMA MergeAdvances ==
    ASSUME NEW r \in Row, NEW a \in Row, Sound(r), Sound(a)
    PROVE  Advances(r, Merged(r, a)) /\ Advances(a, Merged(r, a))
  BY MergedWell DEF Sound, Advances

LEMMA RedactAdvances ==
    ASSUME NEW r \in Row, Sound(r)
    PROVE  Advances(r, Redacted(r))
  BY RedactedRowWell, RowFields, SameRank DEF Sound, Advances

(* Only one conversation's row is written, and to a later one.              *)
LEMMA OneRow ==
    ASSUME TypeOK, RowInv, NEW k \in Keys, Stored(k), NEW q \in Row,
           Advances(rows[k], q), rows' = [rows EXCEPT ![k] = q]
    PROVE  \A j \in Keys : RowStep(j)
  BY DEF TypeOK, RowStep, Stays, MovesOn

LEMMA NoRows ==
    ASSUME rows' = rows
    PROVE  \A j \in Keys : RowStep(j)
  BY DEF RowStep, Stays

LEMMA RowSteps ==
    ASSUME IInv, [Next]_vars
    PROVE  \A k \in Keys : RowStep(k)
  <1> USE DEF IInv
  <1>1. ASSUME NEW c \in Callers, Resolve(c) \/ ResolveClear(c) \/ ResolveLink(c)
        PROVE  rows' = rows
    BY <1>1, ResolveStep DEF Begin, tables
  <1>2. ASSUME NEW c \in Callers, UpsertMessage(c)
        PROVE  \A j \in Keys : RowStep(j)
    <2> DEFINE k == call[c].at
               m == call[c].copy
    <2>1. k \in Keys /\ m \in Copies /\ Fits(m)
      BY <1>2, TakenCall, CallFields DEF UpsertMessage, CallInv
    <2>2. m \in Row /\ Sound(m)
      BY <2>1, CopyIs, CopySound
    <2>3. CASE Stored(k)
      <3>1. rows[k] \in Row /\ Sound(rows[k])
        BY <2>1, <2>3, RowIs DEF RowInv
      <3>2. Upserted(rows[k], m) \in Row /\ Advances(rows[k], Upserted(rows[k], m))
        BY <2>1, <2>2, <3>1, UpsertedType, UpsertAdvances
      <3>3. rows' = [rows EXCEPT ![k] = Upserted(rows[k], m)]
        BY <1>2, <2>3 DEF UpsertMessage
      <3> HIDE DEF k, m
      <3> QED
        BY <2>1, <2>3, <3>2, <3>3, OneRow
    <2>4. CASE ~Stored(k)
      <3>1. rows' = [rows EXCEPT ![k] = m]
        BY <1>2, <2>4 DEF UpsertMessage
      <3> HIDE DEF k, m
      <3> QED
        BY <2>1, <2>2, <2>4, <3>1 DEF TypeOK, RowStep, Stays, Comes
    <2> QED
      BY <2>3, <2>4
  <1>3. ASSUME NEW c \in Callers, MarkRevoked(c)
        PROVE  \A j \in Keys : RowStep(j)
    <2> DEFINE k == call[c].at
    <2>1. k \in Keys
      BY <1>3, TakenCall, CallFields DEF MarkRevoked
    <2>2. CASE Stored(k)
      <3>1. rows[k] \in Row /\ Sound(rows[k])
        BY <2>1, <2>2, RowIs DEF RowInv
      <3>2. RevokedRow(rows[k]) \in Row /\ Advances(rows[k], RevokedRow(rows[k]))
        BY <3>1, RevokedType, RevokeAdvances
      <3>3. rows' = [rows EXCEPT ![k] = RevokedRow(rows[k])]
        BY <1>3, <2>2 DEF MarkRevoked
      <3> HIDE DEF k
      <3> QED
        BY <2>1, <2>2, <3>2, <3>3, OneRow
    <2>3. CASE ~Stored(k)
      BY <1>3, <2>3, NoRows DEF MarkRevoked
    <2> QED
      BY <2>2, <2>3
  <1>4. ASSUME NEW c \in Callers, EditMessage(c)
        PROVE  \A j \in Keys : RowStep(j)
    <2> DEFINE k == call[c].at
               v == call[c].version
    <2>1. k \in Keys /\ v \in Versions \ {1} /\ mine
      BY <1>4, TakenCall, CallFields DEF EditMessage, CallInv
    <2>2. CASE Stored(k) /\ ~rows[k].revoked
      <3>1. rows[k] \in Row /\ Sound(rows[k])
        BY <2>1, <2>2, RowIs DEF RowInv
      <3>2. EditedRow(rows[k], v) \in Row /\ Advances(rows[k], EditedRow(rows[k], v))
        BY <2>1, <2>2, <3>1, EditedType, EditAdvances
      <3>3. rows' = [rows EXCEPT ![k] = EditedRow(rows[k], v)]
        BY <1>4, <2>2 DEF EditMessage
      <3> HIDE DEF k, v
      <3> QED
        BY <2>1, <2>2, <3>2, <3>3, OneRow
    <2>3. CASE ~(Stored(k) /\ ~rows[k].revoked)
      BY <1>4, <2>3, NoRows DEF EditMessage
    <2> QED
      BY <2>2, <2>3
  <1>5. ASSUME NEW c \in Callers, UpdateReceipt(c)
        PROVE  \A j \in Keys : RowStep(j)
    <2> DEFINE k == call[c].at
    <2>1. k \in Keys
      BY <1>5, TakenCall, CallFields DEF UpdateReceipt
    <2>2. CASE Stored(k)
      <3>1. rows[k] \in Row /\ Sound(rows[k])
        BY <2>1, <2>2, RowIs DEF RowInv
      <3>2. ReceiptRow(rows[k], "read") \in Row /\ Advances(rows[k], ReceiptRow(rows[k], "read"))
        BY <3>1, ReceiptType, StatusRank, ReceiptAdvances
      <3>3. rows' = [rows EXCEPT ![k] = ReceiptRow(rows[k], "read")]
        BY <1>5, <2>2 DEF UpdateReceipt
      <3> HIDE DEF k
      <3> QED
        BY <2>1, <2>2, <3>2, <3>3, OneRow
    <2>3. CASE ~Stored(k)
      BY <1>5, <2>3, NoRows DEF UpdateReceipt
    <2> QED
      BY <2>2, <2>3
  <1>6. ASSUME NEW c \in Callers, SavePollVote(c) \/ UpsertReaction(c)
        PROVE  rows' = rows
    BY <1>6 DEF SavePollVote, UpsertReaction
  <1>7. ASSUME NEW c \in Callers, DeleteChat(c) \/ ClearChatMessages(c)
        PROVE  \A j \in Keys : RowStep(j)
    <2>1. call[c].at \in Keys
      BY <1>7, TakenCall, CallFields DEF DeleteChat, ClearChatMessages
    <2>2. rows' = [rows EXCEPT ![call[c].at] = NoRow]
      BY <1>7 DEF DeleteChat, ClearChatMessages, Empty
    <2> QED
      BY <2>1, <2>2 DEF TypeOK, RowStep, Stays, Goes
  <1>8. ASSUME NEW c \in Callers, LinkChatAliases(c)
        PROVE  \A j \in Keys : RowStep(j)
    <2>1. rows'["pn"] = NoRow /\ rows'["lid"] = MovedRow
      BY <1>8 DEF LinkChatAliases
    <2>2. CASE ~Stored("pn")
      BY <2>1, <2>2, MovedRowIs, KeysAre DEF RowStep, Stays, Goes
    <2>3. CASE Stored("pn")
      <3>1. rows["pn"] \in Row /\ Sound(rows["pn"])
        BY <2>3, KeysAre, RowIs DEF RowInv
      <3>2. CASE ~Stored("lid")
        <4>1. Redacted(rows["pn"]) \in Row /\ Sound(Redacted(rows["pn"]))
          BY <3>1, PlaceholderType, RedactAdvances DEF Advances
        <4> QED
          BY <2>1, <2>3, <3>2, <4>1, MovedRowIs, KeysAre DEF RowStep, Goes, Comes
      <3>3. CASE Stored("lid")
        <4>1. rows["lid"] \in Row /\ Sound(rows["lid"])
          BY <3>3, KeysAre, RowIs DEF RowInv
        <4>2. /\ Merged(rows["lid"], rows["pn"]) \in Row
              /\ Advances(rows["lid"], Merged(rows["lid"], rows["pn"]))
          BY <3>1, <4>1, MergedType, MergeAdvances
        <4> QED
          BY <2>1, <2>3, <3>3, <4>2, MovedRowIs, KeysAre DEF RowStep, Goes, MovesOn
      <3> QED
        BY <3>2, <3>3
    <2> QED
      BY <2>2, <2>3
  <1>9. CASE UNCHANGED vars
    BY <1>9, NoRows DEF vars, tables
  <1> QED
    BY <1>1, <1>2, <1>3, <1>4, <1>5, <1>6, <1>7, <1>8, <1>9, NoRows DEF Next

LEMMA MineKept ==
    ASSUME [Next]_vars
    PROVE  mine' = mine
  BY DEF Next, vars, Resolve, ResolveClear, ResolveLink, Begin, UpsertMessage, MarkRevoked,
     EditMessage, UpdateReceipt, SavePollVote, UpsertReaction, DeleteChat,
     ClearChatMessages, LinkChatAliases, Takes

LEMMA RowInvStep == IInv /\ [Next]_vars => RowInv'
  <1> SUFFICES ASSUME IInv, [Next]_vars, NEW k \in Keys, Stored(k)'
               PROVE  Sound(rows[k])'
    BY DEF RowInv
  <1>1. RowStep(k) /\ mine' = mine
    BY RowSteps, MineKept
  <1>2. rows'[k] # NoRow
    BY DEF Stored
  <1>3. Sound(rows'[k])
    BY <1>1, <1>2 DEF RowStep, Stays, Goes, Comes, MovesOn, Advances, IInv, RowInv, Stored
  <1> QED
    BY <1>1, <1>3 DEF Sound

LEMMA CallInvStep == IInv /\ [Next]_vars => CallInv'
  <1> SUFFICES ASSUME IInv, [Next]_vars PROVE CallInv'
    OBVIOUS
  <1>1. mine' = mine
    BY MineKept
  <1>2. ASSUME NEW c \in Callers, NEW d \in Call, Begin(c, d),
               d.do = "upsert" => Fits(d.copy), d.do = "edit" => mine
        PROVE  CallInv'
    <2>1. call' = [call EXCEPT ![c] = d]
      BY <1>2 DEF Begin
    <2> QED
      BY <1>1, <1>2, <2>1 DEF IInv, TypeOK, CallInv, Fits
  <1>3. ASSUME NEW c \in Callers, NEW what, Takes(c, what)
        PROVE  CallInv'
    BY <1>1, <1>3 DEF Takes, IInv, TypeOK, CallInv, Fits
  <1>4. CASE Next
    <2>1. PICK c \in Callers :
            \/ Resolve(c) \/ ResolveClear(c) \/ ResolveLink(c)
            \/ UpsertMessage(c) \/ MarkRevoked(c) \/ EditMessage(c) \/ UpdateReceipt(c)
            \/ SavePollVote(c) \/ UpsertReaction(c)
            \/ DeleteChat(c) \/ ClearChatMessages(c) \/ LinkChatAliases(c)
      BY <1>4 DEF Next
    <2>2. CASE Resolve(c) \/ ResolveClear(c) \/ ResolveLink(c)
      BY <1>2, <2>2, ResolveStep DEF IInv
    <2>3. CASE ~(Resolve(c) \/ ResolveClear(c) \/ ResolveLink(c))
      <3>1. \E what : Takes(c, what)
        BY <2>1, <2>3 DEF UpsertMessage, MarkRevoked, EditMessage, UpdateReceipt,
           SavePollVote, UpsertReaction, DeleteChat, ClearChatMessages, LinkChatAliases
      <3> QED
        BY <1>3, <3>1
    <2> QED
      BY <2>2, <2>3
  <1>5. CASE UNCHANGED vars
    BY <1>5 DEF vars, IInv, CallInv, Fits
  <1> QED
    BY <1>4, <1>5

LEMMA Inductive == Spec => []IInv
  <1>1. Init => IInv
    BY TypeInit DEF Init, IInv, RowInv, CallInv, Stored
  <1>2. IInv /\ [Next]_vars => IInv'
    BY TypeStep, RowInvStep, CallInvStep DEF IInv
  <1> QED
    BY <1>1, <1>2, PTL DEF Spec

-----------------------------------------------------------------------------
(* What follows.                                                            *)

(* The card under a message that is not taken back describes its text, in   *)
(* either conversation, whatever copies were merged.                        *)
THEOREM CardsDescribeTexts == Spec => []CardDescribesText
  <1>1. IInv => CardDescribesText
    <2> SUFFICES ASSUME IInv, NEW k \in Keys, Stored(k), ~rows[k].revoked
                 PROVE  rows[k].card \in {NoCard, rows[k].body}
      BY DEF CardDescribesText
    <2>1. WellSaid(rows[k])
      BY DEF IInv, RowInv, Sound
    <2> QED
      BY <2>1 DEF WellSaid
  <1> QED
    BY <1>1, Inductive, PTL

(* While the two addresses are linked the number has no conversation and    *)
(* no message, unless a call resolved its address before the link.          *)
THEOREM NothingStaysBehind == Spec => []NothingBehindTheAlias
  <1>1. Init => NothingBehindTheAlias
    BY DEF Init, NothingBehindTheAlias
  <1>2. IInv /\ NothingBehindTheAlias /\ [Next]_vars => NothingBehindTheAlias'
    <2> SUFFICES ASSUME IInv, NothingBehindTheAlias, [Next]_vars, linked', ~late'
                 PROVE  "pn" \notin chats' /\ ~Stored("pn")'
      BY DEF NothingBehindTheAlias
    <2> USE DEF IInv
    <2>1. ASSUME NEW c \in Callers, Resolve(c) \/ ResolveClear(c) \/ ResolveLink(c)
          PROVE  "pn" \notin chats' /\ ~Stored("pn")'
      BY <2>1, ResolveStep DEF Begin, tables, history, NothingBehindTheAlias, Stored
    <2>2. ASSUME NEW k \in Keys, Writes(k), linked' = linked, chats' \subseteq chats \cup {k},
                 rows'["pn"] = rows["pn"] \/ k = "pn"
          PROVE  "pn" \notin chats' /\ ~Stored("pn")'
      <3>1. linked /\ ~late /\ k # "pn"
        BY <2>2 DEF Writes, TypeOK
      <3> QED
        BY <2>2, <3>1 DEF NothingBehindTheAlias, Stored
    <2>3. ASSUME NEW c \in Callers, UpsertMessage(c) \/ MarkRevoked(c) \/ EditMessage(c)
                   \/ UpdateReceipt(c) \/ SavePollVote(c) \/ UpsertReaction(c)
          PROVE  "pn" \notin chats' /\ ~Stored("pn")'
      <3>1. call[c].at \in Keys
        BY <2>3, TakenCall, CallFields DEF UpsertMessage, MarkRevoked, EditMessage,
           UpdateReceipt, SavePollVote, UpsertReaction
      <3>2. /\ Writes(call[c].at) /\ linked' = linked
            /\ chats' \subseteq chats \cup {call[c].at}
        BY <2>3 DEF UpsertMessage, MarkRevoked, EditMessage,
           UpdateReceipt, SavePollVote, UpsertReaction
      <3>3. rows' = rows \/ \E q : rows' = [rows EXCEPT ![call[c].at] = q]
        BY <2>3 DEF UpsertMessage, MarkRevoked, EditMessage,
           UpdateReceipt, SavePollVote, UpsertReaction
      <3>4. rows'["pn"] = rows["pn"] \/ call[c].at = "pn"
        BY <3>3, KeysAre DEF TypeOK
      <3> QED
        BY <2>2, <3>1, <3>2, <3>4
    <2>4. ASSUME NEW c \in Callers, DeleteChat(c)
          PROVE  FALSE
      BY <2>4 DEF DeleteChat
    <2>5. ASSUME NEW c \in Callers, ClearChatMessages(c)
          PROVE  "pn" \notin chats' /\ ~Stored("pn")'
      <3>1. call[c].at \in Keys /\ linked /\ ~late /\ chats' = chats
        BY <2>5, TakenCall, CallFields DEF ClearChatMessages, Empty
      <3>2. rows' = [rows EXCEPT ![call[c].at] = NoRow]
        BY <2>5 DEF ClearChatMessages, Empty
      <3> QED
        BY <3>1, <3>2, KeysAre DEF TypeOK, NothingBehindTheAlias, Stored
    <2>6. ASSUME NEW c \in Callers, LinkChatAliases(c)
          PROVE  "pn" \notin chats' /\ ~Stored("pn")'
      BY <2>6 DEF LinkChatAliases, MovedChats, Stored
    <2>7. CASE UNCHANGED vars
      BY <2>7 DEF vars, tables, history, NothingBehindTheAlias, Stored
    <2> QED
      BY <2>1, <2>3, <2>4, <2>5, <2>6, <2>7 DEF Next
  <1> QED
    BY <1>1, <1>2, Inductive, PTL DEF Spec

(* A phase that follows is one of Life's later phases.                      *)
LEMMA FollowsIsLater ==
    ASSUME NEW p \in Phases, NEW q \in Phases, Follows(p, q)
    PROVE  q \in Life!Later(p)
  BY DEF Phases, Follows, Life!Later

(* Linking loses nothing the documentation promises to keep: for a reader   *)
(* of the number's copy the merged message is at the same point of its life *)
(* or later, its ticks and the vote that counts as late.                    *)
THEOREM LinkLosesNothing == Spec => LinkingLosesNothing
  <1>1. ASSUME IInv, [Next]_vars, ~linked, linked', Stored("pn")
        PROVE  /\ rows'["lid"] # NoRow
               /\ PhaseOf(rows'["lid"]) \in Life!Later(PhaseOf(rows["pn"]))
               /\ Rank[rows'["lid"].status] >= Rank[rows["pn"].status]
               /\ \/ rows'["lid"].revoked \/ rows'["lid"].kind = "view_once"
                  \/ votes'["lid"] >= votes["pn"]
    <2> USE DEF IInv
    <2>1. PICK c \in Callers : LinkChatAliases(c)
      BY <1>1 DEF Next, vars, tables, Resolve, ResolveClear, ResolveLink, Begin,
         UpsertMessage, MarkRevoked, EditMessage, UpdateReceipt, SavePollVote,
         UpsertReaction, DeleteChat, ClearChatMessages
    <2>2. rows'["lid"] = MovedRow /\ votes'["lid"] = MovedVote
      BY <2>1 DEF LinkChatAliases
    <2>3. rows["pn"] \in Row /\ Sound(rows["pn"])
      BY <1>1, KeysAre, RowIs DEF RowInv
    <2>4. MovedRow \in Row /\ Advances(rows["pn"], MovedRow)
      <3>1. CASE ~Stored("lid")
        BY <1>1, <2>3, <3>1, MovedRowIs, RedactAdvances, PlaceholderType
      <3>2. CASE Stored("lid")
        <4>1. rows["lid"] \in Row /\ Sound(rows["lid"])
          BY <1>1, <3>2, KeysAre, RowIs DEF RowInv
        <4> QED
          BY <1>1, <2>3, <3>2, <4>1, MovedRowIs, MergedType, MergeAdvances
      <3> QED
        BY <3>1, <3>2
    <2>5. PhaseOf(MovedRow) \in Life!Later(PhaseOf(rows["pn"]))
      BY <2>3, <2>4, PhaseType, FollowsIsLater DEF Advances
    <2>6. MovedRow # NoRow
      BY <2>4, NoRowIs
    <2>7. MovedRow.revoked \/ MovedRow.kind = "view_once" \/ MovedVote >= votes["pn"]
      BY <1>1, MovedVoteIs
    <2> QED
      BY <2>2, <2>4, <2>5, <2>6, <2>7 DEF Advances
  <1> QED
    BY <1>1, Inductive, PTL DEF Spec, LinkingLosesNothing

-----------------------------------------------------------------------------
(* The canonical conversation implements MessageLife.                       *)

LEMMA LifeOfRow ==
    ASSUME NEW r \in Row, WellSaid(r)
    PROVE  /\ PhaseOf(r) \in Life!Phases \ {"absent"}
           /\ r.body \in Life!Says(PhaseOf(r))
           /\ Rank[r.status] \in Life!Marks
  <1>1. PhaseOf(r) \in Phases
    BY PhaseType
  <1>2. r.body \in Life!Says(PhaseOf(r))
    BY <1>1, SaysItsPhase DEF Life!Says, Phases
  <1>3. Rank[r.status] \in Life!Marks
    BY RowFields, RankType DEF Life!Marks
  <1> QED
    BY <1>1, <1>2, <1>3 DEF Phases, Life!Phases

(* For any callers, copies and bounds, and however links, deletions and     *)
(* stale addresses interleave, the canonical conversation shows a message   *)
(* whose life goes as MessageLife promises.                                 *)
THEOREM CanonicalLife == Spec => CanonicalImplementsLife
  <1>1. Init => Life!Init
    BY DEF Init, Life!Init, Stored, Keys
  <1>2. ASSUME IInv, IInv', [Next]_vars
        PROVE  [Life!Next]_(Life!vars)
    <2> DEFINE r == rows["lid"]
               q == rows'["lid"]
    <2>1. RowStep("lid")
      BY <1>2, RowSteps, KeysAre
    <2>2. Stored("lid") => r \in Row /\ WellSaid(r)
      BY <1>2, KeysAre, RowIs DEF IInv, RowInv, Sound
    <2>3. CASE Stays("lid")
      BY <2>3 DEF Stays, Life!vars, Stored
    <2>4. CASE Goes("lid")
      BY <2>4 DEF Goes, Life!Next, Life!Clear, Stored
    <2>5. CASE Comes("lid")
      <3>1. ~Stored("lid") /\ q \in Row /\ WellSaid(q) /\ q # NoRow
        BY <2>5, NoRowIs DEF Comes, Sound
      <3>2. /\ PhaseOf(q) \in Life!Phases \ {"absent"} /\ q.body \in Life!Says(PhaseOf(q))
            /\ Rank[q.status] \in Life!Marks
        BY <3>1, LifeOfRow
      <3>3. Life!Appear
        BY <3>1, <3>2 DEF Life!Appear, Stored
      <3> QED
        BY <3>3 DEF Life!Next
    <2>6. CASE MovesOn("lid")
      <3>1. /\ Stored("lid") /\ q \in Row /\ WellSaid(q) /\ q # NoRow
            /\ Follows(PhaseOf(r), PhaseOf(q)) /\ Rank[q.status] >= Rank[r.status]
        BY <2>6, NoRowIs DEF MovesOn, Advances, Sound
      <3>2. /\ PhaseOf(q) \in Life!Phases \ {"absent"} /\ q.body \in Life!Says(PhaseOf(q))
            /\ Rank[q.status] \in Life!Marks
        BY <3>1, LifeOfRow
      <3>3. PhaseOf(q) \in Life!Later(PhaseOf(r)) /\ PhaseOf(r) # "absent"
        BY <2>2, <3>1, PhaseType, FollowsIsLater DEF Phases
      <3>4. Life!Advance
        BY <3>1, <3>2, <3>3 DEF Life!Advance, Stored
      <3> QED
        BY <3>4 DEF Life!Next
    <2> QED
      BY <2>1, <2>3, <2>4, <2>5, <2>6 DEF RowStep
  <1> QED
    BY <1>1, <1>2, Inductive, PTL DEF Spec, CanonicalImplementsLife, Life!Spec

=============================================================================
