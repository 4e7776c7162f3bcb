------------------------- MODULE MessageMergeProofs -------------------------
(* What the statements that write a row return: rows, rows that are well    *)
(* said, and rows at the same or a later point of the message's life.       *)
EXTENDS MessageMerge, TLAPS

Phases == {"original", "corrected", "protected", "deleted"}

(* The phases that can follow, as in MessageLife.                           *)
Follows(p, q) ==
    \/ p = "original"
    \/ p = "corrected" /\ q # "original"
    \/ p = "protected" /\ q \in {"protected", "deleted"}
    \/ p = "deleted" /\ q = "deleted"

-----------------------------------------------------------------------------
(* Rows.                                                                    *)

LEMMA RowFields ==
    ASSUME NEW r \in Row
    PROVE  /\ r.kind \in Kinds /\ r.body \in Versions \cup {NoText}
           /\ r.edited \in BOOLEAN /\ r.revoked \in BOOLEAN
           /\ r.status \in Statuses
           /\ r.card \in Versions \cup {NoCard} /\ r.media \in BOOLEAN
  BY DEF Row

LEMMA RowOf ==
    ASSUME NEW k \in Kinds, NEW b \in Versions \cup {NoText}, NEW e \in BOOLEAN,
           NEW v \in BOOLEAN, NEW s \in Statuses, NEW d \in Versions \cup {NoCard},
           NEW m \in BOOLEAN
    PROVE  [kind |-> k, body |-> b, edited |-> e, revoked |-> v, status |-> s,
            card |-> d, media |-> m] \in Row
  BY DEF Row

LEMMA StatusRank ==
    /\ Statuses = {"received", "sent", "delivered", "read", "played"}
    /\ Rank["received"] = 0 /\ Rank["sent"] = 1 /\ Rank["delivered"] = 2
    /\ Rank["read"] = 3 /\ Rank["played"] = 4
  BY DEF Statuses, Rank

LEMMA RankType ==
    ASSUME NEW s \in Statuses
    PROVE  Rank[s] \in 0..4
  BY StatusRank

LEMMA LaterStatusType ==
    ASSUME NEW s \in Statuses, NEW t \in Statuses
    PROVE  LaterStatus(s, t) \in {s, t}
  BY DEF LaterStatus

LEMMA PlaceholderType ==
    ASSUME NEW r \in Row
    PROVE  Placeholder(r) \in Row /\ Bare(r) \in Row /\ Redacted(r) \in Row
  <1>1. "view_once" \in Kinds
    BY DEF Kinds
  <1>2. Placeholder(r) \in Row
    BY <1>1, RowFields, RowOf DEF Placeholder
  <1>3. Bare(r) \in Row
    BY <1>1, RowFields, RowOf DEF Bare
  <1> QED
    BY <1>2, <1>3 DEF Redacted

LEMMA ProtectedCopyType ==
    ASSUME NEW r \in Row, NEW m \in Row
    PROVE  ProtectedCopy(r, m) \in Row
  BY PlaceholderType DEF ProtectedCopy

LEMMA UpsertedCardType ==
    ASSUME NEW r \in Row, NEW m \in Row
    PROVE  UpsertedCard(r, m) \in {r.card, m.card}
  BY DEF UpsertedCard

(* The row UpsertMessage makes before the redaction.                        *)
Overwritten(old, new) ==
    [kind    |-> IF old.revoked THEN old.kind ELSE new.kind,
     body    |-> IF TextStands(old, new) THEN old.body ELSE new.body,
     edited  |-> old.edited \/ new.edited,
     revoked |-> old.revoked \/ new.revoked,
     status  |-> LaterStatus(old.status, new.status),
     card    |-> UpsertedCard(old, new),
     media   |-> old.media \/ new.media]

LEMMA UpsertedIs ==
    ASSUME NEW r \in Row, NEW m \in Row
    PROVE  Upserted(r, m) = Redacted(Overwritten(r, ProtectedCopy(r, m)))
  BY DEF Upserted, Overwritten

LEMMA OverwrittenType ==
    ASSUME NEW r \in Row, NEW m \in Row
    PROVE  Overwritten(r, m) \in Row
  <1> DEFINE kind    == IF r.revoked THEN r.kind ELSE m.kind
             body    == IF TextStands(r, m) THEN r.body ELSE m.body
             edited  == r.edited \/ m.edited
             revoked == r.revoked \/ m.revoked
             status  == LaterStatus(r.status, m.status)
             card    == UpsertedCard(r, m)
             media   == r.media \/ m.media
  <1>1. /\ kind \in Kinds /\ body \in Versions \cup {NoText} /\ edited \in BOOLEAN
        /\ revoked \in BOOLEAN /\ media \in BOOLEAN
    BY RowFields
  <1>2. status \in Statuses /\ card \in Versions \cup {NoCard}
    BY RowFields, LaterStatusType, UpsertedCardType
  <1>3. Overwritten(r, m) = [kind |-> kind, body |-> body, edited |-> edited,
            revoked |-> revoked, status |-> status, card |-> card, media |-> media]
    BY DEF Overwritten
  <1> HIDE DEF kind, body, edited, revoked, status, card, media
  <1> QED
    BY <1>1, <1>2, <1>3, RowOf

LEMMA UpsertedType ==
    ASSUME NEW r \in Row, NEW m \in Row
    PROVE  Upserted(r, m) \in Row
  BY UpsertedIs, OverwrittenType, ProtectedCopyType, PlaceholderType

LEMMA EditedType ==
    ASSUME NEW r \in Row, NEW v \in Versions
    PROVE  EditedRow(r, v) \in Row
  BY RowFields, RowOf DEF EditedRow

LEMMA RevokedType ==
    ASSUME NEW r \in Row
    PROVE  RevokedRow(r) \in Row
  <1>1. (IF r.kind = "view_once" THEN r.kind ELSE "revoked") \in Kinds
    BY RowFields DEF Kinds
  <1> QED
    BY <1>1, RowFields, RowOf DEF RevokedRow

LEMMA ReceiptType ==
    ASSUME NEW r \in Row, NEW s \in Statuses
    PROVE  ReceiptRow(r, s) \in Row
  <1>1. LaterStatus(r.status, s) \in Statuses
    BY RowFields, LaterStatusType
  <1> QED
    BY <1>1, RowFields, RowOf DEF ReceiptRow

(* The row mergeAliasMessagesSQL makes before the redaction.                *)
Joined(c, a) ==
    [kind    |-> CASE "view_once" \in {c.kind, a.kind} -> "view_once"
                   [] OTHER -> IF EitherRevoked(c, a) THEN "revoked" ELSE c.kind,
     body    |-> IF EitherRevoked(c, a) THEN NoText
                 ELSE IF c.edited \/ (~a.edited /\ c.body # NoText) THEN c.body
                 ELSE a.body,
     edited  |-> c.edited \/ a.edited,
     revoked |-> EitherRevoked(c, a),
     status  |-> IF Rank[a.status] > Rank[c.status] THEN a.status ELSE c.status,
     card    |-> MergedCard(c, a),
     media   |-> c.media \/ a.media]

LEMMA MergedIs ==
    ASSUME NEW c \in Row, NEW a \in Row
    PROVE  Merged(c, a) = Redacted(Joined(c, a))
  BY DEF Merged, Joined

LEMMA MergedCardType ==
    ASSUME NEW c \in Row, NEW a \in Row
    PROVE  MergedCard(c, a) \in {c.card, a.card, NoCard}
  BY DEF MergedCard

LEMMA JoinedType ==
    ASSUME NEW c \in Row, NEW a \in Row
    PROVE  Joined(c, a) \in Row
  <1> DEFINE kind    == CASE "view_once" \in {c.kind, a.kind} -> "view_once"
                          [] OTHER -> IF EitherRevoked(c, a) THEN "revoked" ELSE c.kind
             body    == IF EitherRevoked(c, a) THEN NoText
                        ELSE IF c.edited \/ (~a.edited /\ c.body # NoText) THEN c.body
                        ELSE a.body
             edited  == c.edited \/ a.edited
             revoked == EitherRevoked(c, a)
             status  == IF Rank[a.status] > Rank[c.status] THEN a.status ELSE c.status
             card    == MergedCard(c, a)
             media   == c.media \/ a.media
  <1>1. kind \in Kinds
    BY RowFields DEF Kinds
  <1>2. body \in Versions \cup {NoText}
    BY RowFields
  <1>3. edited \in BOOLEAN /\ media \in BOOLEAN /\ revoked \in BOOLEAN
    BY DEF EitherRevoked
  <1>4. status \in Statuses
    BY RowFields
  <1>5. card \in Versions \cup {NoCard}
    BY RowFields, MergedCardType
  <1>6. Joined(c, a) = [kind |-> kind, body |-> body, edited |-> edited,
            revoked |-> revoked, status |-> status, card |-> card, media |-> media]
    BY DEF Joined
  <1> HIDE DEF kind, body, edited, revoked, status, card, media
  <1> QED
    BY <1>1, <1>2, <1>3, <1>4, <1>5, <1>6, RowOf

LEMMA MergedType ==
    ASSUME NEW c \in Row, NEW a \in Row
    PROVE  Merged(c, a) \in Row
  BY MergedIs, JoinedType, PlaceholderType

LEMMA RecordedType ==
    ASSUME NEW q \in Seq(Versions), NEW r \in Row
    PROVE  Recorded(q, r) \in Seq(Versions)
  BY RowFields DEF Recorded

-----------------------------------------------------------------------------
(* Well-said rows, and the order of phases and milestones.                  *)

LEMMA PhaseType ==
    ASSUME NEW r \in Row
    PROVE  PhaseOf(r) \in Phases
  BY RowFields DEF PhaseOf, Phases

LEMMA PhaseIs ==
    ASSUME NEW r \in Row
    PROVE  /\ r.revoked => PhaseOf(r) = "deleted"
           /\ ~r.revoked /\ r.kind = "view_once" => PhaseOf(r) = "protected"
           /\ ~r.revoked /\ r.kind # "view_once" /\ r.edited => PhaseOf(r) = "corrected"
           /\ ~r.revoked /\ r.kind # "view_once" /\ ~r.edited => PhaseOf(r) = "original"
  BY RowFields DEF PhaseOf

(* A row follows another when its flags do.                                 *)
LEMMA FlagsFollow ==
    ASSUME NEW r \in Row, NEW q \in Row,
           r.revoked => q.revoked,
           r.kind = "view_once" => q.revoked \/ q.kind = "view_once",
           r.edited => q.edited \/ q.revoked \/ q.kind = "view_once"
    PROVE  Follows(PhaseOf(r), PhaseOf(q))
  BY PhaseIs, PhaseType, RowFields DEF Follows, Phases

(* What a well-said row says fits its phase.                                *)
LEMMA SaysItsPhase ==
    ASSUME NEW r \in Row, WellSaid(r)
    PROVE  /\ PhaseOf(r) = "original" => r.body = 1
           /\ PhaseOf(r) = "corrected" => r.body \in Versions \ {1}
           /\ PhaseOf(r) \in {"protected", "deleted"} => r.body = NoText
  BY PhaseIs, RowFields DEF WellSaid

LEMMA BareFields ==
    ASSUME NEW r \in Row
    PROVE  /\ Bare(r).kind = "view_once" /\ Bare(r).body = NoText
           /\ Bare(r).card = NoCard /\ Bare(r).edited = r.edited
           /\ Bare(r).revoked = r.revoked /\ Bare(r).status = r.status
           /\ Placeholder(r).kind = "view_once" /\ Placeholder(r).body = NoText
           /\ Placeholder(r).card = NoCard /\ Placeholder(r).revoked = r.revoked
           /\ Placeholder(r).status = r.status
  BY DEF Bare, Placeholder

LEMMA RedactedFields ==
    ASSUME NEW r \in Row
    PROVE  /\ Redacted(r).kind = r.kind /\ Redacted(r).edited = r.edited
           /\ Redacted(r).revoked = r.revoked /\ Redacted(r).status = r.status
           /\ r.kind = "view_once" => Redacted(r).body = NoText /\ Redacted(r).card = NoCard
           /\ r.kind # "view_once" => Redacted(r) = r
  BY BareFields DEF Redacted

LEMMA RedactedWell ==
    ASSUME NEW r \in Row, r.kind = "view_once" \/ WellSaid(r)
    PROVE  WellSaid(Redacted(r))
  BY RedactedFields DEF WellSaid

LEMMA OverwrittenFields ==
    ASSUME NEW r \in Row, NEW m \in Row
    PROVE  LET q == Overwritten(r, m) IN
           /\ q.kind = (IF r.revoked THEN r.kind ELSE m.kind)
           /\ q.body = (IF TextStands(r, m) THEN r.body ELSE m.body)
           /\ q.edited = (r.edited \/ m.edited)
           /\ q.revoked = (r.revoked \/ m.revoked)
           /\ q.status = LaterStatus(r.status, m.status)
           /\ q.card = UpsertedCard(r, m)
  BY DEF Overwritten

LEMMA ProtectedCopyFields ==
    ASSUME NEW r \in Row, NEW m \in Row, WellSaid(m)
    PROVE  LET p == ProtectedCopy(r, m) IN
           /\ WellSaid(p) /\ p.revoked = m.revoked /\ p.status = m.status
           /\ "view_once" \in {r.kind, m.kind} => p.kind = "view_once"
           /\ "view_once" \notin {r.kind, m.kind} => p = m
  BY BareFields DEF ProtectedCopy, WellSaid

(* A well-said copy over a well-said row, neither of them protected.        *)
LEMMA PlainOverwrittenWell ==
    ASSUME NEW r \in Row, NEW m \in Row, WellSaid(r), WellSaid(m),
           m.revoked => r.revoked, r.kind # "view_once", m.kind # "view_once"
    PROVE  WellSaid(Overwritten(r, m))
  <1> DEFINE q == Overwritten(r, m)
  <1>1. CASE r.revoked
    BY <1>1, OverwrittenFields DEF WellSaid, TextStands
  <1>2. CASE ~r.revoked
    <2>1. ~q.revoked /\ q.kind # "view_once"
      BY <1>2, OverwrittenFields
    <2>2. q.body # NoText /\ (q.edited <=> q.body # 1)
      BY <1>2, OverwrittenFields, RowFields DEF WellSaid, TextStands
    <2>3. q.card \in {NoCard, q.body}
      <3>1. /\ q.card = UpsertedCard(r, m)
            /\ q.body = (IF TextStands(r, m) THEN r.body ELSE m.body)
        BY OverwrittenFields
      <3>2. /\ r.card \in {NoCard, r.body} /\ m.card \in {NoCard, m.body}
            /\ (r.edited <=> r.body # 1) /\ (m.edited <=> m.body # 1)
        BY <1>2 DEF WellSaid
      <3>3. CASE TextStands(r, m)
        BY <3>1, <3>2, <3>3 DEF UpsertedCard
      <3>4. CASE ~TextStands(r, m) /\ m.edited /\ r.body # m.body
        BY <3>1, <3>2, <3>4 DEF UpsertedCard
      <3>5. CASE ~TextStands(r, m) /\ ~(m.edited /\ r.body # m.body)
        <4>1. r.body = m.body
          BY <1>2, <3>2, <3>5, RowFields DEF TextStands
        <4>2. UpsertedCard(r, m) \in {r.card, m.card}
          BY UpsertedCardType
        <4> QED
          BY <3>1, <3>2, <3>5, <4>1, <4>2
      <3> QED
        BY <3>3, <3>4, <3>5
    <2> QED
      BY <2>1, <2>2, <2>3 DEF WellSaid
  <1> QED
    BY <1>1, <1>2

(* UpsertMessage keeps a row well said, and the row only moves on.          *)
LEMMA UpsertedWell ==
    ASSUME NEW r \in Row, NEW m \in Row, WellSaid(r), WellSaid(m),
           m.revoked => r.revoked
    PROVE  /\ WellSaid(Upserted(r, m))
           /\ Follows(PhaseOf(r), PhaseOf(Upserted(r, m)))
           /\ Upserted(r, m).status = LaterStatus(r.status, m.status)
           /\ Upserted(r, m).kind = "view_once" => "view_once" \in {r.kind, m.kind}
  <1> DEFINE p == ProtectedCopy(r, m)
             q == Overwritten(r, p)
             u == Upserted(r, m)
  <1>1. p \in Row /\ q \in Row /\ u \in Row /\ u = Redacted(q)
    BY ProtectedCopyType, OverwrittenType, UpsertedType, UpsertedIs
  <1>2. /\ q.kind = (IF r.revoked THEN r.kind ELSE p.kind)
        /\ q.edited = (r.edited \/ p.edited)
        /\ q.revoked = (r.revoked \/ p.revoked)
        /\ q.status = LaterStatus(r.status, p.status)
    BY <1>1, OverwrittenFields
  <1>3. /\ WellSaid(p) /\ p.revoked = m.revoked /\ p.status = m.status
        /\ "view_once" \in {r.kind, m.kind} => p.kind = "view_once"
        /\ "view_once" \notin {r.kind, m.kind} => p = m
    BY ProtectedCopyFields
  <1>4. WellSaid(u)
    <2>1. CASE q.kind = "view_once"
      BY <1>1, <2>1, RedactedWell
    <2>2. CASE q.kind # "view_once" /\ "view_once" \notin {r.kind, m.kind}
      <3>1. WellSaid(q)
        BY <1>3, <2>2, PlainOverwrittenWell
      <3> QED
        BY <1>1, <3>1, RedactedWell
    <2>3. CASE q.kind # "view_once" /\ "view_once" \in {r.kind, m.kind}
      <3>1. r.revoked
        BY <1>2, <1>3, <2>3
      <3>2. WellSaid(q)
        BY <1>1, <1>2, <2>3, <3>1, OverwrittenFields DEF WellSaid, TextStands
      <3> QED
        BY <1>1, <3>2, RedactedWell
    <2> QED
      BY <2>1, <2>2, <2>3
  <1>5. u.kind = q.kind /\ u.edited = q.edited /\ u.revoked = q.revoked /\ u.status = q.status
    BY <1>1, RedactedFields
  <1>6. Follows(PhaseOf(r), PhaseOf(u))
    BY <1>1, <1>2, <1>3, <1>5, FlagsFollow
  <1> QED
    BY <1>2, <1>3, <1>4, <1>5, <1>6

LEMMA EditedWell ==
    ASSUME NEW r \in Row, NEW v \in Versions \ {1}, WellSaid(r), ~r.revoked,
           r.kind # "view_once"
    PROVE  /\ WellSaid(EditedRow(r, v))
           /\ Follows(PhaseOf(r), PhaseOf(EditedRow(r, v)))
           /\ EditedRow(r, v).status = r.status /\ EditedRow(r, v).kind = r.kind
  <1>1. LET q == EditedRow(r, v) IN
        /\ q.kind = r.kind /\ q.body = v /\ q.edited = TRUE /\ q.revoked = r.revoked
        /\ q.status = r.status /\ q.card = NoCard
    BY DEF EditedRow
  <1>2. EditedRow(r, v) \in Row
    BY EditedType
  <1>3. v # NoText
    BY DEF Versions, NoText
  <1> QED
    BY <1>1, <1>2, <1>3, FlagsFollow DEF WellSaid

LEMMA RevokedWell ==
    ASSUME NEW r \in Row, WellSaid(r)
    PROVE  /\ WellSaid(RevokedRow(r))
           /\ Follows(PhaseOf(r), PhaseOf(RevokedRow(r)))
           /\ RevokedRow(r).status = r.status /\ RevokedRow(r).revoked
           /\ RevokedRow(r).kind = "view_once" => r.kind = "view_once"
  <1>1. LET q == RevokedRow(r) IN
        /\ q.kind = (IF r.kind = "view_once" THEN r.kind ELSE "revoked")
        /\ q.body = NoText /\ q.revoked = TRUE /\ q.status = r.status /\ q.card = r.card
    BY DEF RevokedRow
  <1>2. RevokedRow(r) \in Row
    BY RevokedType
  <1> QED
    BY <1>1, <1>2, FlagsFollow DEF WellSaid

LEMMA ReceiptWell ==
    ASSUME NEW r \in Row, NEW s \in Statuses, WellSaid(r)
    PROVE  /\ WellSaid(ReceiptRow(r, s))
           /\ Follows(PhaseOf(r), PhaseOf(ReceiptRow(r, s)))
           /\ ReceiptRow(r, s).status = LaterStatus(r.status, s)
           /\ ReceiptRow(r, s).kind = r.kind
  <1>1. LET q == ReceiptRow(r, s) IN
        /\ q.kind = r.kind /\ q.body = r.body /\ q.edited = r.edited
        /\ q.revoked = r.revoked /\ q.status = LaterStatus(r.status, s) /\ q.card = r.card
    BY DEF ReceiptRow
  <1>2. ReceiptRow(r, s) \in Row
    BY ReceiptType
  <1> QED
    BY <1>1, <1>2, FlagsFollow DEF WellSaid

(* A status that is replaced is replaced by a later one, unless what was    *)
(* only sent is said to be received.                                        *)
LEMMA LaterStatusRank ==
    ASSUME NEW s \in Statuses, NEW t \in Statuses, s = "sent" => t # "received"
    PROVE  Rank[LaterStatus(s, t)] >= Rank[s]
  BY StatusRank DEF LaterStatus

LEMMA JoinedFields ==
    ASSUME NEW c \in Row, NEW a \in Row
    PROVE  LET q == Joined(c, a) IN
           /\ "view_once" \in {c.kind, a.kind} => q.kind = "view_once"
           /\ q.kind = "view_once" => "view_once" \in {c.kind, a.kind}
           /\ q.body = (IF EitherRevoked(c, a) THEN NoText
                        ELSE IF c.edited \/ (~a.edited /\ c.body # NoText) THEN c.body
                        ELSE a.body)
           /\ q.edited = (c.edited \/ a.edited)
           /\ q.revoked = EitherRevoked(c, a)
           /\ q.status = (IF Rank[a.status] > Rank[c.status] THEN a.status ELSE c.status)
           /\ q.card = MergedCard(c, a)
  BY DEF Joined

LEMMA PlainJoinedWell ==
    ASSUME NEW c \in Row, NEW a \in Row, WellSaid(c), WellSaid(a),
           c.kind # "view_once", a.kind # "view_once"
    PROVE  WellSaid(Joined(c, a))
  <1> DEFINE q == Joined(c, a)
  <1>1. CASE EitherRevoked(c, a)
    BY <1>1, JoinedFields DEF WellSaid
  <1>2. CASE ~EitherRevoked(c, a)
    <2>1. /\ ~c.revoked /\ ~a.revoked /\ ~q.revoked
          /\ q.body = (IF c.edited \/ (~a.edited /\ c.body # NoText) THEN c.body ELSE a.body)
          /\ q.edited = (c.edited \/ a.edited) /\ q.card = MergedCard(c, a)
          /\ q.kind # "view_once"
      BY <1>2, JoinedFields DEF EitherRevoked
    <2>2. /\ c.body # NoText /\ a.body # NoText
          /\ (c.edited <=> c.body # 1) /\ (a.edited <=> a.body # 1)
          /\ c.card \in {NoCard, c.body} /\ a.card \in {NoCard, a.body}
      BY <2>1 DEF WellSaid
    <2>3. q.body # NoText /\ (q.edited <=> q.body # 1)
      BY <2>1, <2>2
    <2>4. q.card \in {NoCard, q.body}
      <3>1. CASE c.edited /\ ~a.edited
        BY <1>2, <2>1, <2>2, <3>1 DEF MergedCard
      <3>2. CASE ~c.edited /\ a.edited
        BY <1>2, <2>1, <2>2, <3>2 DEF MergedCard
      <3>3. CASE c.edited <=> a.edited
        <4>1. q.body = c.body
          BY <2>1, <2>2, <3>3
        <4>2. c.edited = a.edited
          BY <3>3, RowFields
        <4>3. q.card = IF (c.body = NoText /\ ~c.edited) \/ (c.body = a.body /\ c.card = NoCard)
                       THEN a.card ELSE c.card
          BY <1>2, <2>1, <4>2 DEF MergedCard
        <4> QED
          BY <2>2, <4>1, <4>3
      <3> QED
        BY <3>1, <3>2, <3>3
    <2> QED
      BY <2>1, <2>3, <2>4 DEF WellSaid
  <1> QED
    BY <1>1, <1>2

(* The merge keeps rows well said and is, for the reader of either row, a   *)
(* step forward.                                                            *)
LEMMA MergedWell ==
    ASSUME NEW c \in Row, NEW a \in Row, WellSaid(c), WellSaid(a)
    PROVE  /\ WellSaid(Merged(c, a))
           /\ Follows(PhaseOf(c), PhaseOf(Merged(c, a)))
           /\ Follows(PhaseOf(a), PhaseOf(Merged(c, a)))
           /\ Merged(c, a).status \in {c.status, a.status}
           /\ Rank[Merged(c, a).status] >= Rank[c.status]
           /\ Rank[Merged(c, a).status] >= Rank[a.status]
           /\ Merged(c, a).kind = "view_once" => "view_once" \in {c.kind, a.kind}
  <1> DEFINE q == Joined(c, a)
             u == Merged(c, a)
  <1>1. q \in Row /\ u \in Row /\ u = Redacted(q)
    BY JoinedType, MergedType, MergedIs
  <1>2. u.kind = q.kind /\ u.edited = q.edited /\ u.revoked = q.revoked /\ u.status = q.status
    BY <1>1, RedactedFields
  <1>3. WellSaid(u)
    <2>1. CASE q.kind = "view_once"
      BY <1>1, <2>1, RedactedWell
    <2>2. CASE q.kind # "view_once"
      <3>1. WellSaid(q)
        BY <2>2, JoinedFields, PlainJoinedWell
      <3> QED
        BY <1>1, <3>1, RedactedWell
    <2> QED
      BY <2>1, <2>2
  <1>4. /\ u.revoked = EitherRevoked(c, a) /\ u.edited = (c.edited \/ a.edited)
        /\ "view_once" \in {c.kind, a.kind} => u.kind = "view_once"
        /\ u.kind = "view_once" => "view_once" \in {c.kind, a.kind}
        /\ u.status = (IF Rank[a.status] > Rank[c.status] THEN a.status ELSE c.status)
    BY <1>2, JoinedFields
  <1>5. Follows(PhaseOf(c), PhaseOf(u)) /\ Follows(PhaseOf(a), PhaseOf(u))
    BY <1>1, <1>4, FlagsFollow DEF EitherRevoked
  <1>6. Rank[c.status] \in 0..4 /\ Rank[a.status] \in 0..4
    BY RowFields, RankType
  <1> QED
    BY <1>3, <1>4, <1>5, <1>6

LEMMA RedactedRowWell ==
    ASSUME NEW r \in Row, WellSaid(r)
    PROVE  /\ WellSaid(Redacted(r)) /\ Follows(PhaseOf(r), PhaseOf(Redacted(r)))
           /\ Redacted(r).status = r.status /\ Redacted(r).kind = r.kind
  BY PlaceholderType, RedactedWell, RedactedFields, FlagsFollow

=============================================================================
