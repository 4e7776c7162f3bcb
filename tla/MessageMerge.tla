---------------------------- MODULE MessageMerge ----------------------------
(* What the statements of internal/store do to one row of the table         *)
(* messages: the upsert of a copy that arrives, the edit, the revocation,   *)
(* the receipt, the link card and the view-once redaction.                  *)
(*                                                                          *)
(* A text is the number of the version that said it, 1 for the original. A  *)
(* link card is the number of the text it describes. Columns that follow    *)
(* the body (mentions) or the file (name, size, thumbnail) are not shown.   *)
EXTENDS Integers, Sequences

CONSTANT MaxVersion   \* bound on the versions of one message

Versions == 1..MaxVersion
NoText   == 0
NoCard   == 0
Kinds    == {"text", "image", "view_once", "revoked"}

(* status: how far a message got, in the order the merges respect.          *)
Rank == [received |-> 0, sent |-> 1, delivered |-> 2, read |-> 3, played |-> 4]
Statuses == DOMAIN Rank

Row == [kind: Kinds, body: Versions \cup {NoText}, edited: BOOLEAN,
        revoked: BOOLEAN, status: Statuses,
        card: Versions \cup {NoCard},   \* link_url, link_title, ...
        media: BOOLEAN]                 \* media_path names a file

(* What a row or a copy says: nothing once it was taken back or protected,  *)
(* the original text until it is edited, and never a card of another text.  *)
WellSaid(r) ==
    /\ r.revoked => r.body = NoText
    /\ r.kind = "view_once" => r.body = NoText /\ r.card = NoCard
    /\ ~r.revoked /\ r.kind # "view_once" =>
          r.body # NoText /\ (r.edited <=> r.body # 1) /\ r.card \in {NoCard, r.body}

(* ViewOncePlaceholder: routing and receipt metadata only.                  *)
Placeholder(m) ==
    [kind |-> "view_once", body |-> NoText, edited |-> FALSE,
     revoked |-> m.revoked, status |-> m.status, card |-> NoCard, media |-> FALSE]

(* What a protected row keeps.                                              *)
Bare(r) ==
    [kind |-> "view_once", body |-> NoText, edited |-> r.edited,
     revoked |-> r.revoked, status |-> r.status, card |-> NoCard, media |-> FALSE]

(* redactViewOnceTx: a protected row keeps no content, whatever its flags.  *)
Redacted(r) == IF r.kind = "view_once" THEN Bare(r) ELSE r

(* Mutant: the status that arrives is the one stored.                       *)
LastStatus(old, new) == new

(* The CASE on status of UpsertMessage and of UpdateReceipt: from delivered *)
(* on, an earlier milestone does not replace a later one.                   *)
LaterStatus(old, new) ==
    IF Rank[old] >= Rank["delivered"] /\ Rank[new] < Rank[old] THEN old ELSE new

(* Mutant: a stored correction does not stand against an unedited copy.     *)
TombstoneOnly(old, new) == old.revoked

(* The stored text and its card stand against this copy.                    *)
TextStands(old, new) == old.revoked \/ (old.edited /\ ~new.edited)

(* The card belongs to the revision of its text.                            *)
UpsertedCard(old, new) ==
    CASE TextStands(old, new)                   -> old.card
      [] ~TextStands(old, new) /\ new.edited /\ old.body # new.body -> new.card
      [] OTHER -> IF new.card # NoCard THEN new.card ELSE old.card

(* Protection is sticky: either side's marker makes the copy a placeholder. *)
ProtectedCopy(old, copy) ==
    IF copy.kind = "view_once" \/ old.kind = "view_once" THEN Placeholder(copy) ELSE copy

(* UpsertMessage on a row that is there.                                    *)
Upserted(old, copy) ==
    LET new == ProtectedCopy(old, copy) IN
    Redacted([kind    |-> IF old.revoked THEN old.kind ELSE new.kind,
              body    |-> IF TextStands(old, new) THEN old.body ELSE new.body,
              edited  |-> old.edited \/ new.edited,
              revoked |-> old.revoked \/ new.revoked,
              status  |-> LaterStatus(old.status, new.status),
              card    |-> UpsertedCard(old, new),
              media   |-> old.media \/ new.media])

(* EditMessage: the new text has no card yet.                               *)
EditedRow(r, body) ==
    [kind |-> r.kind, body |-> body, edited |-> TRUE, revoked |-> r.revoked,
     status |-> r.status, card |-> NoCard, media |-> r.media]

(* MarkRevoked: the text and the kind go; the other columns stay.           *)
RevokedRow(r) ==
    [kind |-> IF r.kind = "view_once" THEN r.kind ELSE "revoked",
     body |-> NoText, edited |-> r.edited, revoked |-> TRUE,
     status |-> r.status, card |-> r.card, media |-> r.media]

(* UpdateReceipt.                                                           *)
ReceiptRow(r, status) ==
    [kind |-> r.kind, body |-> r.body, edited |-> r.edited, revoked |-> r.revoked,
     status |-> LaterStatus(r.status, status), card |-> r.card, media |-> r.media]

(* Mutant: a card is stored whatever the message says by now.               *)
CardAnyway(r, body, card) ==
    [kind |-> r.kind, body |-> r.body, edited |-> r.edited, revoked |-> r.revoked,
     status |-> r.status, card |-> card, media |-> r.media]

(* updateLinkPreview: a card resolved for a body the row no longer holds is *)
(* dropped.                                                                 *)
CardUpdated(r, body, card) ==
    IF r.revoked \/ r.body # body THEN r
    ELSE [kind |-> r.kind, body |-> r.body, edited |-> r.edited, revoked |-> r.revoked,
          status |-> r.status, card |-> card, media |-> r.media]

(* A reply that quotes this message as view-once protects it, unless it was *)
(* taken back.                                                              *)
QuotedAsViewOnce(r) ==
    IF r.revoked THEN Redacted(r) ELSE Bare(r)

(* Mutant: the deletion of the conversation's own copy is what counts.      *)
EitherRevokedForgetsAlias(c, a) == c.revoked

EitherRevoked(c, a) == c.revoked \/ a.revoked

(* Mutant: the card of the conversation's own copy is kept when it has one. *)
MergedCardOwn(c, a) ==
    IF EitherRevoked(c, a) THEN NoCard ELSE IF c.card # NoCard THEN c.card ELSE a.card

(* The card goes with the text that is kept.                                *)
MergedCard(c, a) ==
    CASE EitherRevoked(c, a)                      -> NoCard
      [] ~EitherRevoked(c, a) /\ c.edited # a.edited -> IF c.edited THEN c.card ELSE a.card
      [] OTHER -> IF (c.body = NoText /\ ~c.edited) \/ (c.body = a.body /\ c.card = NoCard)
                  THEN a.card ELSE c.card

(* mergeAliasMessagesSQL: two rows of one message, c under the canonical    *)
(* address of the conversation and a under its alias.                       *)
Merged(c, a) ==
    Redacted([kind    |-> CASE "view_once" \in {c.kind, a.kind} -> "view_once"
                            [] OTHER -> IF EitherRevoked(c, a) THEN "revoked" ELSE c.kind,
              body    |-> IF EitherRevoked(c, a) THEN NoText
                          ELSE IF c.edited \/ (~a.edited /\ c.body # NoText) THEN c.body
                          ELSE a.body,
              edited  |-> c.edited \/ a.edited,
              revoked |-> EitherRevoked(c, a),
              status  |-> IF Rank[a.status] > Rank[c.status] THEN a.status ELSE c.status,
              card    |-> MergedCard(c, a),
              media   |-> c.media \/ a.media])

(* Mutant: one earlier version is enough.                                   *)
RecordedOnce(revisions, r) ==
    IF r.body = NoText \/ revisions # <<>> THEN revisions ELSE Append(revisions, r.body)

(* recordRevision: what the row says now, unless it says nothing or the     *)
(* newest recorded version says the same.                                   *)
Recorded(revisions, r) ==
    IF r.body = NoText \/ (revisions # <<>> /\ revisions[Len(revisions)] = r.body)
    THEN revisions
    ELSE Append(revisions, r.body)

(* Where in its life the message of a row is, for its reader.               *)
PhaseOf(r) ==
    CASE r.revoked                             -> "deleted"
      [] ~r.revoked /\ r.kind = "view_once"    -> "protected"
      [] OTHER -> IF r.edited THEN "corrected" ELSE "original"

=============================================================================
