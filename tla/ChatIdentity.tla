---------------------------- MODULE ChatIdentity ----------------------------
(* One person, two addresses: WhatsApp names a conversation by the phone    *)
(* number (pn) or by a privacy-preserving id (lid). Once the mapping is     *)
(* known, LinkChatAliases moves what is stored under the number to the id   *)
(* and chat_aliases sends later calls there (internal/store/store.go).      *)
(*                                                                          *)
(* A store method asks chat_aliases first, outside its transaction, so      *)
(* between the answer and the transaction another goroutine may link the    *)
(* two addresses or delete the conversation. A call is two steps here. One  *)
(* message, one voter and one reader who reacts stand for all.              *)
EXTENDS MessageMerge, FiniteSets

CONSTANTS
    Callers,   \* goroutines that call the store
    Copies,    \* the copies of the message that arrive
    MaxCalls,  \* bound on the calls
    MaxStamp,  \* bound on the times of votes and reactions
    NoRow,     \* no such row
    NoCall     \* the goroutine calls nothing

Keys   == {"pn", "lid"}
Stamps == 1..MaxStamp
Never  == 0          \* no vote, no reaction

Call == [do: {"upsert"}, at: Keys, copy: Copies]
          \cup [do: {"edit"}, at: Keys, version: Versions \ {1}]
          \cup [do: {"vote", "react"}, at: Keys, stamp: Stamps]
          \cup [do: {"revoke", "receipt", "delete", "clear", "link"}, at: Keys]

ASSUME IdentityAssumption ==
    /\ MaxVersion \in Nat \ {0} /\ MaxCalls \in Nat /\ MaxStamp \in Nat
    /\ Copies \subseteq {r \in Row : ~r.revoked /\ WellSaid(r)}
    /\ NoRow \notin Row
    /\ NoCall \notin Call

VARIABLES
    mine,       \* this account wrote the message
    linked,     \* chat_aliases: the number is an alias of the id
    chats,      \* the rows of chats
    rows,       \* messages, by conversation
    revisions,  \* message_revisions: the bodies, oldest first
    votes,      \* poll_votes: the time of the vote that counts
    reactions,  \* reactions: the time of the reaction shown
    call,       \* what each goroutine is about to do, at which address
    calls,      \* calls so far
    recorded,   \* history: versions recorded since the conversation was emptied
    late        \* history: a call wrote to the number after the two were linked

tables  == <<linked, chats, rows, revisions, votes, reactions>>
history == <<recorded, late>>
vars    == <<mine, tables, call, calls, history>>

Stored(k) == rows[k] # NoRow

Init ==
    /\ mine \in BOOLEAN
    /\ linked = FALSE /\ chats = {}
    /\ rows = [k \in Keys |-> NoRow]
    /\ revisions = [k \in Keys |-> <<>>]
    /\ votes = [k \in Keys |-> Never] /\ reactions = [k \in Keys |-> Never]
    /\ call = [c \in Callers |-> NoCall] /\ calls = 0
    /\ recorded = {} /\ late = FALSE

-----------------------------------------------------------------------------
(* The first half of a call: the address it will work at.                   *)

(* canonicalChatJID.                                                        *)
Canonical(k) == IF linked THEN "lid" ELSE k

Begin(c, do) ==
    /\ call[c] = NoCall
    /\ calls < MaxCalls
    /\ calls' = calls + 1
    /\ call' = [call EXCEPT ![c] = do]
    /\ UNCHANGED <<mine, tables, history>>

(* messageFromEvent: what this account wrote is at least sent, what another *)
(* wrote is received, and only the latter can be protected.                 *)
Fits(m) == IF mine THEN m.status # "received" /\ m.kind # "view_once"
                   ELSE m.status = "received"

(* Only its author can correct a message through message.edit.              *)
Resolve(c) == \E k \in Keys :
    \/ \E m \in Copies :
          /\ Fits(m)
          /\ Begin(c, [do |-> "upsert", at |-> Canonical(k), copy |-> m])
    \/ /\ mine
       /\ \E v \in Versions \ {1} :
             Begin(c, [do |-> "edit", at |-> Canonical(k), version |-> v])
    \/ \E what \in {"vote", "react"}, t \in Stamps :
          Begin(c, [do |-> what, at |-> Canonical(k), stamp |-> t])
    \/ \E what \in {"revoke", "receipt", "delete"} :
          Begin(c, [do |-> what, at |-> Canonical(k)])

(* ClearChatMessages takes the address as it is given.                      *)
ResolveClear(c) == \E k \in Keys : Begin(c, [do |-> "clear", at |-> k])

(* LinkChatAliases returns at once when the alias is known.                 *)
ResolveLink(c) == ~linked /\ Begin(c, [do |-> "link", at |-> "pn"])

-----------------------------------------------------------------------------
(* The second half: one transaction.                                        *)

Takes(c, what) ==
    /\ call[c] # NoCall /\ call[c].do = what
    /\ call' = [call EXCEPT ![c] = NoCall]
    /\ UNCHANGED <<mine, calls>>

(* history: what a write at k means.                                        *)
Writes(k) ==
    /\ late' = (late \/ (linked /\ k = "pn"))
    /\ recorded' = recorded \cup {revisions'[k][i] : i \in DOMAIN revisions'[k]}

(* The trigger revoke_poll_votes, for an UPDATE of the row at k.            *)
VotesAfter(k, r) == IF r.revoked \/ r.kind = "view_once" THEN Never ELSE votes[k]

(* UpsertMessage creates the conversation when it is not there.             *)
UpsertMessage(c) ==
    LET k == call[c].at  m == call[c].copy IN
    /\ Takes(c, "upsert")
    /\ chats' = chats \cup {k}
    /\ rows' = [rows EXCEPT ![k] = IF Stored(k) THEN Upserted(rows[k], m) ELSE m]
    /\ votes' = [votes EXCEPT ![k] = IF Stored(k) THEN VotesAfter(k, rows'[k]) ELSE @]
    /\ UNCHANGED <<linked, revisions, reactions>>
    /\ Writes(k)

(* MarkRevoked; nothing happens to a message that is not there.             *)
MarkRevoked(c) ==
    LET k == call[c].at IN
    /\ Takes(c, "revoke")
    /\ IF Stored(k)
       THEN /\ revisions' = [revisions EXCEPT ![k] = Recorded(@, rows[k])]
            /\ rows' = [rows EXCEPT ![k] = RevokedRow(@)]
            /\ votes' = [votes EXCEPT ![k] = Never]
       ELSE UNCHANGED <<revisions, rows, votes>>
    /\ UNCHANGED <<linked, chats, reactions>>
    /\ Writes(k)

(* EditMessage fails when there is no live row.                             *)
EditMessage(c) ==
    LET k == call[c].at IN
    /\ Takes(c, "edit")
    /\ IF Stored(k) /\ ~rows[k].revoked
       THEN /\ revisions' = [revisions EXCEPT ![k] = Recorded(@, rows[k])]
            /\ rows' = [rows EXCEPT ![k] = EditedRow(@, call[c].version)]
       ELSE UNCHANGED <<revisions, rows>>
    /\ UNCHANGED <<linked, chats, votes, reactions>>
    /\ Writes(k)

UpdateReceipt(c) ==
    LET k == call[c].at IN
    /\ Takes(c, "receipt")
    /\ rows' = IF Stored(k) THEN [rows EXCEPT ![k] = ReceiptRow(@, "read")] ELSE rows
    /\ UNCHANGED <<linked, chats, revisions, votes, reactions>>
    /\ Writes(k)

(* SavePollVote: a later vote replaces an earlier one, no vote joins a poll *)
(* that was taken back, and the foreign key wants the conversation.         *)
SavePollVote(c) ==
    LET k == call[c].at  t == call[c].stamp
        taken == Stored(k) /\ (rows[k].revoked \/ rows[k].kind = "view_once")
    IN
    /\ Takes(c, "vote")
    /\ votes' = IF k \in chats /\ ~taken /\ t > votes[k]
                THEN [votes EXCEPT ![k] = t] ELSE votes
    /\ UNCHANGED <<linked, chats, rows, revisions, reactions>>
    /\ Writes(k)

(* UpsertReactionChanged; the foreign key wants the message.                *)
UpsertReaction(c) ==
    LET k == call[c].at  t == call[c].stamp IN
    /\ Takes(c, "react")
    /\ reactions' = IF Stored(k) /\ t >= reactions[k]
                    THEN [reactions EXCEPT ![k] = t] ELSE reactions
    /\ UNCHANGED <<linked, chats, rows, revisions, votes>>
    /\ Writes(k)

(* Mutant: the votes stay behind.                                           *)
EmptyKeepsVotes(k) ==
    /\ rows' = [rows EXCEPT ![k] = NoRow]
    /\ revisions' = [revisions EXCEPT ![k] = <<>>]
    /\ reactions' = [reactions EXCEPT ![k] = Never]
    /\ recorded' = {} /\ UNCHANGED <<votes, late>>

(* What is left of a conversation when its messages are deleted.            *)
Empty(k) ==
    /\ rows' = [rows EXCEPT ![k] = NoRow]
    /\ revisions' = [revisions EXCEPT ![k] = <<>>]
    /\ votes' = [votes EXCEPT ![k] = Never]
    /\ reactions' = [reactions EXCEPT ![k] = Never]
    /\ recorded' = {} /\ UNCHANGED late

(* DeleteChat also forgets that the addresses are one.                      *)
DeleteChat(c) ==
    /\ Takes(c, "delete")
    /\ Empty(call[c].at)
    /\ chats' = chats \ {call[c].at}
    /\ linked' = FALSE

ClearChatMessages(c) ==
    /\ Takes(c, "clear")
    /\ Empty(call[c].at)
    /\ UNCHANGED <<linked, chats>>

(* Mutant: the conversation of the number is kept when it has been merged.  *)
MovedChatsKept == IF "pn" \in chats THEN chats \cup {"lid"} ELSE chats

MovedChats == IF "pn" \in chats THEN (chats \ {"pn"}) \cup {"lid"} ELSE chats

MovedRow ==
    CASE ~Stored("pn")                   -> rows["lid"]
      [] Stored("pn") /\ ~Stored("lid")  -> Redacted(rows["pn"])
      [] OTHER                           -> Merged(rows["lid"], rows["pn"])

(* The trigger sees the UPDATE of a row that both had; then the later vote  *)
(* of the two counts, unless the poll was taken back.                       *)
MovedVote ==
    LET own == IF Stored("pn") /\ Stored("lid") THEN VotesAfter("lid", MovedRow) ELSE votes["lid"]
        taken == MovedRow # NoRow /\ (MovedRow.revoked \/ MovedRow.kind = "view_once")
    IN IF taken \/ votes["pn"] <= own THEN own ELSE votes["pn"]

(* INSERT OR IGNORE: a reaction under the canonical address stays.          *)
MovedReaction == IF reactions["lid"] # Never THEN reactions["lid"] ELSE reactions["pn"]

(* LinkChatAliases. The earlier versions kept under the number go with its  *)
(* conversation.                                                            *)
LinkChatAliases(c) ==
    /\ Takes(c, "link")
    /\ linked' = TRUE
    /\ chats' = MovedChats
    /\ rows' = [pn |-> NoRow, lid |-> MovedRow]
    /\ revisions' = [revisions EXCEPT !["pn"] = <<>>]
    /\ votes' = [pn |-> Never, lid |-> MovedVote]
    /\ reactions' = [pn |-> Never, lid |-> MovedReaction]
    /\ UNCHANGED history

Next == \E c \in Callers :
    \/ Resolve(c) \/ ResolveClear(c) \/ ResolveLink(c)
    \/ UpsertMessage(c) \/ MarkRevoked(c) \/ EditMessage(c) \/ UpdateReceipt(c)
    \/ SavePollVote(c) \/ UpsertReaction(c)
    \/ DeleteChat(c) \/ ClearChatMessages(c) \/ LinkChatAliases(c)

Spec == Init /\ [][Next]_vars

-----------------------------------------------------------------------------
(* Properties                                                               *)

(* Every variable holds the kind of value the code can put there, and what  *)
(* hangs off a conversation or a message has it: the foreign keys hold.     *)
TypeOK ==
    /\ mine \in BOOLEAN
    /\ linked \in BOOLEAN /\ chats \subseteq Keys
    /\ rows \in [Keys -> Row \cup {NoRow}]
    /\ revisions \in [Keys -> Seq(Versions)]
    /\ votes \in [Keys -> 0..MaxStamp] /\ reactions \in [Keys -> 0..MaxStamp]
    /\ call \in [Callers -> Call \cup {NoCall}]
    /\ calls \in 0..MaxCalls
    /\ recorded \subseteq Versions /\ late \in BOOLEAN
    /\ \A k \in Keys :
          /\ Stored(k) \/ votes[k] # Never => k \in chats
          /\ reactions[k] # Never => Stored(k)

(* Whatever is linked, deleted and written behind whose back, the message   *)
(* of the canonical conversation lives the life a message is promised.      *)
Life == INSTANCE MessageLife WITH
            Texts <- Versions, Original <- 1, Nothing <- NoText,
            phase <- IF Stored("lid") THEN PhaseOf(rows["lid"]) ELSE "absent",
            text <- IF Stored("lid") THEN rows["lid"].body ELSE NoText,
            mark <- IF Stored("lid") THEN Rank[rows["lid"].status] ELSE 0

CanonicalImplementsLife == Life!Spec

(* "A tombstone wins over either live copy; an edited revision wins over    *)
(* unedited history [...] Receipt milestones do not regress"                *)
(* (docs/ARCHITECTURE.md): who read the message under the number reads it,  *)
(* after the two were linked, at the same point of its life or later, and   *)
(* the vote that counts is no older.                                        *)
LinkingLosesNothing ==
    [][~linked /\ linked' /\ Stored("pn") =>
          /\ rows'["lid"] # NoRow
          /\ PhaseOf(rows'["lid"]) \in Life!Later(PhaseOf(rows["pn"]))
          /\ Rank[rows'["lid"].status] >= Rank[rows["pn"].status]
          /\ \/ rows'["lid"].revoked \/ rows'["lid"].kind = "view_once"
             \/ votes'["lid"] >= votes["pn"]]_vars

(* In both conversations the card under the message describes its text,     *)
(* also after two copies with cards of their own were merged.               *)
CardDescribesText ==
    \A k \in Keys : Stored(k) /\ ~rows[k].revoked => rows[k].card \in {NoCard, rows[k].body}

(* "future reads/writes resolve to the canonical chat": while the addresses *)
(* are linked nothing is stored under the number, where no reader would     *)
(* find it, unless some call was between its two halves when they were.     *)
NothingBehindTheAlias == linked /\ ~late => "pn" \notin chats /\ ~Stored("pn")

-----------------------------------------------------------------------------
(* What the documentation says and the code does not do.                    *)

(* "Identity consolidation merges all message metadata transactionally": a  *)
(* version that was recorded can still be read in one of the two            *)
(* conversations.                                                           *)
VersionsSurviveLinking ==
    \A v \in recorded : \E k \in Keys : \E i \in DOMAIN revisions[k] : revisions[k][i] = v

=============================================================================
