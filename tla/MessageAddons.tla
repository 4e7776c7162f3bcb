--------------------------- MODULE MessageAddons ----------------------------
(* What others add to one message: the votes of one voter on a poll and the *)
(* reactions of one reader. Each is a message of its own with the time its  *)
(* sender gave it. It may come before the message it is about, late, again, *)
(* and once more inside the history of that message. A vote may come before *)
(* it can be decrypted, or be one that never can; and it may come under     *)
(* either of the voter's two addresses.                                     *)
EXTENDS Integers

CONSTANTS
    MaxSaid,  \* how often the voter votes, the reader reacts
    MaxDrops, \* how often the message is cleared away here
    None      \* nothing stored, nothing in hand

Times     == 1 .. MaxSaid
Addresses == {"pn", "lid"}

AddonsAssumption ==
    /\ MaxSaid \in Nat /\ MaxDrops \in Nat
    /\ None \notin Nat /\ None \notin [time : Nat, pending : BOOLEAN]

VARIABLES
    addon,     \* what this behaviour looks at: two tables that share nothing
    said,      \* what was voted or reacted so far: 1 .. said
    removals,  \* the reactions among them that take the reaction back
    sender,    \* the address each vote was sent from
    row,       \* the message here: "absent", "there" or "revoked"
    drops,     \* how often it was cleared
    votes,     \* poll_votes, by address
    reaction,  \* the row of reactions, the time of the emoji it holds
    info,      \* poll.info in hand: the votes it read, still to save
    shown,     \* history: the vote poll.info showed, until it is asked again
    came,      \* history: the newest that came since the message was cleared
    readable,  \* history: the newest vote that was decrypted since then
    takenBack, \* history: the newest removal that came since then
    replayed   \* history: the emojis that came after a newer removal

wire   == <<addon, said, removals, sender>>
memory == <<came, readable, takenBack, replayed>>
vars   == <<wire, row, drops, votes, reaction, info, shown, memory>>

NoVotes == [a \in Addresses |-> None]

Init ==
    /\ addon \in {"votes", "reactions"}
    /\ said = 0 /\ removals = {} /\ sender = [t \in Times |-> "pn"]
    /\ row = "absent" /\ drops = 0
    /\ votes = NoVotes /\ reaction = None
    /\ info = None /\ shown = None
    /\ came = 0 /\ readable = 0 /\ takenBack = 0 /\ replayed = {}

(* They vote, react, or take their reaction back.                           *)
Speak ==
    /\ said < MaxSaid /\ said' = said + 1
    /\ \/ /\ addon = "votes" /\ UNCHANGED removals
          /\ \E a \in Addresses : sender' = [sender EXCEPT ![said'] = a]
       \/ /\ addon = "reactions" /\ UNCHANGED sender
          /\ removals' = removals \/ removals' = removals \cup {said'}
    /\ UNCHANGED <<addon, row, drops, votes, reaction, info, shown, memory>>

-----------------------------------------------------------------------------
(* Votes. *)

Vote(time, pending) == [time |-> time, pending |-> pending]

(* Mutant: of the same vote, the one that came first stands.                *)
NewerAlone(v, stored) == stored = None \/ v.time > stored.time

(* A newer vote replaces the stored one, and the decrypted one the same     *)
(* that was pending; a deleted poll takes none.                             *)
Better(v, stored) ==
    \/ stored = None
    \/ v.time > stored.time
    \/ v.time = stored.time /\ stored.pending /\ ~v.pending

(* Mutant: the vote is saved whatever became of the poll.                   *)
SaveAnyPollVote(a, v) ==
    votes' = IF Better(v, votes[a]) THEN [votes EXCEPT ![a] = v] ELSE votes
SavePollVote(a, v) ==
    votes' = IF row # "revoked" /\ Better(v, votes[a]) THEN [votes EXCEPT ![a] = v] ELSE votes

Later(m, n) == IF m < n THEN n ELSE m

Receive(a, t, pending) ==
    /\ SavePollVote(a, Vote(t, pending))
    /\ came' = Later(came, t)
    /\ readable' = IF pending THEN readable ELSE Later(readable, t)
    /\ UNCHANGED <<wire, row, drops, reaction, info, shown, takenBack, replayed>>

(* A vote that does not decrypt is kept to be tried again: the poll, which  *)
(* holds the key, has not come, or the key or the payload is of no use.     *)
receivePollVote ==
    /\ addon = "votes"
    /\ \E t \in 1 .. said, pending \in BOOLEAN : Receive(sender[t], t, pending)

(* History carries the poll with the votes its phone knew, decrypted, each  *)
(* under the address that phone had for the voter.                          *)
HistoryVote ==
    /\ addon = "votes" /\ row # "absent"
    /\ \E t \in 1 .. said, a \in Addresses : Receive(a, t, FALSE)

(* A vote made here is saved once WhatsApp took it, whatever became of the  *)
(* poll meanwhile.                                                          *)
votePoll ==
    /\ addon = "votes"
    /\ \E t \in 1 .. said : Receive(sender[t], t, FALSE)

(* poll.info reads the votes of a poll that is there, ...                   *)
BeginPollInfo ==
    /\ addon = "votes" /\ row = "there" /\ info = None
    /\ info' = [read |-> votes, save |-> {a \in Addresses : votes[a] # None /\ votes[a].pending},
                came |-> came, readable |-> readable]
    /\ shown' = None
    /\ UNCHANGED <<wire, row, drops, votes, reaction, memory>>

(* ... decrypts and saves those it could not read before (when saving       *)
(* fails, it has them in hand all the same), ...                            *)
Decrypted(a) == [info EXCEPT !.save = @ \ {a}, !.read[a].pending = FALSE]
SaveDecrypted ==
    /\ info # None
    /\ \E a \in info.save :
           /\ info' = Decrypted(a)
           /\ \/ /\ SavePollVote(a, Vote(info.read[a].time, FALSE))
                 /\ readable' = Later(readable, info.read[a].time)
              \/ UNCHANGED <<votes, readable>>
    /\ UNCHANGED <<wire, row, drops, reaction, shown, came, takenBack, replayed>>

(* ... or finds that it cannot read one now either, ...                     *)
CannotDecrypt ==
    /\ info # None
    /\ \E a \in info.save : info' = [info EXCEPT !.save = @ \ {a}]
    /\ UNCHANGED <<wire, row, drops, votes, reaction, shown, memory>>

(* Mutant: the vote under the phone number wins.                            *)
LatestOfPn(read) == IF read["pn"] # None THEN read["pn"] ELSE read["lid"]

(* ... and goes by the newest vote of a voter, whichever address it names,  *)
(* before the same one not decrypted. It counts that vote, or says that one *)
(* is pending.                                                              *)
Latest(read) ==
    LET cast == {read[a] : a \in Addresses} \ {None}
    IN  IF cast = {} THEN None
        ELSE CHOOSE v \in cast : \A other \in cast : ~Better(other, v)
FinishPollInfo ==
    /\ info # None /\ info.save = {}
    /\ shown' = [vote |-> Latest(info.read), came |-> info.came, readable |-> info.readable]
    /\ info' = None
    /\ UNCHANGED <<wire, row, drops, votes, reaction, memory>>

-----------------------------------------------------------------------------
(* Reactions. *)

(* Mutant: the reaction that comes last stands.                             *)
UpsertLastReaction(t) ==
    reaction' = IF t \in removals THEN None ELSE IF row # "absent" THEN t ELSE reaction

(* An older reaction does not replace the stored one, an older removal does *)
(* not clear it, and a reaction to a message that is not there is refused.  *)
UpsertReaction(t) ==
    reaction' = IF t \in removals
                THEN IF reaction # None /\ reaction <= t THEN None ELSE reaction
                ELSE IF row # "absent" /\ (reaction = None \/ t >= reaction) THEN t
                ELSE reaction

(* A live reaction, one sent here, or one that history carries.             *)
React ==
    /\ addon = "reactions"
    /\ \E t \in 1 .. said :
           /\ UpsertReaction(t)
           /\ IF row = "absent" THEN UNCHANGED <<came, takenBack, replayed>>
              ELSE /\ came' = Later(came, t)
                   /\ takenBack' = IF t \in removals THEN Later(takenBack, t) ELSE takenBack
                   /\ replayed' = IF t \notin removals /\ t < takenBack THEN replayed \cup {t}
                                  ELSE replayed
    /\ UNCHANGED <<wire, row, drops, votes, info, shown, readable>>

-----------------------------------------------------------------------------
(* The message. *)

(* It comes, live or by history; a deleted one stays deleted, and storing   *)
(* it once more takes the votes of a deleted poll (revoke_poll_votes).      *)
UpsertMessage ==
    /\ row' = IF row = "revoked" THEN row ELSE "there"
    /\ votes' = IF row = "revoked" THEN NoVotes ELSE votes
    /\ UNCHANGED <<wire, drops, reaction, info, shown, memory>>

(* Deleted for everyone: the row stays, without its votes.                  *)
MarkRevoked ==
    /\ row = "there" /\ row' = "revoked"
    /\ votes' = NoVotes
    /\ UNCHANGED <<wire, drops, reaction, info, shown, memory>>

(* The reader clears the conversation here.                                 *)
ClearChatMessages ==
    /\ drops < MaxDrops /\ drops' = drops + 1
    /\ row' = "absent" /\ votes' = NoVotes /\ reaction' = None
    /\ came' = 0 /\ readable' = 0 /\ takenBack' = 0 /\ replayed' = {}
    /\ UNCHANGED <<wire, info, shown>>

Next ==
    \/ Speak
    \/ receivePollVote \/ HistoryVote \/ votePoll
    \/ BeginPollInfo \/ SaveDecrypted \/ CannotDecrypt \/ FinishPollInfo
    \/ React
    \/ UpsertMessage \/ MarkRevoked \/ ClearChatMessages

Spec == Init /\ [][Next]_vars

-----------------------------------------------------------------------------
Stored == {votes[a] : a \in Addresses} \ {None}

TypeOK ==
    /\ said \in 0 .. MaxSaid /\ removals \subseteq 1 .. said
    /\ row \in {"absent", "there", "revoked"} /\ drops \in 0 .. MaxDrops
    /\ Stored \subseteq [time : 1 .. said, pending : BOOLEAN]
    /\ reaction = None \/ reaction \in (1 .. said) \ removals
    /\ {came, readable, takenBack} \subseteq 0 .. said /\ replayed \subseteq 1 .. said

(* A deleted poll holds no vote, though a vote may be on its way or in the  *)
(* hands of poll.info when it is deleted.                                   *)
DeletedPollHasNoVotes == row = "revoked" => Stored = {}

(* What poll.info goes by for a voter is the newest vote that had come, or  *)
(* a newer one, by whichever address and in whatever order: the stored      *)
(* votes may be replaced, deleted or decrypted while it works. So it never  *)
(* counts an older vote in place of one it cannot read; and a vote that was *)
(* decrypted once is read, though the same one comes again undecrypted.     *)
ShownVoteIsTheLatest ==
    shown # None /\ shown.came # 0 =>
        /\ shown.vote # None
        /\ shown.vote.time >= shown.came
        /\ shown.vote.pending => shown.vote.time > shown.readable

(* The emoji shown is the newest that came, in whatever order reactions and *)
(* their replays come. When the newest that came takes the reaction back,   *)
(* none is shown, except one replayed after that: a removal deletes the row *)
(* and leaves nothing that an older emoji could be compared with.           *)
LatestReactionIsShown ==
    addon = "reactions" /\ came # 0 =>
        IF came \in removals THEN reaction = None \/ reaction \in replayed ELSE reaction = came

(* What others add to a message is shown as they last said it, with the two *)
(* exceptions above (a vote that cannot be read, an emoji replayed after    *)
(* its removal), and goes with the message.                                 *)
LatestIsShown == DeletedPollHasNoVotes /\ ShownVoteIsTheLatest /\ LatestReactionIsShown

=============================================================================
