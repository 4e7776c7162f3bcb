----------------------------- MODULE ChatsProofs -----------------------------
(* What MCChats checks of a few messages, changes and devices, for any      *)
(* number of them: the votes and reactions of a message (MessageAddons),    *)
(* the unread badge (ChatUnread), the settings of the account               *)
(* (ChatSettings), and with CallsProofs the types of all five parts.        *)
EXTENDS CallsProofs, FiniteSetsExt, WellFoundedInduction, FiniteSetTheorems

-----------------------------------------------------------------------------
(* A set of naturals with a bound has a greatest member, and Max is it.     *)

LEMMA MaxOfBounded ==
    ASSUME NEW n \in Nat, NEW S \in SUBSET (0 .. n), S # {}
    PROVE  Max(S) \in S /\ \A z \in S : z <= Max(S)
<1> DEFINE T == {n - x : x \in S}
<1>1. T \subseteq Nat /\ T # {}
    <2>1. \A x \in S : x \in Int /\ x <= n
        OBVIOUS
    <2>2. \A x \in S : n - x \in Nat
        BY <2>1
    <2>3. PICK x \in S : TRUE
        OBVIOUS
    <2>4. n - x \in T
        BY <2>3
    <2> QED BY <2>2, <2>4
<1> DEFINE R == OpToRel(<, Nat)
<1>2. PICK t \in T : \A s \in T : <<s, t>> \notin R
    <2> HIDE DEF R, T
    <2> QED BY <1>1, NatLessThanWellFounded, WFMin DEF R
<1>3. PICK x \in S : t = n - x
    OBVIOUS
<1>4. \A y \in S : x >= y
    <2> SUFFICES ASSUME NEW y \in S, y > x PROVE FALSE
        OBVIOUS
    <2>1. n - y \in T /\ n - y < t /\ n - y \in Nat /\ t \in Nat
        BY <1>1, <1>3
    <2>2. <<n - y, t>> \in R
        BY <2>1 DEF OpToRel
    <2> QED BY <1>2, <2>1, <2>2
<1> HIDE DEF T, R
<1> DEFINE M == CHOOSE m \in S : \A y \in S : m >= y
<1>5. M \in S /\ \A y \in S : M >= y
    <2> QED BY <1>4
<1> QED BY <1>5 DEF Max

(* A member no other exceeds is the greatest.                               *)
LEMMA MaxIs ==
    ASSUME NEW S \in SUBSET Int, NEW x \in S, \A y \in S : y <= x
    PROVE  Max(S) = x
<1>1. \A m \in S : (\A y \in S : m >= y) => m = x
    OBVIOUS
<1> DEFINE M == CHOOSE m \in S : \A y \in S : m >= y
<1>2. M \in S /\ \A y \in S : M >= y
    <2> QED OBVIOUS
<1>3. M = x
    BY <1>1, <1>2
<1> QED BY <1>3 DEF Max

-----------------------------------------------------------------------------
(* Votes and reactions. *)

VotesOf(n) == [time : 1 .. n, pending : BOOLEAN]
Ballots(n) == [Addons!Addresses -> VotesOf(n) \cup {None}]

(* The vote of time t is there, or a newer one of the voter; and it is, or  *)
(* the newer one is, one that could be read.                                *)
Covers(ballots, t) ==
    t # 0 => \E a \in Addons!Addresses : ballots[a] # None /\ ballots[a].time >= t
Reads(ballots, t) ==
    t # 0 => \E a \in Addons!Addresses :
                 /\ ballots[a] # None /\ ballots[a].time >= t
                 /\ ballots[a].time = t => ~ballots[a].pending

AddonsBase ==
    /\ Addons!TypeOK /\ said \in Nat
    /\ addon \in {"votes", "reactions"}
    /\ sender \in [Addons!Times -> Addons!Addresses]
    /\ votes \in Ballots(said)

(* What poll.info has in hand covers what had come when it read the votes.  *)
InfoInv ==
    info # None =>
        /\ info \in [read : Ballots(said), save : SUBSET Addons!Addresses,
                     came : 0 .. said, readable : 0 .. said]
        /\ \A a \in info.save : info.read[a] # None
        /\ Covers(info.read, info.came) /\ Reads(info.read, info.readable)

(* Until the poll is deleted, its votes cover every vote that came.         *)
VotesInv ==
    /\ Addons!DeletedPollHasNoVotes
    /\ addon = "votes" /\ row # "revoked" => Covers(votes, came) /\ Reads(votes, readable)

(* The reaction there is came, and no newer one came, unless that one took  *)
(* it back and it came once more.                                           *)
ReactionInv ==
    addon = "reactions" =>
        /\ row = "absent" => reaction = None /\ came = 0
        /\ takenBack <= came
        /\ reaction # None => reaction <= came
        /\ came \in removals => takenBack = came
        /\ Addons!LatestReactionIsShown

AddonsInv == AddonsBase /\ InfoInv /\ VotesInv /\ ReactionInv /\ Addons!ShownVoteIsTheLatest

LEMMA InitAddonsInv == ASSUME Addons!AddonsAssumption, Addons!Init PROVE AddonsInv
<1> USE DEF Addons!Init, Addons!AddonsAssumption
<1>1. votes = [a \in Addons!Addresses |-> None] /\ Addons!Stored = {}
    BY DEF Addons!NoVotes, Addons!Stored
<1>2. AddonsBase
    BY <1>1 DEF AddonsBase, Addons!TypeOK, Ballots, Addons!Addresses
<1>3. InfoInv /\ Addons!ShownVoteIsTheLatest
    BY DEF InfoInv, Addons!ShownVoteIsTheLatest
<1>4. VotesInv
    BY <1>1 DEF VotesInv, Addons!DeletedPollHasNoVotes, Covers, Reads
<1>5. ReactionInv
    BY DEF ReactionInv, Addons!LatestReactionIsShown
<1> QED BY <1>2, <1>3, <1>4, <1>5 DEF AddonsInv

LEMMA LaterIs ==
    ASSUME NEW n \in Nat, NEW i \in 0 .. n, NEW j \in 0 .. n
    PROVE  /\ Addons!Later(i, j) \in 0 .. n /\ Addons!Later(i, j) \in {i, j}
           /\ i <= Addons!Later(i, j) /\ j <= Addons!Later(i, j)
    BY DEF Addons!Later

(* A vote that is saved leaves nothing uncovered.                           *)
LEMMA SavedVote ==
    ASSUME Addons!AddonsAssumption, AddonsBase, NEW a \in Addons!Addresses,
           NEW v \in VotesOf(said), Addons!SavePollVote(a, v)
    PROVE  /\ votes' \in Ballots(said)
           /\ row = "revoked" => votes' = votes
           /\ row # "revoked" =>
                  /\ Covers(votes', v.time)
                  /\ ~v.pending => Reads(votes', v.time)
                  /\ \A t \in Nat : Covers(votes, t) => Covers(votes', t)
                  /\ \A t \in Nat : Reads(votes, t) => Reads(votes', t)
<1> USE DEF Addons!SavePollVote, AddonsBase
<1>1. votes' \in Ballots(said)
    BY DEF Ballots
<1>2. v # None /\ v.time \in Nat /\ v.time # 0 /\ v.pending \in BOOLEAN
    BY DEF Addons!AddonsAssumption, VotesOf
<1>3. \A b \in Addons!Addresses : votes[b] # None =>
          votes[b].time \in Nat /\ votes[b].pending \in BOOLEAN
    BY DEF Ballots, VotesOf
<1>4. row # "revoked" =>
          /\ votes' = IF Addons!Better(v, votes[a]) THEN [votes EXCEPT ![a] = v] ELSE votes
          /\ votes \in [Addons!Addresses -> VotesOf(said) \cup {None}]
    BY DEF Ballots
<1>5. row # "revoked" =>
          /\ votes'[a] = IF Addons!Better(v, votes[a]) THEN v ELSE votes[a]
          /\ \A b \in Addons!Addresses : b # a => votes'[b] = votes[b]
    BY <1>4
<1>6. row # "revoked" => votes'[a] # None /\ votes'[a].time >= v.time
                         /\ (~v.pending /\ votes'[a].time = v.time => ~votes'[a].pending)
    BY <1>2, <1>3, <1>5 DEF Addons!Better
<1>7. row # "revoked" /\ votes[a] # None =>
          /\ votes'[a] # None /\ votes'[a].time >= votes[a].time
          /\ votes'[a].time = votes[a].time /\ ~votes[a].pending => ~votes'[a].pending
    BY <1>2, <1>3, <1>5 DEF Addons!Better
<1>8. \A b \in Addons!Addresses : votes'[b] # None => votes'[b].time \in Nat
    BY <1>1 DEF Ballots, VotesOf
<1>9. ASSUME row # "revoked", NEW t \in Nat, Covers(votes, t) PROVE Covers(votes', t)
    <2> SUFFICES ASSUME t # 0
                 PROVE  \E b \in Addons!Addresses : votes'[b] # None /\ votes'[b].time >= t
        BY DEF Covers
    <2>1. PICK b \in Addons!Addresses : votes[b] # None /\ votes[b].time >= t
        BY <1>9 DEF Covers
    <2>2. votes'[b] # None /\ votes'[b].time >= votes[b].time
        BY <1>3, <1>5, <1>7, <1>9, <2>1
    <2>3. votes[b].time \in Int /\ votes'[b].time \in Int /\ t \in Int
        BY <1>3, <1>8, <2>1, <2>2
    <2> QED BY <2>1, <2>2, <2>3
<1>10. ASSUME row # "revoked", NEW t \in Nat, Reads(votes, t) PROVE Reads(votes', t)
    <2> SUFFICES ASSUME t # 0
                 PROVE  \E b \in Addons!Addresses :
                            /\ votes'[b] # None /\ votes'[b].time >= t
                            /\ votes'[b].time = t => ~votes'[b].pending
        BY DEF Reads
    <2>1. PICK b \in Addons!Addresses :
              /\ votes[b] # None /\ votes[b].time >= t
              /\ votes[b].time = t => ~votes[b].pending
        BY <1>10 DEF Reads
    <2>2. /\ votes'[b] # None /\ votes'[b].time >= votes[b].time
          /\ votes'[b].time = votes[b].time /\ ~votes[b].pending => ~votes'[b].pending
        BY <1>3, <1>5, <1>7, <1>10, <2>1
    <2>3. votes[b].time \in Int /\ votes'[b].time \in Int /\ t \in Int
        BY <1>3, <1>8, <2>1, <2>2
    <2>4. votes'[b].time >= t
        BY <2>1, <2>2, <2>3
    <2>5. votes'[b].time = t => votes[b].time = t
        BY <2>1, <2>2, <2>3
    <2> QED BY <2>1, <2>2, <2>4, <2>5
<1>11. row # "revoked" => Covers(votes', v.time) /\ (~v.pending => Reads(votes', v.time))
    BY <1>6 DEF Covers, Reads
<1> QED BY <1>1, <1>9, <1>10, <1>11

Idle ==
    UNCHANGED <<addon, said, removals, sender, row, drops, reaction, shown, takenBack, replayed>>

(* One vote is saved for a time that has come.                              *)
LEMMA VoteKeepsAddons ==
    ASSUME Addons!AddonsAssumption, AddonsInv, addon = "votes",
           NEW t \in 1 .. said, NEW a \in Addons!Addresses, NEW p \in BOOLEAN,
           Addons!Receive(a, t, p)
    PROVE  AddonsInv'
<1> USE DEF AddonsInv
<1> DEFINE v == Addons!Vote(t, p)
<1>1. /\ Idle /\ UNCHANGED info /\ Addons!SavePollVote(a, v)
      /\ came' = Addons!Later(came, t)
      /\ readable' = IF p THEN readable ELSE Addons!Later(readable, t)
    BY DEF Addons!Receive, Idle, Addons!wire
<1>2. v \in VotesOf(said) /\ v.time = t /\ v.pending = p
    BY DEF VotesOf, Addons!Vote
<1>3. said \in Nat /\ came \in 0 .. said /\ readable \in 0 .. said /\ t \in 0 .. said
    BY DEF AddonsBase, Addons!TypeOK
<1>4. /\ came' \in 0 .. said /\ came' \in {came, t}
      /\ readable' \in 0 .. said /\ (readable' = readable \/ (readable' = t /\ ~p))
    BY <1>1, <1>3, LaterIs
<1> HIDE DEF v
<1>5. /\ votes' \in Ballots(said)
      /\ row = "revoked" => votes' = votes
      /\ row # "revoked" => /\ Covers(votes', t) /\ (~p => Reads(votes', t))
                            /\ Covers(votes, came) => Covers(votes', came)
                            /\ Reads(votes, readable) => Reads(votes', readable)
    <2>1. came \in Nat /\ readable \in Nat
        BY <1>3
    <2> QED BY <1>1, <1>2, <2>1, SavedVote
<1>6. AddonsBase'
    <2>1. Addons!Stored' \subseteq [time : 1 .. said, pending : BOOLEAN]
        BY <1>5 DEF Addons!Stored, Ballots, VotesOf
    <2> QED BY <1>1, <1>4, <1>5, <2>1 DEF AddonsBase, Addons!TypeOK, Idle
<1>7. InfoInv' /\ Addons!ShownVoteIsTheLatest'
    BY <1>1 DEF InfoInv, Addons!ShownVoteIsTheLatest, Covers, Reads, Ballots, VotesOf, Idle
<1>8. VotesInv'
    <2>1. Addons!DeletedPollHasNoVotes'
        BY <1>1, <1>5 DEF VotesInv, Addons!DeletedPollHasNoVotes, Addons!Stored, Idle
    <2>2. row' # "revoked" => Covers(votes', came') /\ Reads(votes', readable')
        BY <1>1, <1>4, <1>5 DEF VotesInv, Idle
    <2> QED BY <2>1, <2>2 DEF VotesInv, Covers, Reads
<1>9. ReactionInv'
    BY <1>1 DEF ReactionInv, Idle
<1> QED BY <1>6, <1>7, <1>8, <1>9

LEMMA SpeakKeepsAddons ==
    ASSUME Addons!AddonsAssumption, AddonsInv, Addons!Speak PROVE AddonsInv'
<1> USE DEF AddonsInv, Addons!Speak, Addons!memory
<1>1. /\ said' = said + 1 /\ said + 1 \in 1 .. MaxSaid /\ said' \in Nat
      /\ UNCHANGED <<addon, row, drops, votes, reaction, info, shown, came, readable, takenBack,
                     replayed>>
      /\ removals' \in SUBSET (removals \cup {said + 1})
      /\ removals \subseteq removals'
    BY DEF AddonsBase, Addons!TypeOK, Addons!AddonsAssumption
<1>2. /\ removals \subseteq 1 .. said /\ {came, readable, takenBack} \subseteq 0 .. said
      /\ replayed \subseteq 1 .. said
      /\ (reaction = None \/ reaction \in (1 .. said) \ removals)
    BY DEF AddonsBase, Addons!TypeOK
<1>3. sender' \in [Addons!Times -> Addons!Addresses]
    BY <1>1 DEF AddonsBase
<1>4. 1 .. said \subseteq 1 .. said' /\ 0 .. said \subseteq 0 .. said' /\ said + 1 \notin 0 .. said
    BY <1>1 DEF AddonsBase
<1>5. VotesOf(said) \subseteq VotesOf(said')
    BY <1>4 DEF VotesOf
<1>6. Ballots(said) \subseteq Ballots(said')
    BY <1>5 DEF Ballots
<1>7. AddonsBase'
    <2>1. Addons!Stored' \subseteq [time : 1 .. said', pending : BOOLEAN]
        BY <1>1, <1>5 DEF AddonsBase, Addons!TypeOK, Addons!Stored, VotesOf
    <2>2. removals' \subseteq 1 .. said' /\ replayed' \subseteq 1 .. said'
          /\ {came, readable, takenBack}' \subseteq 0 .. said'
        BY <1>1, <1>2, <1>4
    <2>3. reaction' = None \/ reaction' \in (1 .. said') \ removals'
        BY <1>1, <1>2, <1>4
    <2> QED BY <1>1, <1>3, <1>6, <2>1, <2>2, <2>3 DEF AddonsBase, Addons!TypeOK
<1>8. InfoInv'
    <2> SUFFICES ASSUME info' # None PROVE InfoInv!2'
        BY DEF InfoInv
    <2>1. InfoInv!2
        BY <1>1 DEF InfoInv
    <2> QED BY <1>1, <1>4, <1>6, <2>1 DEF Covers, Reads
<1>9. VotesInv' /\ Addons!ShownVoteIsTheLatest'
    BY <1>1 DEF VotesInv, Covers, Reads, Addons!DeletedPollHasNoVotes, Addons!Stored,
                Addons!ShownVoteIsTheLatest
<1>10. ReactionInv'
    <2>1. came \in removals' <=> came \in removals
        BY <1>1, <1>2, <1>4
    <2> QED BY <1>1, <2>1 DEF ReactionInv, Addons!LatestReactionIsShown
<1> QED BY <1>7, <1>8, <1>9, <1>10

LEMMA BeginKeepsAddons ==
    ASSUME Addons!AddonsAssumption, AddonsInv, Addons!BeginPollInfo PROVE AddonsInv'
<1> USE DEF AddonsInv, Addons!BeginPollInfo, Addons!wire, Addons!memory
<1>1. AddonsBase' /\ VotesInv' /\ ReactionInv' /\ Addons!ShownVoteIsTheLatest'
    BY DEF AddonsBase, Addons!TypeOK, Addons!Stored, VotesInv, Covers, Reads, ReactionInv,
           Addons!DeletedPollHasNoVotes, Addons!ShownVoteIsTheLatest, Addons!LatestReactionIsShown
<1>2. Covers(votes, came) /\ Reads(votes, readable)
    BY DEF VotesInv
<1>3. {came, readable} \subseteq 0 .. said /\ votes \in Ballots(said)
    BY DEF AddonsBase, Addons!TypeOK
<1>4. InfoInv'
    BY <1>2, <1>3 DEF InfoInv, Covers, Reads
<1> QED BY <1>1, <1>4

LEMMA DecryptKeepsAddons ==
    ASSUME Addons!AddonsAssumption, AddonsInv, Addons!SaveDecrypted PROVE AddonsInv'
<1>1. PICK a \in info.save :
        /\ info' = Addons!Decrypted(a)
        /\ \/ /\ Addons!SavePollVote(a, Addons!Vote(info.read[a].time, FALSE))
              /\ readable' = Addons!Later(readable, info.read[a].time)
           \/ UNCHANGED <<votes, readable>>
    BY DEF Addons!SaveDecrypted
<1> USE DEF AddonsInv, Addons!SaveDecrypted, Addons!wire
<1>2. /\ info \in [read : Ballots(said), save : SUBSET Addons!Addresses,
                   came : 0 .. said, readable : 0 .. said]
      /\ \A b \in info.save : info.read[b] # None
      /\ Covers(info.read, info.came) /\ Reads(info.read, info.readable)
    BY DEF InfoInv
<1>3. a \in Addons!Addresses /\ info.read[a] \in VotesOf(said)
    BY <1>2 DEF Ballots
<1> DEFINE v == Addons!Vote(info.read[a].time, FALSE)
<1>4. v \in VotesOf(said) /\ v.time = info.read[a].time /\ ~v.pending
    BY <1>3 DEF VotesOf, Addons!Vote
<1>5. /\ said \in Nat /\ came \in 0 .. said /\ readable \in 0 .. said
      /\ info.read[a].time \in 0 .. said
    BY <1>3 DEF AddonsBase, Addons!TypeOK, VotesOf
<1> HIDE DEF v
<1>6. /\ votes' \in Ballots(said)
      /\ readable' \in 0 .. said
      /\ row = "revoked" => votes' = votes
      /\ row # "revoked" /\ Covers(votes, came) => Covers(votes', came)
      /\ row # "revoked" /\ Reads(votes, readable) => Reads(votes', readable')
    <2>1. CASE Addons!SavePollVote(a, v) /\ readable' = Addons!Later(readable, v.time)
        <3>1. came \in Nat /\ readable \in Nat
            BY <1>5
        <3>2. readable' \in 0 .. said /\ readable' \in {readable, v.time}
            BY <1>4, <1>5, <2>1, LaterIs
        <3> QED BY <1>3, <1>4, <2>1, <3>1, <3>2, SavedVote
    <2>2. CASE UNCHANGED <<votes, readable>>
        BY <1>5, <2>2 DEF AddonsBase
    <2> QED BY <1>1, <1>4, <2>1, <2>2 DEF v
<1>7. AddonsBase'
    <2>1. Addons!Stored' \subseteq [time : 1 .. said, pending : BOOLEAN]
        BY <1>6 DEF Addons!Stored, Ballots, VotesOf
    <2> QED BY <1>6, <2>1 DEF AddonsBase, Addons!TypeOK
<1>8. VotesInv'
    <2>1. Addons!DeletedPollHasNoVotes'
        BY <1>6 DEF VotesInv, Addons!DeletedPollHasNoVotes, Addons!Stored
    <2>2. addon = "votes" /\ row # "revoked" => Covers(votes', came) /\ Reads(votes', readable')
        BY <1>6 DEF VotesInv
    <2> QED BY <2>1, <2>2 DEF VotesInv, Covers, Reads
<1>9. ReactionInv' /\ Addons!ShownVoteIsTheLatest'
    BY DEF ReactionInv, Addons!ShownVoteIsTheLatest, Addons!LatestReactionIsShown
<1>10. InfoInv'
    <2> DEFINE w    == [info.read[a] EXCEPT !.pending = FALSE]
               read == [info.read EXCEPT ![a] = w]
    <2>1. info' = [read |-> read, save |-> info.save \ {a}, came |-> info.came,
                   readable |-> info.readable]
        BY <1>1, <1>2 DEF Addons!Decrypted
    <2>2. w \in VotesOf(said) /\ w.time = info.read[a].time /\ ~w.pending
        BY <1>3 DEF VotesOf
    <2>3. w # None
        <3>1. VotesOf(said) \subseteq [time : Nat, pending : BOOLEAN]
            BY DEF VotesOf, AddonsBase
        <3> HIDE DEF w
        <3> QED BY <2>2, <3>1 DEF Addons!AddonsAssumption
    <2> HIDE DEF w
    <2>4. /\ read \in Ballots(said) /\ read[a] = w
          /\ \A b \in Addons!Addresses : b # a => read[b] = info.read[b]
        BY <1>2, <1>3, <2>2 DEF Ballots
    <2>5. Covers(read, info.came)
        BY <1>2, <2>2, <2>3, <2>4 DEF Covers
    <2>6. Reads(read, info.readable)
        BY <1>2, <2>2, <2>3, <2>4 DEF Reads
    <2>7. \A b \in info.save \ {a} : read[b] # None
        BY <1>2, <2>3, <2>4
    <2> HIDE DEF read
    <2>8. /\ info'.read = read /\ info'.save = info.save \ {a} /\ info'.came = info.came
          /\ info'.readable = info.readable
          /\ info' \in [read : Ballots(said), save : SUBSET Addons!Addresses,
                        came : 0 .. said, readable : 0 .. said]
        BY <1>2, <2>1, <2>4
    <2> QED BY <2>5, <2>6, <2>7, <2>8 DEF InfoInv
<1> QED BY <1>7, <1>8, <1>9, <1>10

LEMMA CannotKeepsAddons ==
    ASSUME Addons!AddonsAssumption, AddonsInv, Addons!CannotDecrypt PROVE AddonsInv'
<1> USE DEF AddonsInv, Addons!CannotDecrypt, Addons!wire, Addons!memory
<1>1. AddonsBase' /\ VotesInv' /\ ReactionInv' /\ Addons!ShownVoteIsTheLatest'
    BY DEF AddonsBase, Addons!TypeOK, Addons!Stored, VotesInv, Covers, Reads, ReactionInv,
           Addons!DeletedPollHasNoVotes, Addons!ShownVoteIsTheLatest, Addons!LatestReactionIsShown
<1>2. PICK a \in info.save : info' = [info EXCEPT !.save = @ \ {a}]
    OBVIOUS
<1>3. /\ info \in [read : Ballots(said), save : SUBSET Addons!Addresses,
                   came : 0 .. said, readable : 0 .. said]
      /\ \A b \in info.save : info.read[b] # None
      /\ Covers(info.read, info.came) /\ Reads(info.read, info.readable)
    BY DEF InfoInv
<1>4. /\ info'.read = info.read /\ info'.save = info.save \ {a} /\ info'.came = info.came
      /\ info'.readable = info.readable
      /\ info' \in [read : Ballots(said), save : SUBSET Addons!Addresses,
                    came : 0 .. said, readable : 0 .. said]
    BY <1>2, <1>3
<1>5. InfoInv'
    BY <1>3, <1>4 DEF InfoInv, Covers, Reads
<1> QED BY <1>1, <1>5

(* Of a voter's two addresses, poll.info takes the one that voted last, and *)
(* of one vote under both the one it could read.                            *)
LEMMA LatestOfTwo ==
    ASSUME NEW n \in Nat, NEW read \in Ballots(n), None \notin VotesOf(n),
           NEW a \in Addons!Addresses, read[a] # None
    PROVE  /\ Addons!Latest(read) \in VotesOf(n)
           /\ \A b \in Addons!Addresses : read[b] # None =>
                  /\ Addons!Latest(read).time >= read[b].time
                  /\ Addons!Latest(read).time = read[b].time /\ ~read[b].pending
                         => ~Addons!Latest(read).pending
<1> DEFINE cast == {read[b] : b \in Addons!Addresses} \ {None}
           L    == CHOOSE v \in cast : \A w \in cast : ~Addons!Better(w, v)
<1>1. \A v \in cast : v \in VotesOf(n) /\ v # None /\ v.time \in Nat /\ v.pending \in BOOLEAN
    BY DEF Ballots, VotesOf
<1>2. \E v \in cast : \A w \in cast : ~Addons!Better(w, v)
    <2>1. CASE read["pn"] = None
        BY <1>1, <2>1 DEF Addons!Addresses, Addons!Better
    <2>2. CASE read["lid"] = None
        BY <1>1, <2>2 DEF Addons!Addresses, Addons!Better
    <2>3. CASE read["pn"] # None /\ read["lid"] # None
        <3>1. cast = {read["pn"], read["lid"]}
            BY <2>3 DEF Addons!Addresses
        <3> HIDE DEF cast
        <3>2. CASE Addons!Better(read["pn"], read["lid"])
            BY <1>1, <3>1, <3>2 DEF Addons!Better
        <3>3. CASE ~Addons!Better(read["pn"], read["lid"])
            BY <1>1, <3>1, <3>3 DEF Addons!Better
        <3> QED BY <3>2, <3>3
    <2> QED BY <2>1, <2>2, <2>3
<1>3. L \in cast /\ \A w \in cast : ~Addons!Better(w, L)
    BY <1>2
<1>4. cast # {} /\ Addons!Latest(read) = L
    BY DEF Addons!Latest
<1> HIDE DEF L
<1>5. ASSUME NEW b \in Addons!Addresses, read[b] # None
      PROVE  L.time >= read[b].time /\ (L.time = read[b].time /\ ~read[b].pending => ~L.pending)
    <2>1. read[b] \in cast /\ ~Addons!Better(read[b], L)
        BY <1>3, <1>5
    <2> HIDE DEF cast
    <2> QED BY <1>1, <1>3, <2>1 DEF Addons!Better
<1> QED BY <1>1, <1>3, <1>4, <1>5

LEMMA FinishKeepsAddons ==
    ASSUME Addons!AddonsAssumption, AddonsInv, Addons!FinishPollInfo PROVE AddonsInv'
<1> USE DEF AddonsInv, Addons!FinishPollInfo, Addons!wire, Addons!memory
<1>1. AddonsBase' /\ VotesInv' /\ ReactionInv' /\ InfoInv'
    BY DEF AddonsBase, Addons!TypeOK, Addons!Stored, VotesInv, Covers, Reads, ReactionInv,
           Addons!DeletedPollHasNoVotes, InfoInv, Addons!LatestReactionIsShown
<1>2. Addons!ShownVoteIsTheLatest'
    <2> DEFINE L == Addons!Latest(info.read)
    <2> SUFFICES ASSUME info.came # 0
                 PROVE  /\ L # None /\ L.time >= info.came
                        /\ L.pending => L.time > info.readable
        BY DEF Addons!ShownVoteIsTheLatest
    <2>1. /\ info.read \in Ballots(said) /\ info.came \in 0 .. said /\ info.readable \in 0 .. said
          /\ Covers(info.read, info.came) /\ Reads(info.read, info.readable)
        BY DEF InfoInv
    <2>2. said \in Nat /\ None \notin VotesOf(said)
        BY DEF AddonsBase, VotesOf, Addons!AddonsAssumption
    <2>3. PICK a \in Addons!Addresses : info.read[a] # None /\ info.read[a].time >= info.came
        BY <2>1 DEF Covers
    <2>4. /\ L \in VotesOf(said)
          /\ \A b \in Addons!Addresses : info.read[b] # None =>
                 /\ L.time >= info.read[b].time
                 /\ L.time = info.read[b].time /\ ~info.read[b].pending => ~L.pending
        BY <2>1, <2>2, <2>3, LatestOfTwo
    <2>5. \A b \in Addons!Addresses : info.read[b] # None =>
              info.read[b].time \in Int /\ info.read[b].pending \in BOOLEAN
        BY <2>1 DEF Ballots, VotesOf
    <2>6. L # None /\ L.time \in 1 .. said /\ L.pending \in BOOLEAN
        BY <2>2, <2>4 DEF VotesOf
    <2> HIDE DEF L
    <2>7. L.time >= info.came
        BY <2>1, <2>3, <2>4, <2>5, <2>6
    <2>8. ASSUME L.pending PROVE L.time > info.readable
        <3>1. CASE info.readable = 0
            BY <2>6, <3>1
        <3>2. CASE info.readable # 0
            <4>1. PICK b \in Addons!Addresses :
                      /\ info.read[b] # None /\ info.read[b].time >= info.readable
                      /\ info.read[b].time = info.readable => ~info.read[b].pending
                BY <2>1, <3>2 DEF Reads
            <4> QED BY <2>1, <2>4, <2>5, <2>6, <2>8, <4>1
        <3> QED BY <3>1, <3>2
    <2> QED BY <2>6, <2>7, <2>8
<1> QED BY <1>1, <1>2

(* A reaction or a removal, whatever its place among those that came.       *)
LEMMA ReactKeepsAddons ==
    ASSUME Addons!AddonsAssumption, AddonsInv, Addons!React PROVE AddonsInv'
<1>1. PICK t \in 1 .. said :
        /\ Addons!UpsertReaction(t)
        /\ row = "absent" => UNCHANGED <<came, takenBack, replayed>>
        /\ row # "absent" =>
               /\ came' = Addons!Later(came, t)
               /\ takenBack' = IF t \in removals THEN Addons!Later(takenBack, t) ELSE takenBack
               /\ replayed' = IF t \notin removals /\ t < takenBack THEN replayed \cup {t}
                              ELSE replayed
    BY DEF Addons!React
<1>0. /\ addon = "reactions"
      /\ UNCHANGED <<addon, said, removals, sender, row, drops, votes, info, shown, readable>>
    BY DEF Addons!React, Addons!wire
<1> USE <1>0 DEF AddonsInv
<1>2. /\ said \in Nat /\ removals \subseteq 1 .. said
      /\ (reaction = None \/ reaction \in (1 .. said) \ removals)
      /\ None \notin Nat /\ came \in 0 .. said /\ takenBack \in 0 .. said
      /\ readable \in 0 .. said /\ replayed \subseteq 1 .. said
    BY DEF AddonsBase, Addons!TypeOK, Addons!AddonsAssumption
<1>3. reaction' = None \/ reaction' \in (1 .. said) \ removals
    BY <1>1, <1>2 DEF Addons!UpsertReaction
<1>4. Addons!Later(came, t) \in 0 .. said /\ Addons!Later(takenBack, t) \in 0 .. said
    <2>1. t \in 0 .. said
        BY <1>2
    <2>2. Addons!Later(came, t) \in 0 .. said
        BY <1>2, <2>1, LaterIs
    <2>3. Addons!Later(takenBack, t) \in 0 .. said
        BY <1>2, <2>1, LaterIs
    <2> QED BY <2>2, <2>3
<1>5. came' \in 0 .. said /\ takenBack' \in 0 .. said /\ replayed' \subseteq 1 .. said
    BY <1>1, <1>2, <1>4
<1>6. AddonsBase'
    BY <1>2, <1>3, <1>5 DEF AddonsBase, Addons!TypeOK, Addons!Stored
<1>7. InfoInv' /\ VotesInv' /\ Addons!ShownVoteIsTheLatest'
    BY DEF InfoInv, VotesInv, Covers, Reads, Addons!DeletedPollHasNoVotes, Addons!Stored,
           Addons!ShownVoteIsTheLatest
<1>8. /\ row = "absent" => reaction = None /\ came = 0
      /\ takenBack <= came /\ (reaction # None => reaction <= came)
      /\ came \in removals => takenBack = came
      /\ came # 0 => IF came \in removals THEN reaction = None \/ reaction \in replayed
                     ELSE reaction = came
    BY DEF ReactionInv, Addons!LatestReactionIsShown
<1>9. ASSUME row = "absent" PROVE ReactionInv'
    <2>1. reaction' = None /\ came' = 0 /\ takenBack' = takenBack
        BY <1>1, <1>8, <1>9 DEF Addons!UpsertReaction
    <2>2. takenBack' = 0 /\ 0 \notin removals
        BY <1>2, <1>8, <1>9, <2>1
    <2> QED BY <2>1, <2>2 DEF ReactionInv, Addons!LatestReactionIsShown
<1>10. ASSUME row # "absent", t \in removals PROVE ReactionInv'
    <2>1. /\ came' = Addons!Later(came, t) /\ takenBack' = Addons!Later(takenBack, t)
          /\ replayed' = replayed
          /\ reaction' = IF reaction # None /\ reaction <= t THEN None ELSE reaction
        BY <1>1, <1>10 DEF Addons!UpsertReaction
    <2>2. CASE came <= t
        <3>1. came' = t /\ takenBack' = t
            BY <1>2, <1>8, <2>1, <2>2 DEF Addons!Later
        <3>2. reaction' = None
            BY <1>2, <1>8, <2>1, <2>2
        <3> QED BY <1>2, <1>10, <3>1, <3>2 DEF ReactionInv, Addons!LatestReactionIsShown
    <2>3. CASE t < came
        <3>1. came' = came /\ came \in 1 .. said
            BY <1>2, <2>1, <2>3 DEF Addons!Later
        <3>2. takenBack' <= came /\ (came \in removals => takenBack' = came)
            BY <1>2, <1>8, <2>1, <2>3 DEF Addons!Later
        <3>3. reaction' # None => reaction' = reaction
            BY <2>1
        <3>4. came \notin removals => reaction' = came
            BY <1>2, <1>8, <2>1, <2>3, <3>1
        <3> QED BY <1>2, <1>8, <1>10, <2>1, <3>1, <3>2, <3>3, <3>4
                DEF ReactionInv, Addons!LatestReactionIsShown
    <2> QED BY <1>2, <2>2, <2>3
<1>11. ASSUME row # "absent", t \notin removals PROVE ReactionInv'
    <2>1. /\ came' = Addons!Later(came, t) /\ takenBack' = takenBack
          /\ replayed' = IF t < takenBack THEN replayed \cup {t} ELSE replayed
          /\ reaction' = IF reaction = None \/ t >= reaction THEN t ELSE reaction
        BY <1>1, <1>11 DEF Addons!UpsertReaction
    <2>2. CASE came <= t
        <3>1. came' = t
            BY <1>2, <2>1, <2>2 DEF Addons!Later
        <3>2. reaction' = t
            BY <1>2, <1>8, <2>1, <2>2
        <3> QED BY <1>2, <1>8, <1>11, <2>1, <2>2, <3>1, <3>2
                DEF ReactionInv, Addons!LatestReactionIsShown
    <2>3. CASE t < came
        <3>1. came' = came
            BY <1>2, <2>1, <2>3 DEF Addons!Later
        <3>2. came \notin removals => reaction' = came
            BY <1>2, <1>8, <2>1, <2>3
        <3>3. came \in removals => t \in replayed' /\ replayed \subseteq replayed'
            BY <1>2, <1>8, <2>1, <2>3
        <3>4. reaction' # None => reaction' <= came
            BY <1>2, <1>8, <2>1, <2>3
        <3> QED BY <1>2, <1>8, <1>11, <2>1, <3>1, <3>2, <3>3, <3>4
                DEF ReactionInv, Addons!LatestReactionIsShown
    <2> QED BY <1>2, <2>2, <2>3
<1>12. ReactionInv'
    BY <1>9, <1>10, <1>11
<1> QED BY <1>6, <1>7, <1>12

LEMMA MessageKeepsAddons ==
    ASSUME Addons!AddonsAssumption, AddonsInv,
           Addons!UpsertMessage \/ Addons!MarkRevoked \/ Addons!ClearChatMessages
    PROVE  AddonsInv'
<1> USE DEF AddonsInv, Addons!UpsertMessage, Addons!MarkRevoked, Addons!ClearChatMessages,
            Addons!wire, Addons!memory
<1> DEFINE none  == [a \in Addons!Addresses |-> None]
           clear == came' = 0 /\ readable' = 0 /\ takenBack' = 0 /\ replayed' = {}
<1>1. /\ votes' \in {votes, none} /\ reaction' \in {reaction, None}
      /\ UNCHANGED <<came, readable, takenBack, replayed>> \/ clear
      /\ row' \in {"absent", "there", "revoked"} /\ drops' \in 0 .. MaxDrops
      /\ UNCHANGED <<addon, said, removals, sender, info, shown>>
    BY DEF AddonsBase, Addons!TypeOK, Addons!AddonsAssumption, Addons!NoVotes
<1>2. none \in Ballots(said) /\ {none[a] : a \in Addons!Addresses} = {None}
    BY DEF Ballots, Addons!Addresses
<1>3. AddonsBase'
    <2>1. Addons!Stored' \subseteq [time : 1 .. said, pending : BOOLEAN]
        BY <1>1, <1>2 DEF AddonsBase, Addons!TypeOK, Addons!Stored
    <2>2. {came, readable, takenBack}' \subseteq 0 .. said /\ replayed' \subseteq 1 .. said
        <3>1. said \in Nat /\ {came, readable, takenBack} \subseteq 0 .. said
              /\ replayed \subseteq 1 .. said
            BY DEF AddonsBase, Addons!TypeOK
        <3>2. CASE UNCHANGED <<came, readable, takenBack, replayed>>
            BY <3>1, <3>2
        <3>3. CASE clear
            BY <3>1, <3>3
        <3> QED BY <1>1, <3>2, <3>3
    <2> QED BY <1>1, <1>2, <2>1, <2>2 DEF AddonsBase, Addons!TypeOK
<1>4. InfoInv' /\ Addons!ShownVoteIsTheLatest'
    BY <1>1 DEF InfoInv, Addons!ShownVoteIsTheLatest
<1>5. VotesInv'
    <2>1. row' = "revoked" => votes' = none
        BY DEF Addons!NoVotes
    <2>2. row' # "revoked" =>
              \/ UNCHANGED <<votes, came, readable>> /\ row # "revoked"
              \/ came' = 0 /\ readable' = 0
        OBVIOUS
    <2>3. Addons!DeletedPollHasNoVotes'
        BY <1>1, <1>2, <2>1 DEF VotesInv, Addons!DeletedPollHasNoVotes, Addons!Stored
    <2> QED BY <1>1, <2>2, <2>3 DEF VotesInv, Covers, Reads
<1>6. ReactionInv'
    <2> SUFFICES ASSUME addon = "reactions" PROVE ReactionInv'
        BY <1>1 DEF ReactionInv
    <2>1. \/ UNCHANGED <<came, takenBack, replayed, reaction>> /\ row' # "absent"
          \/ clear /\ reaction' = None
        BY DEF ReactionInv, AddonsBase, Addons!TypeOK
    <2>2. 0 \notin removals
        BY DEF AddonsBase, Addons!TypeOK
    <2> QED BY <1>1, <2>1, <2>2 DEF ReactionInv, Addons!LatestReactionIsShown
<1> QED BY <1>3, <1>4, <1>5, <1>6

LEMMA StepKeepsAddons ==
    ASSUME Addons!AddonsAssumption, AddonsInv, Addons!Next \/ UNCHANGED addonsVars
    PROVE  AddonsInv'
<1>1. CASE UNCHANGED addonsVars
    BY <1>1 DEF addonsVars, AddonsInv, AddonsBase, InfoInv, VotesInv, ReactionInv, Covers, Reads,
                Addons!TypeOK, Addons!Stored, Addons!DeletedPollHasNoVotes,
                Addons!ShownVoteIsTheLatest, Addons!LatestReactionIsShown
<1>2. CASE Addons!Speak
    BY <1>2, SpeakKeepsAddons
<1>3. CASE Addons!receivePollVote \/ Addons!HistoryVote \/ Addons!votePoll
    <2>1. \A t \in 1 .. said : sender[t] \in Addons!Addresses
        BY DEF AddonsInv, AddonsBase, Addons!TypeOK, Addons!Times, Addons!AddonsAssumption
    <2>2. PICK t \in 1 .. said, a \in Addons!Addresses, p \in BOOLEAN : Addons!Receive(a, t, p)
        BY <1>3, <2>1 DEF Addons!receivePollVote, Addons!HistoryVote, Addons!votePoll
    <2>3. addon = "votes"
        BY <1>3 DEF Addons!receivePollVote, Addons!HistoryVote, Addons!votePoll
    <2> QED BY <2>2, <2>3, VoteKeepsAddons
<1>4. CASE Addons!BeginPollInfo
    BY <1>4, BeginKeepsAddons
<1>5. CASE Addons!SaveDecrypted
    BY <1>5, DecryptKeepsAddons
<1>6. CASE Addons!CannotDecrypt
    BY <1>6, CannotKeepsAddons
<1>7. CASE Addons!FinishPollInfo
    BY <1>7, FinishKeepsAddons
<1>8. CASE Addons!React
    BY <1>8, ReactKeepsAddons
<1>9. CASE Addons!UpsertMessage \/ Addons!MarkRevoked \/ Addons!ClearChatMessages
    BY <1>9, MessageKeepsAddons
<1> QED BY <1>1, <1>2, <1>3, <1>4, <1>5, <1>6, <1>7, <1>8, <1>9 DEF Addons!Next

(* What others add to a message is shown as they last said it, but for a    *)
(* vote that cannot be read and an emoji replayed after its removal, and    *)
(* goes with the message: for any number of votes, reactions and clearings. *)
THEOREM AddonsShown == ChatsSpec => []LatestIsShown
<1>1. Addons!AddonsAssumption
    BY ConstantsAssumption
<1>2. ChatsInit => AddonsInv
    BY <1>1, InitAddonsInv DEF ChatsInit
<1>3. AddonsInv /\ [ChatsNext]_<<looking, unreadVars, flagsVars, addonsVars, callsVars, vars>>
        => AddonsInv'
    BY <1>1, StepKeepsAddons DEF ChatsNext
<1>4. AddonsInv => LatestIsShown
    <2>1. ReactionInv => Addons!LatestReactionIsShown
        BY DEF ReactionInv, Addons!LatestReactionIsShown
    <2> QED BY <2>1 DEF LatestIsShown, Addons!LatestIsShown, AddonsInv, VotesInv
<1> QED BY <1>2, <1>3, <1>4, PTL DEF ChatsSpec

-----------------------------------------------------------------------------
(* The unread badge. *)

UnreadBase ==
    /\ sent \in 0 .. Last /\ readTo \in 0 .. sent /\ reads \in 0 .. MaxReads
    /\ arriving \subseteq 1 .. sent /\ held \subseteq 1 .. sent
    /\ seen \subseteq held /\ covered \in 0 .. sent /\ paged \subseteq held
    /\ marks \subseteq {"read", "unread"}
    /\ unread \in Nat /\ lastAt \in 0 .. SentAt[Last] /\ snapshots \in 0 .. MaxSnapshots
    /\ snapped \subseteq 1 .. sent
    /\ \A m \in held : SentAt[m] <= lastAt

(* Receipts of the other devices name what the account has read.            *)
Named(r) == r \in Unread!Receipt /\ \A m \in r.ids : m <= readTo
ReceiptsInv == (\A r \in receipts : Named(r)) /\ (pending # None => Named(pending))

(* What is marked read is of no later second than a message that the        *)
(* account has read, that was there when a read action was stored, or that  *)
(* a torn snapshot ends with.                                               *)
Reached  == {r \in 1 .. sent : r <= readTo \/ r <= covered \/ r \in Unread!Torn}
AheadInv == \A m \in seen : \E r \in Reached : SentAt[m] <= SentAt[r]

(* The phone had read messages 1 .. r when it counted those of r + 1 .. s;  *)
(* the boundary is the time of a row that is here and that is reached.      *)
Span(r, s) == {m \in (r + 1) .. s : m \notin Silent}
Assembled(y, r, s) ==
    /\ y.through = SentAt[s] /\ y.unread = Cardinality(Span(r, s))
    /\ y.settings => s \in snapped
SyncInv ==
    sync # None =>
        /\ sync \in Unread!Sync /\ sync.msgs \subseteq 1 .. sent
        /\ \A m \in sync.msgs : SentAt[m] <= sync.through
        /\ sync.at = "chat" => ~sync.taken
        /\ sync.taken => sync.settings
        /\ \E r \in 0 .. readTo, s \in 1 .. sent : Assembled(sync, r, s)
        /\ sync.boundary > 0 =>
               \E m \in held, r \in Reached : SentAt[m] = sync.boundary /\ SentAt[m] <= SentAt[r]

(* The messages the badge owes the reader: those that are here, or that the *)
(* history sync in hand brings and has counted; but for the seconds of      *)
(* torn snapshots.                                                          *)
Blurred   == Unread!Times(Unread!Torn)
Coming(m) == sync # None /\ sync.taken /\ SentAt[m] <= sync.through
Owed ==
    {m \in 1 .. sent :
        /\ m \notin Silent /\ m \notin paged /\ m > readTo /\ m > covered
        /\ SentAt[m] \notin Blurred
        /\ m \in held \/ Coming(m)
        /\ \A n \in seen : SentAt[m] > SentAt[n]}
HiddenInv == (sync = None \/ seen = {}) => unread >= Cardinality(Owed)

UnreadInv == UnreadBase /\ ReceiptsInv /\ AheadInv /\ SyncInv /\ HiddenInv

LEMMA CardinalityIs == \A S : Unread!Cardinality(S) = Cardinality(S)
<1> QED BY DEF Unread!Cardinality, Cardinality

LEMMA TimesTyped ==
    ASSUME Unread!UnreadAssumption
    PROVE  /\ Last \in Nat \ {0} /\ Unread!Incoming = 1 .. Last
           /\ \A m \in 1 .. Last : SentAt[m] \in Nat \ {0} /\ SentAt[m] <= SentAt[Last]
           /\ \A m, n \in 1 .. Last : m < n => SentAt[m] <= SentAt[n]
<1>1. Last \in Nat \ {0} /\ Unread!Incoming = 1 .. Last /\ Last \in 1 .. Last
    BY DEF Unread!UnreadAssumption, Unread!Incoming
<1>2. \A m \in 1 .. Last : SentAt[m] \in Nat \ {0}
    BY <1>1 DEF Unread!UnreadAssumption
<1>3. \A m \in 1 .. Last : m < Last \/ m = Last
    BY <1>1
<1>4. \A m \in 1 .. Last : SentAt[m] <= SentAt[Last]
    BY <1>1, <1>2, <1>3 DEF Unread!UnreadAssumption
<1>5. \A m, n \in 1 .. Last : m < n => SentAt[m] <= SentAt[n]
    BY <1>1 DEF Unread!UnreadAssumption
<1> QED BY <1>1, <1>2, <1>4, <1>5

(* Messages that are said and read, and snapshots that are taken, take      *)
(* nothing back.                                                            *)
LEMMA Growing ==
    ASSUME UnreadBase, sent' \in Nat, sent <= sent', readTo' \in Nat, readTo <= readTo',
           covered' \in Nat, covered <= covered', snapped \subseteq snapped'
    PROVE  /\ Unread!Torn \subseteq Unread!Torn' /\ Blurred \subseteq Blurred'
           /\ Reached \subseteq Reached'
<1>1. /\ sent \in Nat /\ readTo \in Nat /\ covered \in Nat /\ snapped \subseteq 1 .. sent
      /\ 1 .. sent \subseteq 1 .. sent'
    BY DEF UnreadBase
<1>2. Unread!Torn \subseteq Unread!Torn'
    <2>1. \A s \in snapped : s \in Int /\ s \in snapped' /\ (s < sent => s < sent')
        BY <1>1
    <2> QED BY <2>1 DEF Unread!Torn
<1>3. Blurred \subseteq Blurred'
    BY <1>2 DEF Blurred, Unread!Times
<1>4. Reached \subseteq Reached'
    BY <1>1, <1>2 DEF Reached
<1> QED BY <1>2, <1>3, <1>4

(* Nothing of the account moves.                                            *)
LEMMA Standstill ==
    ASSUME UNCHANGED <<sent, readTo, covered, snapped>>
    PROVE  Unread!Torn' = Unread!Torn /\ Blurred' = Blurred /\ Reached' = Reached
<1>1. Unread!Torn' = Unread!Torn
    BY DEF Unread!Torn
<1> QED BY <1>1 DEF Blurred, Reached, Unread!Times

(* A message of the second of an earlier one tears the snapshots that end   *)
(* with the earlier.                                                        *)
LEMMA SameSecond ==
    ASSUME Unread!UnreadAssumption, NEW s \in 1 .. Last, NEW n \in 1 .. Last, s < n,
           SentAt[n] <= SentAt[s]
    PROVE  SentAt[s + 1] = SentAt[s] /\ SentAt[n] = SentAt[s]
<1>1. Last \in Nat /\ s + 1 \in 1 .. Last /\ (s + 1 < n \/ s + 1 = n) /\ s < s + 1
    BY TimesTyped
<1>2. SentAt[s] <= SentAt[s + 1] /\ SentAt[s + 1] <= SentAt[n]
    <2>1. SentAt[s] <= SentAt[s + 1]
        BY <1>1, TimesTyped
    <2>2. SentAt[s + 1] <= SentAt[n]
        <3>1. SentAt[n] \in Nat
            BY TimesTyped
        <3> QED BY <1>1, <3>1, TimesTyped
    <2> QED BY <2>1, <2>2
<1>3. SentAt[s] \in Nat /\ SentAt[s + 1] \in Nat /\ SentAt[n] \in Nat
    BY <1>1, TimesTyped
<1> QED BY <1>2, <1>3

(* A snapshot that is not torn ends a second.                               *)
LEMMA NotTorn ==
    ASSUME Unread!UnreadAssumption, UnreadBase, NEW s \in snapped, s \notin Unread!Torn,
           NEW n \in 1 .. sent, SentAt[n] <= SentAt[s]
    PROVE  n <= s
<1>1. s \in 1 .. Last /\ n \in 1 .. Last /\ sent \in Nat /\ s \in 1 .. sent
    BY TimesTyped DEF UnreadBase
<1> SUFFICES ASSUME s < n PROVE FALSE
    BY <1>1
<1>2. SentAt[s + 1] = SentAt[s]
    BY <1>1, SameSecond
<1>3. s < sent
    BY <1>1
<1> QED BY <1>2, <1>3 DEF Unread!Torn

(* The newest time of a set of rows.                                        *)
LEMMA NewestIs ==
    ASSUME Unread!UnreadAssumption, NEW M \in SUBSET (1 .. Last)
    PROVE  /\ Unread!NewestOf(M) \in Nat
           /\ \A m \in M : SentAt[m] <= Unread!NewestOf(M)
           /\ M # {} => \E m \in M : Unread!NewestOf(M) = SentAt[m]
           /\ M = {} => Unread!NewestOf(M) = 0
<1> DEFINE T == {SentAt[m] : m \in M}
<1>1. T \in SUBSET (0 .. SentAt[Last]) /\ SentAt[Last] \in Nat
    <2>1. Last \in 1 .. Last
        BY TimesTyped
    <2>2. \A m \in M : SentAt[m] \in 0 .. SentAt[Last]
        BY <2>1, TimesTyped
    <2> QED BY <2>1, <2>2, TimesTyped
<1>2. M # {} => T # {}
    OBVIOUS
<1>3. Unread!NewestOf(M) = IF M = {} THEN 0 ELSE Max(T)
    BY DEF Unread!NewestOf, Unread!Times, Unread!Max, Max
<1>4. M # {} => Max(T) \in T /\ \A z \in T : z <= Max(T)
    <2> HIDE DEF T
    <2> QED BY <1>1, <1>2, MaxOfBounded
<1>5. \A m \in M : SentAt[m] \in T
    OBVIOUS
<1>6. Max(T) \in T => \E m \in M : Max(T) = SentAt[m]
    OBVIOUS
<1>7. T \subseteq Nat
    BY <1>1
<1> HIDE DEF T
<1> DEFINE newest == Unread!NewestOf(M)
<1>8. M = {} => newest = 0
    BY <1>3
<1>9. M # {} =>
          newest \in T /\ (\E m \in M : newest = SentAt[m]) /\ \A m \in M : SentAt[m] <= newest
    <2>1. M # {} => newest = Max(T)
        BY <1>3
    <2> QED BY <1>4, <1>5, <1>6, <2>1
<1> HIDE DEF newest
<1>10. newest \in Nat
    <2>1. CASE M = {}
        BY ONLY <1>8, <2>1
    <2>2. CASE M # {}
        BY ONLY <1>7, <1>9, <2>2
    <2> QED BY <2>1, <2>2
<1> QED BY <1>8, <1>9, <1>10 DEF newest

LEMMA NewerIs ==
    ASSUME Unread!UnreadAssumption, NEW S \in SUBSET (1 .. Last), NEW R \in SUBSET (1 .. Last)
    PROVE  Unread!Newer(S, R) =
               {m \in S : m \notin Silent /\ \A n \in R : SentAt[m] > SentAt[n]}
<1>1. \A m \in S : SentAt[m] > Unread!NewestOf(R) <=> \A n \in R : SentAt[m] > SentAt[n]
    <2> TAKE m \in S
    <2>1. SentAt[m] \in Nat \ {0} /\ \A n \in R : SentAt[n] \in Nat
        BY TimesTyped
    <2>2. /\ Unread!NewestOf(R) \in Nat /\ \A n \in R : SentAt[n] <= Unread!NewestOf(R)
          /\ R # {} => \E n \in R : Unread!NewestOf(R) = SentAt[n]
          /\ R = {} => Unread!NewestOf(R) = 0
        BY NewestIs
    <2> QED BY <2>1, <2>2
<1> QED BY <1>1 DEF Unread!Newer, Unread!Counted

LEMMA MaxOfTwo ==
    ASSUME NEW a \in Nat, NEW b \in Nat
    PROVE  Unread!Max({a, b}) = IF a >= b THEN a ELSE b
<1>1. CASE a >= b
    BY <1>1, MaxIs DEF Unread!Max, Max
<1>2. CASE ~(a >= b)
    BY <1>2, MaxIs DEF Unread!Max, Max
<1> QED BY <1>1, <1>2

(* A subset of a stretch of messages is finite, and no larger than a set    *)
(* that holds it.                                                           *)
LEMMA Smaller ==
    ASSUME NEW n \in Nat, NEW T \in SUBSET (1 .. n), NEW S \in SUBSET T
    PROVE  /\ IsFiniteSet(S) /\ Cardinality(S) \in Nat /\ Cardinality(T) \in Nat
           /\ Cardinality(S) <= Cardinality(T)
<1>1. IsFiniteSet(1 .. n)
    BY FS_Interval
<1>2. IsFiniteSet(T) /\ IsFiniteSet(S)
    BY <1>1, FS_Subset
<1> QED BY <1>2, FS_Subset, FS_CardinalityType

LEMMA OneMore ==
    ASSUME NEW n \in Nat, NEW T \in SUBSET (1 .. n), NEW x \in 1 .. n, NEW S \in SUBSET (T \cup {x})
    PROVE  Cardinality(S) <= Cardinality(T) + 1
<1>1. /\ T \cup {x} \in SUBSET (1 .. n)
      /\ Cardinality(S) \in Nat /\ Cardinality(T \cup {x}) \in Nat
      /\ Cardinality(S) <= Cardinality(T \cup {x})
    BY Smaller
<1>2. IsFiniteSet(T) /\ Cardinality(T) \in Nat
    BY Smaller
<1>3. Cardinality(T \cup {x}) <= Cardinality(T) + 1
    <2>1. \/ Cardinality(T \cup {x}) = Cardinality(T)
          \/ Cardinality(T \cup {x}) = Cardinality(T) + 1
        BY <1>2, FS_AddElement, Zenon
    <2> QED BY <1>2, <2>1
<1> QED BY <1>1, <1>2, <1>3

LEMMA OwedTyped ==
    ASSUME Unread!UnreadAssumption, UnreadBase
    PROVE  Owed \in SUBSET (1 .. sent) /\ sent \in Nat /\ Cardinality(Owed) \in Nat
<1>1. Owed \in SUBSET (1 .. sent) /\ sent \in Nat
    BY DEF Owed, UnreadBase
<1> QED BY <1>1, Smaller

(* The badge goes on covering what it owes when it owes no more than before *)
(* and has not fallen.                                                      *)
LEMMA HiddenStays ==
    ASSUME Unread!UnreadAssumption, UnreadBase, UnreadBase', HiddenInv,
           Owed' \subseteq Owed, unread' >= unread,
           (sync' = None \/ seen' = {}) => (sync = None \/ seen = {})
    PROVE  HiddenInv'
<1>1. Owed \in SUBSET (1 .. sent) /\ sent \in Nat
    BY OwedTyped
<1>2. Cardinality(Owed') <= Cardinality(Owed)
    /\ {Cardinality(Owed'), Cardinality(Owed)} \subseteq Nat
    BY <1>1, Smaller
<1>3. unread \in Nat /\ unread' \in Nat
    BY DEF UnreadBase
<1>4. (Cardinality(Owed))' = Cardinality(Owed')
    OBVIOUS
<1> QED BY <1>2, <1>3, <1>4 DEF HiddenInv

(* A recount counts them all.                                               *)
LEMMA RecountCovers ==
    ASSUME Unread!UnreadAssumption, UnreadBase, UnreadBase', HiddenInv, Unread!Recount,
           UNCHANGED <<sent, readTo, held, seen, covered, paged, snapped>>,
           sync' = None \/ sync' = sync
    PROVE  HiddenInv'
<1>1. Owed' \subseteq Owed
    BY Standstill DEF Owed, Coming
<1>2. CASE seen = {}
    BY <1>1, <1>2, HiddenStays DEF Unread!Recount, UnreadBase
<1>3. CASE seen # {}
    <2> SUFFICES ASSUME sync' = None PROVE unread' >= Cardinality(Owed')
        BY <1>3 DEF HiddenInv
    <2>1. /\ Last \in Nat /\ 1 .. sent \subseteq 1 .. Last /\ held \in SUBSET (1 .. Last)
          /\ seen \in SUBSET (1 .. Last) /\ held \in SUBSET (1 .. sent) /\ sent \in Nat
        BY TimesTyped DEF UnreadBase
    <2> DEFINE N == Unread!Newer(held, seen)
    <2>2. N = {m \in held : m \notin Silent /\ \A n \in seen : SentAt[m] > SentAt[n]}
        BY <2>1, NewerIs
    <2>3. Owed' \in SUBSET N /\ N \in SUBSET (1 .. sent)
        BY <2>1, <2>2 DEF Owed, Coming
    <2>4. unread' = Cardinality(N)
        BY <1>3, CardinalityIs DEF Unread!Recount
    <2> HIDE DEF N
    <2>5. Cardinality(Owed') \in Nat /\ Cardinality(N) \in Nat
        /\ Cardinality(Owed') <= Cardinality(N)
        BY <2>1, <2>3, Smaller
    <2> QED BY <2>4, <2>5
<1> QED BY <1>2, <1>3

(* The rest of the account and of this device lets it be: messages are      *)
(* said, read and marked, and rows arrive.                                  *)
LEMMA SayKeepsUnread ==
    ASSUME Unread!UnreadAssumption, UnreadInv, Unread!Say
    PROVE  UnreadInv'
<1> USE DEF UnreadInv
<1>1. /\ sent < Last /\ sent' = sent + 1 /\ arriving' = arriving \cup {sent'}
      /\ UNCHANGED <<readTo, reads, receipts, marks, held, seen, unread, lastAt, pending, sync,
                     snapshots, covered, paged, snapped>>
    BY DEF Unread!Say, Unread!chat
<1>2. sent \in Nat /\ sent' \in 0 .. Last /\ 1 .. sent \subseteq 1 .. sent'
    BY <1>1, TimesTyped DEF UnreadBase
<1>3. UnreadBase'
    BY <1>1, <1>2 DEF UnreadBase
<1>0. /\ Unread!Torn \subseteq Unread!Torn' /\ Blurred \subseteq Blurred'
      /\ Reached \subseteq Reached'
    BY <1>1, <1>2, Growing DEF UnreadBase
<1>4. SyncInv'
    <2>1. ASSUME sync # None PROVE sync.msgs \subseteq 1 .. sent'
        BY <1>2, <2>1 DEF SyncInv
    <2>2. ASSUME sync # None
          PROVE  \E r \in 0 .. readTo, s \in 1 .. sent' : Assembled(sync, r, s)
        BY <1>2, <2>2 DEF SyncInv
    <2>3. \A r, s : Assembled(sync, r, s)' <=> Assembled(sync, r, s)
        BY <1>1 DEF Assembled, Span
    <2> QED BY <1>0, <1>1, <2>1, <2>2, <2>3 DEF SyncInv
<1>5. ASSUME sync # None, sync.taken, SentAt[sent'] <= sync.through PROVE SentAt[sent'] \in Blurred'
    <2>1. PICK r \in 0 .. readTo, s \in 1 .. sent : Assembled(sync, r, s)
        BY <1>5 DEF SyncInv
    <2>2. sync.through = SentAt[s] /\ s \in snapped
        BY <1>5, <2>1 DEF SyncInv, Assembled
    <2>3. s < sent' /\ s \in 1 .. Last /\ sent' \in 1 .. Last
        BY <1>1, <1>2, TimesTyped
    <2>4. SentAt[s + 1] = SentAt[s] /\ SentAt[sent'] = SentAt[s]
        BY <1>5, <2>2, <2>3, SameSecond
    <2>5. s \in Unread!Torn'
        BY <1>1, <2>2, <2>3, <2>4 DEF Unread!Torn
    <2> QED BY <2>4, <2>5 DEF Blurred, Unread!Times
<1>6. Owed' \subseteq Owed
    <2>1. \A m \in 1 .. sent' : m \in 1 .. sent \/ m = sent'
        BY <1>1, <1>2
    <2>2. sent' \notin held
        BY <1>1, <1>2 DEF UnreadBase
    <2>3. \A m : Coming(m)' = Coming(m)
        BY <1>1 DEF Coming
    <2>4. sent' \notin Owed'
        BY <1>1, <1>5, <2>2 DEF Owed, Coming
    <2>5. \A m \in Owed' : m \in 1 .. sent
        BY <2>1, <2>4 DEF Owed
    <2> QED BY <1>0, <1>1, <2>3, <2>5 DEF Owed
<1>7. HiddenInv'
    BY <1>1, <1>3, <1>6, HiddenStays DEF UnreadBase
<1>8. ReceiptsInv' /\ AheadInv'
    BY <1>0, <1>1 DEF ReceiptsInv, AheadInv, Named
<1> QED BY <1>3, <1>4, <1>7, <1>8

(* The account reads, here or elsewhere.                                    *)
LEMMA ReadingKeepsUnread ==
    ASSUME Unread!UnreadAssumption, UnreadInv, readTo' \in readTo .. sent, reads' \in 0 .. MaxReads,
           marks' \subseteq {"read", "unread"},
           \A r \in receipts' :
               r \in receipts \/ (r \in Unread!Receipt /\ \A m \in r.ids : m <= readTo'),
           UNCHANGED <<sent, arriving, held, seen, unread, lastAt, pending, sync, snapshots,
                       covered, paged, snapped>>
    PROVE  UnreadInv'
<1> USE DEF UnreadInv
<1>1. readTo \in Nat /\ sent \in Nat /\ readTo' \in Nat /\ readTo <= readTo' /\ readTo' <= sent
    BY DEF UnreadBase
<1>2. UnreadBase'
    BY <1>1 DEF UnreadBase
<1>3. \A r : Named(r) => Named(r)'
    <2>1. ASSUME NEW r, Named(r) PROVE r \in Unread!Receipt /\ \A m \in r.ids : m <= readTo'
        <3>1. r.ids \subseteq Int
            BY <2>1, TimesTyped DEF Named, Unread!Receipt
        <3> QED BY <1>1, <2>1, <3>1 DEF Named
    <2> QED BY <2>1 DEF Named
<1>4. ReceiptsInv'
    BY <1>3 DEF ReceiptsInv, Named
<1>0. Blurred \subseteq Blurred' /\ Reached \subseteq Reached'
    BY <1>1, Growing DEF UnreadBase
<1>5. AheadInv'
    BY <1>0 DEF AheadInv
<1>6. SyncInv'
    <2>1. ASSUME sync # None
          PROVE  \E r \in 0 .. readTo', s \in 1 .. sent : Assembled(sync, r, s)
        BY <1>1, <2>1 DEF SyncInv
    <2>2. \A r, s : Assembled(sync, r, s)' <=> Assembled(sync, r, s)
        BY DEF Assembled, Span
    <2> QED BY <1>0, <2>1, <2>2 DEF SyncInv
<1>7. Owed' \subseteq Owed
    <2>1. \A m \in 1 .. sent : m > readTo' => m > readTo
        BY <1>1
    <2> QED BY <1>0, <2>1 DEF Owed, Coming
<1>8. HiddenInv'
    BY <1>2, <1>7, HiddenStays DEF UnreadBase
<1> QED BY <1>2, <1>4, <1>5, <1>6, <1>8

LEMMA ArrivalKeepsUnread ==
    ASSUME Unread!UnreadAssumption, UnreadInv, Unread!HistoryArrives
    PROVE  UnreadInv'
<1> USE DEF UnreadInv
<1>1. PICK settings \in BOOLEAN, marked \in BOOLEAN, msgs \in SUBSET (1 .. sent) :
          sync' = [at |-> "chat", settings |-> settings, marked |-> marked, taken |-> FALSE,
                   msgs |-> msgs, boundary |-> 0, through |-> SentAt[sent],
                   unread |-> Unread!Cardinality(Unread!Counted((readTo + 1) .. sent))]
    BY DEF Unread!HistoryArrives
<1>2. /\ sync = None /\ snapshots < MaxSnapshots /\ sent > 0 /\ snapshots' = snapshots + 1
      /\ snapped' = (IF settings THEN snapped \cup {sent} ELSE snapped)
      /\ UNCHANGED <<sent, readTo, reads, arriving, receipts, marks, held, seen, unread, lastAt,
                     pending, covered, paged>>
    BY <1>1 DEF Unread!HistoryArrives, Unread!account, Unread!chat
<1>3. UnreadBase'
    BY <1>2 DEF UnreadBase, Unread!UnreadAssumption
<1>0. Blurred \subseteq Blurred' /\ Reached \subseteq Reached'
    BY <1>2, Growing DEF UnreadBase
<1>4. ReceiptsInv' /\ AheadInv'
    BY <1>0, <1>2 DEF ReceiptsInv, AheadInv, Named
<1>5. SyncInv'
    <2>1. readTo \in 0 .. readTo /\ sent \in 1 .. sent
        BY <1>2 DEF UnreadBase
    <2>2. Unread!Counted((readTo + 1) .. sent) = Span(readTo, sent)
        BY DEF Unread!Counted, Span
    <2>3. sync'.through = SentAt[sent] /\ sync'.unread = Cardinality(Span(readTo, sent))
        BY <1>1, <2>2, CardinalityIs
    <2>4. \E r \in 0 .. readTo', s \in 1 .. sent' : Assembled(sync, r, s)'
        <3>1. Assembled(sync, readTo, sent)'
            BY <1>1, <1>2, <2>3 DEF Assembled, Span
        <3> QED BY <1>2, <2>1, <3>1
    <2>5. sync' \in Unread!Sync
        <3>1. Span(readTo, sent) \in SUBSET (1 .. Last) /\ Last \in Nat /\ sent \in 1 .. Last
            BY <1>2, TimesTyped DEF Span, UnreadBase
        <3>2. Cardinality(Span(readTo, sent)) \in 0 .. Last
            <4>1. Cardinality(1 .. Last) = Last /\ 1 .. Last \in SUBSET (1 .. Last)
                BY <3>1, FS_Interval
            <4>2. /\ Cardinality(Span(readTo, sent)) \in Nat
                  /\ Cardinality(Span(readTo, sent)) <= Cardinality(1 .. Last)
                BY <3>1, <4>1, Smaller
            <4> QED BY <3>1, <4>1, <4>2
        <3>3. msgs \in SUBSET (1 .. Last) /\ SentAt[sent] \in Nat
            BY <3>1, TimesTyped
        <3> QED BY <1>1, <2>3, <3>2, <3>3, TimesTyped DEF Unread!Sync
    <2>6. /\ sync'.at = "chat" /\ sync'.msgs = msgs /\ sync'.boundary = 0 /\ ~sync'.taken
          /\ ~(sync'.boundary > 0)
        BY <1>1
    <2>7. \A m \in msgs : SentAt[m] <= SentAt[sent]
        <3>1. sent \in 1 .. Last /\ \A m \in msgs : m \in 1 .. Last /\ (m < sent \/ m = sent)
            BY <1>2, TimesTyped DEF UnreadBase
        <3>2. SentAt[sent] \in Nat
            BY <3>1, TimesTyped
        <3> QED BY <3>1, <3>2, TimesTyped
    <2> QED BY <1>2, <2>3, <2>4, <2>5, <2>6, <2>7 DEF SyncInv
<1>6. Owed' \subseteq Owed
    <2>1. ~sync'.taken
        BY <1>1
    <2> QED BY <1>0, <1>2, <2>1 DEF Owed, Coming
<1>7. HiddenInv'
    BY <1>2, <1>3, <1>6, HiddenStays DEF UnreadBase
<1> QED BY <1>3, <1>4, <1>5, <1>7

LEMMA MessageKeepsUnread ==
    ASSUME Unread!UnreadAssumption, UnreadInv, Unread!HandleMessage
    PROVE  UnreadInv' /\ unread' >= unread
<1> USE DEF UnreadInv
<1>1. PICK m \in arriving :
          /\ arriving' = arriving \ {m} /\ held' = held \cup {m}
          /\ unread' = unread + (IF m \in held THEN 0 ELSE 1)
          /\ lastAt' = Unread!Max({lastAt, SentAt[m]})
          /\ UNCHANGED <<sent, readTo, reads, receipts, marks, seen, pending, sync, snapshots,
                         covered, paged, snapped>>
    BY DEF Unread!HandleMessage, Unread!account
<1>2. /\ m \in 1 .. sent /\ m \in 1 .. Last /\ sent \in Nat /\ Last \in 1 .. Last
      /\ SentAt[m] \in Nat /\ SentAt[Last] \in Nat /\ SentAt[m] <= SentAt[Last]
      /\ lastAt \in Nat /\ lastAt <= SentAt[Last]
      /\ \A k \in held : SentAt[k] \in Nat
    BY TimesTyped DEF UnreadBase
<1>3. lastAt' \in 0 .. SentAt[Last] /\ lastAt' >= lastAt /\ lastAt' >= SentAt[m]
    BY <1>1, <1>2, MaxOfTwo
<1>4. unread \in Nat /\ unread' \in Nat /\ unread' >= unread
    BY <1>1 DEF UnreadBase
<1>5. UnreadBase'
    <2>1. \A k \in held' : SentAt[k] <= lastAt'
        BY <1>1, <1>2, <1>3 DEF UnreadBase
    <2> QED BY <1>1, <1>2, <1>3, <1>4, <2>1 DEF UnreadBase
<1>0. Blurred' = Blurred /\ Reached' = Reached
    BY <1>1, Standstill
<1>6. ReceiptsInv' /\ AheadInv'
    BY <1>0, <1>1 DEF ReceiptsInv, AheadInv, Named
<1>7. SyncInv'
    BY <1>0, <1>1 DEF SyncInv, Assembled, Span
<1>8. HiddenInv'
    <2>1. \A k : Coming(k)' = Coming(k)
        BY <1>1 DEF Coming
    <2>2. CASE m \in held
        <3>1. Owed' \subseteq Owed
            BY <1>0, <1>1, <2>1, <2>2 DEF Owed, Coming
        <3> QED BY <1>1, <1>4, <1>5, <3>1, HiddenStays
    <2>3. CASE m \notin held
        <3>1. Owed' \subseteq Owed \cup {m}
            BY <1>0, <1>1, <2>1 DEF Owed, Coming
        <3>2. Cardinality(Owed') <= Cardinality(Owed) + 1 /\ Cardinality(Owed) \in Nat
            BY <1>2, <3>1, OwedTyped, OneMore
        <3>3. Cardinality(Owed') \in Nat
            <4>1. Owed' \in SUBSET (1 .. sent)
                BY <1>2, <3>1, OwedTyped
            <4> QED BY <1>2, <4>1, Smaller
        <3>4. unread' = unread + 1
            BY <1>1, <2>3
        <3>5. unread >= Cardinality(Owed) => unread' >= Cardinality(Owed')
            BY <1>4, <3>2, <3>3, <3>4
        <3>6. (sync' = None \/ seen' = {}) => (sync = None \/ seen = {})
            BY <1>1
        <3> QED BY <3>5, <3>6 DEF HiddenInv
    <2> QED BY <2>2, <2>3
<1> QED BY <1>4, <1>5, <1>6, <1>7, <1>8

LEMMA ReceiptKeepsUnread ==
    ASSUME Unread!UnreadAssumption, UnreadInv, Unread!UpdateReceipt
    PROVE  UnreadInv'
<1> USE DEF UnreadInv
<1>1. PICK r \in receipts :
          /\ seen' = seen \cup (r.ids \cap held) /\ pending' = r /\ receipts' = receipts \ {r}
          /\ UNCHANGED <<sent, readTo, reads, arriving, marks, held, unread, lastAt, sync,
                         snapshots, covered, paged, snapped>>
    BY DEF Unread!UpdateReceipt, Unread!account, Unread!chat
<1>2. Named(r)
    BY DEF ReceiptsInv
<1>3. UnreadBase'
    BY <1>1 DEF UnreadBase
<1>4. ReceiptsInv'
    BY <1>1, <1>2 DEF ReceiptsInv, Named
<1>0. Blurred' = Blurred /\ Reached' = Reached
    BY <1>1, Standstill
<1>5. AheadInv'
    <2>1. \A m \in r.ids \cap held : m \in Reached
        BY <1>2 DEF Named, Reached, UnreadBase
    <2>2. \A m \in held : SentAt[m] <= SentAt[m]
        <3>1. held \subseteq 1 .. Last
            BY TimesTyped DEF UnreadBase
        <3>2. \A m \in held : SentAt[m] \in Nat
            BY <3>1, TimesTyped
        <3> QED BY <3>2
    <2> QED BY <1>0, <1>1, <2>1, <2>2 DEF AheadInv
<1>6. SyncInv'
    BY <1>0, <1>1 DEF SyncInv, Assembled, Span
<1>7. Owed' \subseteq Owed
    BY <1>0, <1>1 DEF Owed, Coming
<1>8. HiddenInv'
    BY <1>1, <1>3, <1>7, HiddenStays DEF UnreadBase
<1> QED BY <1>3, <1>4, <1>5, <1>6, <1>8

LEMMA RecountTyped ==
    ASSUME Unread!UnreadAssumption, UnreadBase, Unread!Recount
    PROVE  unread' \in Nat
<1>1. /\ Last \in Nat /\ 1 .. sent \subseteq 1 .. Last /\ held \in SUBSET (1 .. Last)
      /\ seen \in SUBSET (1 .. Last)
    BY TimesTyped DEF UnreadBase
<1>2. Unread!Newer(held, seen) \in SUBSET (1 .. Last)
    <2>1. Unread!Newer(held, seen) =
              {m \in held : m \notin Silent /\ \A n \in seen : SentAt[m] > SentAt[n]}
        BY <1>1, NewerIs
    <2> QED BY <1>1, <2>1
<1>3. Cardinality(Unread!Newer(held, seen)) \in Nat
    BY <1>1, <1>2, Smaller
<1> QED BY <1>3, CardinalityIs DEF Unread!Recount, UnreadBase

LEMMA RecountKeepsUnread ==
    ASSUME Unread!UnreadAssumption, UnreadInv, Unread!RecalculateChatUnread
    PROVE  UnreadInv'
<1> USE DEF UnreadInv
<1>1. /\ pending # None /\ Unread!Recount
      /\ pending' = IF pending.type = "read-self" THEN [pending EXCEPT !.ids = {}] ELSE None
      /\ UNCHANGED <<sent, readTo, reads, arriving, receipts, marks, held, seen, lastAt, sync,
                     snapshots, covered, paged, snapped>>
    BY DEF Unread!RecalculateChatUnread, Unread!account
<1>2. unread' \in Nat
    BY <1>1, RecountTyped
<1>3. UnreadBase'
    BY <1>1, <1>2 DEF UnreadBase
<1>4. ReceiptsInv'
    <2>1. Named(pending)
        BY <1>1 DEF ReceiptsInv
    <2>2. pending' # None => pending' \in Unread!Receipt /\ pending'.ids = {}
        BY <1>1, <2>1 DEF Named, Unread!Receipt
    <2> QED BY <1>1, <2>2 DEF ReceiptsInv, Named
<1>5. AheadInv' /\ SyncInv'
    BY <1>1, Standstill DEF AheadInv, SyncInv, Assembled, Span
<1>6. HiddenInv'
    BY <1>1, <1>3, RecountCovers
<1> QED BY <1>3, <1>4, <1>5, <1>6

(* Rows are marked read through a time.                                     *)
LEMMA MarkingThrough ==
    ASSUME Unread!UnreadAssumption, UnreadBase, NEW through, Unread!MarkChatReadThrough(through),
           UNCHANGED held
    PROVE  /\ seen' = seen \cup {m \in held : SentAt[m] <= through} /\ seen' \subseteq held
           /\ unread' \in Nat /\ lastAt' = lastAt
<1>1. seen' = seen \cup {m \in held : SentAt[m] <= through} /\ lastAt' = lastAt
    BY DEF Unread!MarkChatReadThrough
<1>2. seen' \subseteq held
    BY <1>1 DEF UnreadBase
<1>3. unread' \in Nat
    <2>1. /\ Last \in Nat /\ held \in SUBSET (1 .. Last) /\ seen' \in SUBSET (1 .. Last)
        BY <1>2, TimesTyped DEF UnreadBase
    <2>2. Unread!Newer(held, seen') \in SUBSET (1 .. Last)
        <3>1. Unread!Newer(held, seen') =
                  {m \in held : m \notin Silent /\ \A n \in seen' : SentAt[m] > SentAt[n]}
            BY <2>1, NewerIs
        <3> QED BY <2>1, <3>1
    <2>3. Cardinality(Unread!Newer(held, seen')) \in Nat
        BY <2>1, <2>2, Smaller
    <2> QED BY <2>3, CardinalityIs DEF Unread!MarkChatReadThrough, UnreadBase
<1> QED BY <1>1, <1>2, <1>3

LEMMA MarkReadKeepsUnread ==
    ASSUME Unread!UnreadAssumption, UnreadInv, Unread!MarkChatRead,
           pending' \in {pending, None}, marks' \subseteq marks,
           UNCHANGED <<sent, readTo, reads, arriving, receipts, held, sync, snapshots, paged,
                       snapped>>
    PROVE  UnreadInv'
<1> USE DEF UnreadInv
<1>1. seen' \subseteq held /\ unread' \in Nat /\ lastAt' = lastAt /\ covered' = sent
    BY MarkingThrough DEF Unread!MarkChatRead
<1>2. UnreadBase'
    BY <1>1 DEF UnreadBase
<1>0. Reached \subseteq Reached'
    BY <1>1, Growing DEF UnreadBase
<1>3. ReceiptsInv' /\ SyncInv'
    BY <1>0 DEF ReceiptsInv, SyncInv, Named, Assembled, Span
<1>4. AheadInv'
    <2>1. \A m \in held : m \in Reached' /\ SentAt[m] \in Nat
        BY <1>1, TimesTyped DEF UnreadBase, Reached
    <2> QED BY <1>1, <2>1 DEF AheadInv
<1>5. Owed' = {}
    BY <1>1 DEF Owed, UnreadBase
<1>6. HiddenInv'
    BY <1>1, <1>5, FS_EmptySet DEF HiddenInv
<1> QED BY <1>2, <1>3, <1>4, <1>6

LEMMA AtLeastOne ==
    ASSUME unread \in Nat
    PROVE  Unread!Max({unread, 1}) \in Nat /\ Unread!Max({unread, 1}) >= unread
<1> QED BY MaxOfTwo

LEMMA MarkUnreadKeepsUnread ==
    ASSUME Unread!UnreadAssumption, UnreadInv, Unread!MarkChatUnread, marks' \subseteq marks,
           UNCHANGED <<sent, readTo, reads, arriving, receipts, held, pending, sync, snapshots,
                       paged, snapped>>
    PROVE  UnreadInv'
<1> USE DEF UnreadInv
<1>1. unread' \in Nat /\ unread' >= unread /\ UNCHANGED <<seen, lastAt, covered>>
    BY AtLeastOne DEF Unread!MarkChatUnread, UnreadBase
<1>2. UnreadBase'
    BY <1>1 DEF UnreadBase
<1>3. ReceiptsInv' /\ SyncInv' /\ AheadInv' /\ Owed' \subseteq Owed
    BY <1>1, Standstill
       DEF ReceiptsInv, SyncInv, Named, Assembled, Span, AheadInv, Owed, Coming
<1> QED BY <1>1, <1>2, <1>3, HiddenStays

(* The history sync, one transaction at a time.                             *)
LEMMA StoreChatKeepsUnread ==
    ASSUME Unread!UnreadAssumption, UnreadInv, Unread!StoreChat
    PROVE  UnreadInv'
<1> USE DEF UnreadInv
<1> DEFINE taken == sync.settings /\ sync.through >= lastAt
<1>1. /\ sync # None /\ sync.at = "chat"
      /\ unread' = (IF taken THEN sync.unread ELSE unread)
      /\ sync' = [sync EXCEPT !.at = "messages", !.taken = taken]
      /\ lastAt' = Unread!Max({lastAt, sync.through})
      /\ UNCHANGED <<sent, readTo, reads, arriving, receipts, marks, held, seen, pending, snapshots,
                     covered, paged, snapped>>
    BY DEF Unread!StoreChat, Unread!Syncing, Unread!Elsewhere, Unread!account
<1>2. PICK r \in 0 .. readTo, s \in 1 .. sent :
          /\ sync.through = SentAt[s] /\ sync.unread = Cardinality(Span(r, s))
          /\ sync.settings => s \in snapped
    BY <1>1 DEF SyncInv, Assembled
<1>0. Blurred' = Blurred /\ Reached' = Reached
    BY <1>1, Standstill
<1>3. /\ s \in 1 .. Last /\ SentAt[s] \in Nat /\ SentAt[s] <= SentAt[Last] /\ SentAt[Last] \in Nat
      /\ lastAt \in Nat /\ lastAt <= SentAt[Last] /\ readTo \in Nat /\ sent \in Nat /\ r \in Nat
    BY TimesTyped DEF UnreadBase
<1>4. lastAt' \in 0 .. SentAt[Last] /\ lastAt' >= lastAt
    BY <1>1, <1>2, <1>3, MaxOfTwo
<1>5. Span(r, s) \in SUBSET (1 .. sent) /\ sync.unread \in Nat
    <2>1. Span(r, s) \in SUBSET (1 .. sent)
        BY <1>3 DEF Span
    <2> QED BY <1>2, <1>3, <2>1, Smaller
<1>6. UnreadBase'
    <2>1. \A k \in held : SentAt[k] <= lastAt'
        BY <1>3, <1>4, TimesTyped DEF UnreadBase
    <2>2. unread' \in Nat
        BY <1>1, <1>5 DEF UnreadBase
    <2> QED BY <1>1, <1>4, <2>1, <2>2 DEF UnreadBase
<1>7. ReceiptsInv' /\ AheadInv'
    BY <1>0, <1>1 DEF ReceiptsInv, AheadInv, Named
<1>8. /\ sync' \in Unread!Sync /\ sync'.at = "messages" /\ sync'.msgs = sync.msgs
      /\ sync'.boundary = sync.boundary /\ sync'.through = sync.through
      /\ sync'.unread = sync.unread /\ sync'.settings = sync.settings
    BY <1>1 DEF SyncInv, Unread!Sync
<1>9. sync'.taken => taken
    BY <1>1 DEF SyncInv, Unread!Sync
<1>10. SyncInv'
    <2>1. \E k \in 0 .. readTo', l \in 1 .. sent' : Assembled(sync, k, l)'
        BY <1>1, <1>8 DEF SyncInv, Assembled, Span
    <2> QED BY <1>0, <1>1, <1>8, <1>9, <2>1 DEF SyncInv
<1> HIDE DEF taken
<1>11. HiddenInv'
    <2> SUFFICES ASSUME seen = {} PROVE unread' >= Cardinality(Owed')
        BY <1>1, <1>8 DEF HiddenInv, Unread!UnreadAssumption
    <2>1. CASE ~taken
        <3>1. Owed' \subseteq Owed
            BY <1>0, <1>1, <1>9, <2>1 DEF Owed, Coming
        <3> QED BY <1>1, <1>6, <2>1, <3>1, HiddenStays DEF HiddenInv, UnreadBase
    <2>2. CASE taken
        <3>1. ASSUME NEW m \in Owed' PROVE m \in Span(r, s)
            <4>1. /\ m \in 1 .. sent /\ m \notin Silent /\ m > readTo /\ m \in 1 .. Last
                  /\ SentAt[m] \notin Blurred
                BY <1>0, <1>1, <1>3, <3>1, TimesTyped DEF Owed, UnreadBase
            <4>2. m \in held \/ SentAt[m] <= sync.through
                BY <1>1, <1>8, <3>1 DEF Owed, Coming
            <4>3. SentAt[m] <= SentAt[s]
                BY <1>2, <1>3, <2>2, <4>1, <4>2, TimesTyped DEF UnreadBase, taken
            <4>4. ~(s < m)
                <5>1. ASSUME s < m PROVE s \in Unread!Torn /\ SentAt[m] = SentAt[s]
                    <6>1. SentAt[s + 1] = SentAt[s] /\ SentAt[m] = SentAt[s]
                        BY <1>3, <4>1, <4>3, <5>1, SameSecond
                    <6>2. s \in snapped /\ s < sent
                        BY <1>2, <1>3, <2>2, <4>1, <5>1 DEF taken
                    <6> QED BY <6>1, <6>2 DEF Unread!Torn
                <5> QED BY <4>1, <5>1 DEF Blurred, Unread!Times
            <4> QED BY <1>3, <4>1, <4>4 DEF Span
        <3>2. Owed' \in SUBSET Span(r, s)
            BY <3>1
        <3>3. Cardinality(Owed') <= Cardinality(Span(r, s)) /\ Cardinality(Owed') \in Nat
            BY <1>3, <1>5, <3>2, Smaller
        <3> QED BY <1>1, <1>2, <1>5, <2>2, <3>3
    <2> QED BY <2>1, <2>2
<1> QED BY <1>6, <1>7, <1>10, <1>11

LEMMA HistoryKeepsUnread ==
    ASSUME Unread!UnreadAssumption, UnreadInv, Unread!StoreHistoryMessage
    PROVE  UnreadInv' /\ unread' = unread
<1> USE DEF UnreadInv
<1>1. PICK m \in sync.msgs :
          /\ sync' = [sync EXCEPT !.msgs = @ \ {m}] /\ held' = held \cup {m}
          /\ lastAt' = Unread!Max({lastAt, SentAt[m]})
          /\ paged' = IF sync.taken THEN paged ELSE paged \cup ({m} \ held)
          /\ UNCHANGED <<sent, readTo, reads, arriving, receipts, marks, seen, unread, pending,
                         snapshots, covered, snapped>>
    BY DEF Unread!StoreHistoryMessage, Unread!Elsewhere, Unread!account
<1>2. sync # None /\ sync.at = "messages"
    BY DEF Unread!StoreHistoryMessage, Unread!Syncing
<1>3. /\ m \in 1 .. sent /\ m \in 1 .. Last /\ SentAt[m] \in Nat /\ SentAt[Last] \in Nat
      /\ SentAt[m] <= SentAt[Last] /\ lastAt \in Nat /\ lastAt <= SentAt[Last]
    BY <1>2, TimesTyped DEF UnreadBase, SyncInv
<1>4. lastAt' \in 0 .. SentAt[Last] /\ lastAt' >= lastAt /\ lastAt' >= SentAt[m]
    BY <1>1, <1>3, MaxOfTwo
<1>5. UnreadBase'
    <2>1. ASSUME NEW k \in held' PROVE SentAt[k] <= lastAt'
        <3>1. CASE k = m
            BY <1>4, <3>1
        <3>2. CASE k # m
            <4>1. k \in held /\ SentAt[k] <= lastAt
                BY <1>1, <2>1, <3>2 DEF UnreadBase
            <4>2. k \in 1 .. Last
                BY <4>1, TimesTyped DEF UnreadBase
            <4>3. SentAt[k] \in Nat
                BY <4>2, TimesTyped
            <4> QED BY <1>3, <1>4, <4>1, <4>3
        <3> QED BY <3>1, <3>2
    <2> QED BY <1>1, <1>3, <1>4, <2>1 DEF UnreadBase
<1>0. Blurred' = Blurred /\ Reached' = Reached
    BY <1>1, Standstill
<1>6. ReceiptsInv' /\ AheadInv'
    BY <1>0, <1>1 DEF ReceiptsInv, AheadInv, Named
<1>7. /\ sync' \in Unread!Sync /\ sync'.at = sync.at /\ sync'.msgs \subseteq sync.msgs
      /\ sync'.boundary = sync.boundary /\ sync'.through = sync.through
      /\ sync'.unread = sync.unread /\ sync'.taken = sync.taken
      /\ sync'.settings = sync.settings
    BY <1>1, <1>2 DEF SyncInv, Unread!Sync
<1>8. SyncInv'
    <2>1. \A k \in held : k \in held'
        BY <1>1
    <2>2. \A r, s : Assembled(sync, r, s)' <=> Assembled(sync, r, s)
        BY <1>1, <1>7 DEF Assembled, Span
    <2> QED BY <1>0, <1>1, <1>2, <1>7, <2>1, <2>2 DEF SyncInv
<1>9. sync' # None
    BY <1>7 DEF Unread!UnreadAssumption
<1>10. Owed' \subseteq Owed
    <2>1. sync.taken => Coming(m)
        BY <1>2 DEF Coming, SyncInv
    <2>2. \A k : Coming(k)' <=> Coming(k)
        BY <1>2, <1>7, <1>9 DEF Coming
    <2>3. ~sync.taken /\ m \notin held => m \in paged'
        BY <1>1
    <2>4. paged \subseteq paged'
        BY <1>1
    <2> QED BY <1>0, <1>1, <2>1, <2>2, <2>3, <2>4 DEF Owed
<1>11. HiddenInv'
    BY <1>1, <1>5, <1>9, <1>10, HiddenStays DEF UnreadBase
<1> QED BY <1>1, <1>5, <1>6, <1>8, <1>11

(* The boundary is of no later second than a message that is reached: more  *)
(* rows than the phone counted would follow any other, unless its snapshot  *)
(* is torn.                                                                 *)
LEMMA BoundaryIsRead ==
    ASSUME Unread!UnreadAssumption, UnreadInv, sync # None, sync.settings,
           NEW m \in Unread!Described, Unread!Cardinality(Unread!After(m)) = sync.unread
    PROVE  m \in held /\ \E r \in Reached : SentAt[m] <= SentAt[r]
<1>1. PICK r \in 0 .. readTo, s \in 1 .. sent :
          /\ sync.through = SentAt[s] /\ sync.unread = Cardinality(Span(r, s))
          /\ s \in snapped
    BY DEF UnreadInv, SyncInv, Assembled
<1>2. /\ Last \in Nat /\ sent \in Nat /\ sent <= Last /\ readTo \in Nat /\ r \in Nat
      /\ s \in 1 .. Last /\ held \subseteq 1 .. sent
    BY TimesTyped DEF UnreadInv, UnreadBase
<1>3. ASSUME NEW n \in Unread!Described
      PROVE  n \in held /\ n \notin Silent /\ SentAt[n] <= SentAt[s]
    BY <1>1 DEF Unread!Described, Unread!Counted
<1>4. CASE s \in Unread!Torn
    <2>1. s \in Reached
        BY <1>4 DEF Reached
    <2> QED BY <1>3, <2>1
<1>5. CASE s \notin Unread!Torn
    <2>1. ASSUME NEW n \in Unread!Described PROVE n \in 1 .. s /\ n \notin Silent
        <3>1. n \in 1 .. sent /\ n \notin Silent /\ SentAt[n] <= SentAt[s]
            BY <1>2, <1>3
        <3>2. n <= s
            BY <1>1, <1>5, <3>1, NotTorn DEF UnreadInv
        <3> QED BY <1>2, <3>1, <3>2
    <2>2. m \in held /\ m \in 1 .. s /\ SentAt[m] \in Nat
        BY <1>2, <1>3, <2>1, TimesTyped
    <2>3. ~(m > r)
        <3> SUFFICES ASSUME m > r PROVE FALSE
            OBVIOUS
        <3>1. ASSUME NEW n \in Unread!After(m) PROVE n \in Span(r, s) \ {m}
            <4>1. /\ n \in Unread!Described
                  /\ SentAt[n] > SentAt[m] \/ (SentAt[n] = SentAt[m] /\ n > m)
                BY DEF Unread!After
            <4>2. n \in 1 .. s /\ n \notin Silent /\ n \in 1 .. Last /\ m \in 1 .. Last
                BY <1>2, <2>1, <2>2, <4>1
            <4>3. n \in Int /\ m \in Int /\ SentAt[n] \in Nat /\ ~(n < m) /\ n # m
                BY <2>2, <4>1, <4>2, TimesTyped
            <4>4. n \in (r + 1) .. s
                BY <1>2, <4>2, <4>3
            <4> QED BY <4>2, <4>3, <4>4 DEF Span
        <3>2. m \in Span(r, s) /\ Span(r, s) \in SUBSET (1 .. sent)
            BY <1>2, <2>1, <2>2 DEF Span
        <3>3. /\ Unread!After(m) \in SUBSET (Span(r, s) \ {m})
              /\ Span(r, s) \ {m} \in SUBSET (1 .. sent)
            BY <3>1, <3>2
        <3>4. Cardinality(Span(r, s) \ {m}) = Cardinality(Span(r, s)) - 1
            <4>1. IsFiniteSet(Span(r, s)) /\ Span(r, s) \in SUBSET Span(r, s)
                BY <1>2, <3>2, Smaller
            <4> QED BY <3>2, <4>1, FS_RemoveElement
        <3>5. /\ Cardinality(Unread!After(m)) <= Cardinality(Span(r, s) \ {m})
              /\ Cardinality(Unread!After(m)) \in Nat /\ Cardinality(Span(r, s) \ {m}) \in Nat
            BY <1>2, <3>3, Smaller
        <3>6. Cardinality(Span(r, s)) \in Nat
            BY <1>2, <3>2, Smaller
        <3> QED BY <1>1, <3>4, <3>5, <3>6, CardinalityIs
    <2>4. m \in Reached
        BY <1>2, <2>2, <2>3 DEF Reached
    <2> QED BY <2>2, <2>4
<1> QED BY <1>4, <1>5

LEMMA BoundaryKeepsUnread ==
    ASSUME Unread!UnreadAssumption, UnreadInv, Unread!FindBoundary
    PROVE  UnreadInv'
<1> USE DEF UnreadInv
<1> DEFINE past == {m \in Unread!Described : Unread!Cardinality(Unread!After(m)) = sync.unread}
           newest == Unread!NewestOf(past)
<1>1. /\ sync # None
      /\ sync' = [sync EXCEPT !.boundary = IF sync.settings THEN newest ELSE 0, !.at = "boundary"]
      /\ UNCHANGED <<sent, readTo, reads, arriving, receipts, marks, held, seen, unread, lastAt,
                     pending, snapshots, covered, paged, snapped>>
    BY DEF Unread!FindBoundary, Unread!Syncing, Unread!Elsewhere, Unread!account, Unread!chat
<1>0. Blurred' = Blurred /\ Reached' = Reached
    BY <1>1, Standstill
<1>2. sync.settings => \A m \in past : \E r \in Reached : SentAt[m] <= SentAt[r]
    BY <1>1, BoundaryIsRead
<1>11. past \subseteq held
    BY DEF Unread!Described, Unread!Counted
<1> HIDE DEF past
<1>3. past \in SUBSET (1 .. Last)
    <2>1. held \subseteq 1 .. Last
        BY TimesTyped DEF UnreadBase
    <2> QED BY <1>11, <2>1
<1>4. /\ newest \in Nat
      /\ newest > 0 /\ sync.settings =>
             \E m \in held, r \in Reached : SentAt[m] = newest /\ SentAt[m] <= SentAt[r]
    <2>1. /\ newest \in Nat
          /\ past # {} => \E m \in past : newest = SentAt[m]
          /\ past = {} => newest = 0
        BY <1>3, NewestIs
    <2> HIDE DEF newest
    <2>2. CASE past = {}
        BY ONLY <2>1, <2>2
    <2>3. CASE past # {}
        <3>1. PICK m \in past : newest = SentAt[m]
            BY ONLY <2>1, <2>3
        <3>2. m \in held /\ (sync.settings => \E r \in Reached : SentAt[m] <= SentAt[r])
            BY ONLY <1>2, <1>11, <3>1
        <3> QED BY ONLY <2>1, <3>1, <3>2
    <2> QED BY <2>2, <2>3
<1> HIDE DEF newest
<1>5. /\ sync' \in Unread!Sync /\ sync'.at = "boundary" /\ sync'.msgs = sync.msgs
      /\ sync'.boundary = (IF sync.settings THEN newest ELSE 0) /\ sync'.through = sync.through
      /\ sync'.unread = sync.unread /\ sync'.taken = sync.taken
      /\ sync'.settings = sync.settings
    BY <1>1, <1>4 DEF SyncInv, Unread!Sync
<1>6. SyncInv'
    <2>1. /\ sync' \in Unread!Sync /\ sync'.msgs \subseteq 1 .. sent'
          /\ \A m \in sync'.msgs : SentAt[m] <= sync'.through
          /\ sync'.at # "chat" /\ (sync'.taken => sync'.settings)
        BY <1>1, <1>5 DEF SyncInv
    <2>2. \E r \in 0 .. readTo', s \in 1 .. sent' : Assembled(sync, r, s)'
        <3>1. \E r \in 0 .. readTo, s \in 1 .. sent : Assembled(sync, r, s)
            BY <1>1 DEF SyncInv
        <3>2. \A r, s : Assembled(sync, r, s)' <=> Assembled(sync, r, s)
            BY <1>1, <1>5 DEF Assembled, Span
        <3> QED BY <1>1, <3>1, <3>2
    <2>3. sync'.boundary > 0 =>
              \E m \in held', r \in Reached' :
                  SentAt[m] = sync'.boundary /\ SentAt[m] <= SentAt[r]
        BY <1>0, <1>1, <1>4, <1>5
    <2> QED BY <2>1, <2>2, <2>3 DEF SyncInv
<1>7. UnreadBase' /\ ReceiptsInv' /\ AheadInv'
    BY <1>0, <1>1 DEF UnreadBase, ReceiptsInv, AheadInv, Named
<1>8. sync' # None
    BY <1>5 DEF Unread!UnreadAssumption
<1>9. Owed' \subseteq Owed
    BY <1>0, <1>1, <1>5 DEF Owed, Coming
<1>10. HiddenInv'
    BY <1>1, <1>7, <1>8, <1>9, HiddenStays DEF UnreadBase
<1> QED BY <1>6, <1>7, <1>10

LEMMA ReadStateKeepsUnread ==
    ASSUME Unread!UnreadAssumption, UnreadInv, Unread!ApplyHistoryReadState
    PROVE  UnreadInv'
<1> USE DEF UnreadInv
<1>1. /\ sync # None /\ sync.at = "boundary" /\ sync' = [sync EXCEPT !.at = "marked"]
      /\ UNCHANGED <<sent, readTo, reads, arriving, receipts, marks, held, pending, snapshots,
                     covered, paged, snapped>>
    BY DEF Unread!ApplyHistoryReadState, Unread!Syncing, Unread!GoTo, Unread!Elsewhere,
           Unread!account
<1>2. /\ sync' \in Unread!Sync /\ sync'.msgs = sync.msgs /\ sync'.at = "marked"
      /\ sync'.boundary = sync.boundary /\ sync'.through = sync.through
      /\ sync'.unread = sync.unread /\ sync'.taken = sync.taken
      /\ sync'.settings = sync.settings
    BY <1>1 DEF SyncInv, Unread!Sync
<1>0. Blurred' = Blurred /\ Reached' = Reached
    BY <1>1, Standstill
<1>3. SyncInv'
    <2>1. \A r, s : Assembled(sync, r, s)' <=> Assembled(sync, r, s)
        BY <1>1, <1>2 DEF Assembled, Span
    <2> QED BY <1>0, <1>1, <1>2, <2>1 DEF SyncInv
<1>4. sync' # None
    BY <1>2 DEF Unread!UnreadAssumption
<1>5. CASE sync.boundary > 0
    <2>1. /\ seen' = seen \cup {m \in held : SentAt[m] <= sync.boundary} /\ seen' \subseteq held
          /\ unread' \in Nat /\ lastAt' = lastAt
        BY <1>1, <1>5, MarkingThrough DEF Unread!ApplyHistoryReadState
    <2>2. UnreadBase' /\ ReceiptsInv'
        BY <1>1, <2>1 DEF UnreadBase, ReceiptsInv, Named
    <2>3. PICK b \in held, r \in Reached : SentAt[b] = sync.boundary /\ SentAt[b] <= SentAt[r]
        BY <1>1, <1>5 DEF SyncInv
    <2>4. \A m \in held : SentAt[m] <= SentAt[b] => SentAt[m] <= SentAt[r]
        <3>1. held \subseteq 1 .. Last /\ r \in 1 .. Last
            BY TimesTyped DEF UnreadBase, Reached
        <3>2. SentAt[b] \in Nat /\ SentAt[r] \in Nat /\ \A m \in held : SentAt[m] \in Nat
            BY <3>1, TimesTyped
        <3> QED BY <2>3, <3>2
    <2>5. AheadInv'
        BY <1>0, <2>1, <2>3, <2>4 DEF AheadInv
    <2>6. b \in seen'
        <3>1. SentAt[b] \in Nat
            BY TimesTyped DEF UnreadBase
        <3> QED BY <2>1, <2>3, <3>1
    <2>7. HiddenInv'
        BY <1>4, <2>6 DEF HiddenInv
    <2> QED BY <1>3, <2>2, <2>5, <2>7
<1>6. CASE ~(sync.boundary > 0)
    <2>1. UNCHANGED <<seen, unread, lastAt>>
        BY <1>6 DEF Unread!ApplyHistoryReadState, Unread!chat
    <2>2. UnreadBase' /\ ReceiptsInv' /\ AheadInv'
        BY <1>0, <1>1, <2>1 DEF UnreadBase, ReceiptsInv, AheadInv, Named
    <2>3. Owed' \subseteq Owed
        BY <1>0, <1>1, <1>2, <2>1 DEF Owed, Coming
    <2>4. HiddenInv'
        BY <1>1, <1>4, <2>1, <2>2, <2>3, HiddenStays DEF UnreadBase
    <2> QED BY <1>3, <2>2, <2>4
<1> QED BY <1>5, <1>6

LEMMA HistoryMarkKeepsUnread ==
    ASSUME Unread!UnreadAssumption, UnreadInv, Unread!ApplyHistoryMark
    PROVE  UnreadInv'
<1> USE DEF UnreadInv
<1>1. /\ sync # None /\ sync' = [sync EXCEPT !.at = "recount"]
      /\ unread' = (IF sync.marked THEN Unread!Max({unread, 1}) ELSE unread)
      /\ UNCHANGED <<sent, readTo, reads, arriving, receipts, marks, held, seen, lastAt, pending,
                     snapshots, covered, paged, snapped>>
    BY DEF Unread!ApplyHistoryMark, Unread!Syncing, Unread!GoTo, Unread!Elsewhere, Unread!account
<1>2. /\ sync' \in Unread!Sync /\ sync'.msgs = sync.msgs /\ sync'.at = "recount"
      /\ sync'.boundary = sync.boundary /\ sync'.through = sync.through
      /\ sync'.unread = sync.unread /\ sync'.taken = sync.taken
      /\ sync'.settings = sync.settings
    BY <1>1 DEF SyncInv, Unread!Sync
<1>0. Blurred' = Blurred /\ Reached' = Reached
    BY <1>1, Standstill
<1>3. SyncInv'
    <2>1. \A r, s : Assembled(sync, r, s)' <=> Assembled(sync, r, s)
        BY <1>1, <1>2 DEF Assembled, Span
    <2> QED BY <1>0, <1>1, <1>2, <2>1 DEF SyncInv
<1>4. unread' \in Nat /\ unread' >= unread
    BY <1>1, AtLeastOne DEF UnreadBase
<1>5. UnreadBase' /\ ReceiptsInv' /\ AheadInv'
    BY <1>0, <1>1, <1>4 DEF UnreadBase, ReceiptsInv, AheadInv, Named
<1>6. Owed' \subseteq Owed /\ sync' # None
    BY <1>0, <1>1, <1>2 DEF Owed, Coming, Unread!UnreadAssumption
<1>7. HiddenInv'
    BY <1>1, <1>4, <1>5, <1>6, HiddenStays
<1> QED BY <1>3, <1>5, <1>7

LEMMA FinalRecountKeepsUnread ==
    ASSUME Unread!UnreadAssumption, UnreadInv, Unread!RecalculateUnreadCounts
    PROVE  UnreadInv'
<1> USE DEF UnreadInv
<1>1. /\ sync' = None /\ Unread!Recount
      /\ UNCHANGED <<sent, readTo, reads, arriving, receipts, marks, held, seen, lastAt, pending,
                     snapshots, covered, paged, snapped>>
    BY DEF Unread!RecalculateUnreadCounts, Unread!Elsewhere, Unread!account
<1>2. unread' \in Nat
    BY RecountTyped DEF Unread!RecalculateUnreadCounts
<1>3. UnreadBase'
    BY <1>1, <1>2 DEF UnreadBase
<1>4. ReceiptsInv' /\ AheadInv' /\ SyncInv'
    BY <1>1, Standstill DEF ReceiptsInv, AheadInv, Named, SyncInv
<1>5. HiddenInv'
    BY <1>1, <1>3, RecountCovers
<1> QED BY <1>3, <1>4, <1>5

LEMMA InitUnreadInv == ASSUME Unread!UnreadAssumption, Unread!Init PROVE UnreadInv
<1> USE DEF Unread!Init
<1>1. Last \in Nat /\ SentAt[Last] \in Nat /\ MaxReads \in Nat /\ MaxSnapshots \in Nat
    BY TimesTyped DEF Unread!UnreadAssumption
<1>2. UnreadBase /\ ReceiptsInv /\ AheadInv /\ SyncInv
    BY <1>1 DEF UnreadBase, ReceiptsInv, AheadInv, SyncInv
<1>3. Owed = {}
    BY DEF Owed
<1> QED BY <1>2, <1>3, FS_EmptySet DEF UnreadInv, HiddenInv

LEMMA StepKeepsUnread ==
    ASSUME Unread!UnreadAssumption, UnreadInv, Unread!Next \/ UNCHANGED unreadVars
    PROVE  UnreadInv' /\ seen \subseteq seen' /\ (held # held' => unread' >= unread)
<1> USE DEF UnreadInv
<1>1. CASE UNCHANGED unreadVars
    <2>1. UNCHANGED <<sent, readTo, reads, arriving, receipts, marks, held, seen, unread, lastAt,
                      pending, sync, snapshots, covered, paged, snapped>>
        BY <1>1 DEF unreadVars
    <2>2. UnreadBase' /\ ReceiptsInv' /\ AheadInv' /\ SyncInv'
        BY <2>1, Standstill
           DEF UnreadBase, ReceiptsInv, Named, AheadInv, SyncInv, Assembled, Span
    <2>3. Owed' \subseteq Owed
        BY <2>1, Standstill DEF Owed, Coming
    <2> QED BY <2>1, <2>2, <2>3, HiddenStays DEF UnreadBase
<1>2. CASE Unread!Say
    BY <1>2, SayKeepsUnread DEF Unread!Say
<1>3. CASE Unread!ReadElsewhere
    <2>1. PICK type \in {"read", "read-self"} :
              receipts' = receipts \cup {[type |-> type, ids |-> (readTo + 1) .. sent]}
        BY <1>3 DEF Unread!ReadElsewhere
    <2>2. /\ reads < MaxReads /\ readTo < sent /\ readTo' = sent /\ reads' = reads + 1
          /\ UNCHANGED <<sent, arriving, marks, held, seen, unread, lastAt, pending, sync,
                         snapshots, covered, paged, snapped>>
        BY <1>3 DEF Unread!ReadElsewhere, Unread!chat
    <2>3. readTo' \in readTo .. sent /\ reads' \in 0 .. MaxReads
        BY <2>2 DEF UnreadBase, Unread!UnreadAssumption
    <2> DEFINE new == [type |-> type, ids |-> (readTo + 1) .. sent]
    <2>4. new \in Unread!Receipt /\ \A m \in new.ids : m <= readTo'
        <3>1. (readTo + 1) .. sent \subseteq Unread!Incoming
            BY TimesTyped DEF UnreadBase
        <3> QED BY <2>2, <3>1 DEF Unread!Receipt
    <2>5. \A r \in receipts' :
              r \in receipts \/ (r \in Unread!Receipt /\ \A m \in r.ids : m <= readTo')
        BY <2>1, <2>4
    <2> QED BY <2>2, <2>3, <2>5, ReadingKeepsUnread DEF UnreadBase
<1>4. CASE Unread!HistoryArrives
    BY <1>4, ArrivalKeepsUnread DEF Unread!HistoryArrives
<1>5. CASE Unread!HandleMessage
    BY <1>5, MessageKeepsUnread DEF Unread!HandleMessage
<1>6. CASE Unread!UpdateReceipt
    BY <1>6, ReceiptKeepsUnread DEF Unread!UpdateReceipt
<1>7. CASE Unread!RecalculateChatUnread
    BY <1>7, RecountKeepsUnread DEF Unread!RecalculateChatUnread
<1>8. CASE Unread!ReadSelf
    <2>1. /\ Unread!MarkChatRead /\ pending' = None
          /\ UNCHANGED <<sent, readTo, reads, arriving, receipts, marks, held, sync, snapshots,
                         paged, snapped>>
        BY <1>8 DEF Unread!ReadSelf, Unread!account
    <2>2. seen \subseteq seen'
        BY <2>1 DEF Unread!MarkChatRead, Unread!MarkChatReadThrough
    <2> QED BY <2>1, <2>2, MarkReadKeepsUnread
<1>9. CASE Unread!ReadHere
    <2>1. /\ reads < MaxReads /\ readTo' = Unread!Max({readTo} \cup held) /\ reads' = reads + 1
          /\ marks' = marks \cup {"read"}
          /\ UNCHANGED <<sent, arriving, receipts, held, seen, unread, lastAt, pending, sync,
                         snapshots, covered, paged, snapped>>
        BY <1>9 DEF Unread!ReadHere, Unread!chat
    <2>2. readTo' \in readTo .. sent
        <3>1. {readTo} \cup held \in SUBSET (0 .. sent) /\ sent \in Nat /\ {readTo} \cup held # {}
            BY DEF UnreadBase
        <3>2. Max({readTo} \cup held) \in {readTo} \cup held /\ readTo <= Max({readTo} \cup held)
            BY <3>1, MaxOfBounded
        <3>3. readTo' = Max({readTo} \cup held)
            BY <2>1 DEF Unread!Max, Max
        <3> QED BY <3>1, <3>2, <3>3
    <2>3. reads' \in 0 .. MaxReads
        BY <2>1 DEF UnreadBase, Unread!UnreadAssumption
    <2> QED BY <2>1, <2>2, <2>3, ReadingKeepsUnread DEF UnreadBase
<1>10. CASE Unread!UnreadHere
    <2>1. /\ reads < MaxReads /\ reads' = reads + 1 /\ marks' = marks \cup {"unread"}
          /\ UNCHANGED <<sent, readTo, arriving, receipts, held, seen, unread, lastAt, pending,
                         sync, snapshots, covered, paged, snapped>>
        BY <1>10 DEF Unread!UnreadHere, Unread!chat
    <2>2. reads' \in 0 .. MaxReads /\ readTo' \in readTo .. sent
        BY <2>1 DEF UnreadBase, Unread!UnreadAssumption
    <2> QED BY <2>1, <2>2, ReadingKeepsUnread DEF UnreadBase
<1>11. CASE Unread!StoreMark
    <2>1. PICK mark \in marks :
              /\ marks' = marks \ {mark}
              /\ IF mark = "read" THEN Unread!MarkChatRead ELSE Unread!MarkChatUnread
              /\ UNCHANGED <<sent, readTo, reads, arriving, receipts, held, pending, sync,
                             snapshots, paged, snapped>>
        BY <1>11 DEF Unread!StoreMark, Unread!account
    <2>2. seen \subseteq seen' /\ marks' \subseteq marks
        BY <2>1 DEF Unread!MarkChatRead, Unread!MarkChatReadThrough, Unread!MarkChatUnread
    <2>3. CASE Unread!MarkChatRead
        BY <2>1, <2>2, <2>3, MarkReadKeepsUnread
    <2>4. CASE Unread!MarkChatUnread
        BY <2>1, <2>2, <2>4, MarkUnreadKeepsUnread
    <2> QED BY <2>1, <2>3, <2>4
<1>12. CASE Unread!StoreChat
    BY <1>12, StoreChatKeepsUnread DEF Unread!StoreChat
<1>13. CASE Unread!StoreHistoryMessage
    <2>1. unread' = unread /\ seen' = seen
        BY <1>13, HistoryKeepsUnread DEF Unread!StoreHistoryMessage, Unread!account
    <2>2. unread \in Nat
        BY DEF UnreadBase
    <2> QED BY <1>13, <2>1, <2>2, HistoryKeepsUnread
<1>14. CASE Unread!FindBoundary
    BY <1>14, BoundaryKeepsUnread DEF Unread!FindBoundary
<1>15. CASE Unread!ApplyHistoryReadState
    <2>1. seen \subseteq seen' /\ held' = held
        BY <1>15 DEF Unread!ApplyHistoryReadState, Unread!MarkChatReadThrough
    <2> QED BY <1>15, <2>1, ReadStateKeepsUnread
<1>16. CASE Unread!ApplyHistoryMark
    BY <1>16, HistoryMarkKeepsUnread DEF Unread!ApplyHistoryMark
<1>17. CASE Unread!RecalculateUnreadCounts
    BY <1>17, FinalRecountKeepsUnread DEF Unread!RecalculateUnreadCounts
<1> QED BY <1>1, <1>2, <1>3, <1>4, <1>5, <1>6, <1>7, <1>8, <1>9, <1>10, <1>11, <1>12, <1>13, <1>14,
           <1>15, <1>16, <1>17 DEF Unread!Next, Unread!HandleHistorySync

LEMMA UnreadInvIsEnough ==
    ASSUME Unread!UnreadAssumption, UnreadInv
    PROVE  /\ Unread!TypeOK /\ Unread!HistoryNeverReadsAhead /\ Unread!NothingUnreadIsHidden
<1> USE DEF UnreadInv
<1>1. /\ readTo \in Nat /\ covered \in Nat /\ sent \in Nat /\ sent <= Last /\ Last \in Nat
      /\ held \subseteq 1 .. sent /\ seen \subseteq held
    BY TimesTyped DEF UnreadBase
<1> DEFINE most == Unread!Max({readTo, covered})
<1>2. most = IF readTo >= covered THEN readTo ELSE covered
    BY <1>1, MaxOfTwo
<1> HIDE DEF most
<1>3. Unread!HistoryNeverReadsAhead
    <2>1. Reached \subseteq (1 .. most) \cup Unread!Torn
        BY <1>1, <1>2 DEF Reached
    <2> QED BY <2>1 DEF Unread!HistoryNeverReadsAhead, AheadInv, most
<1>4. Unread!NothingUnreadIsHidden
    <2> DEFINE new == {m \in Unread!Newer(held, seen) \ paged :
                           m > most /\ SentAt[m] \notin Blurred}
    <2> SUFFICES ASSUME sync = None PROVE unread >= Unread!Cardinality(new)
        BY DEF Unread!NothingUnreadIsHidden, most, Blurred
    <2>1. held \in SUBSET (1 .. Last) /\ seen \in SUBSET (1 .. Last)
        BY <1>1
    <2>2. Unread!Newer(held, seen) =
              {m \in held : m \notin Silent /\ \A n \in seen : SentAt[m] > SentAt[n]}
        BY <2>1, NewerIs
    <2>3. \A m \in held : m > most => m \in 1 .. sent /\ m > readTo /\ m > covered
        BY <1>1, <1>2
    <2>4. new \in SUBSET Owed
        BY <2>2, <2>3 DEF Owed
    <2> HIDE DEF new
    <2>5. Owed \in SUBSET (1 .. sent)
        BY OwedTyped
    <2>6. /\ Cardinality(new) <= Cardinality(Owed)
          /\ Cardinality(new) \in Nat /\ Cardinality(Owed) \in Nat
        BY <1>1, <2>4, <2>5, Smaller
    <2> QED BY <2>6, CardinalityIs DEF HiddenInv, UnreadBase
<1>5. Unread!TypeOK
    <2>1. arriving \subseteq Unread!Incoming
        BY <1>1, TimesTyped DEF UnreadBase
    <2>2. receipts \subseteq Unread!Receipt /\ pending \in Unread!Receipt \cup {None}
        BY DEF ReceiptsInv, Named
    <2>3. sync \in Unread!Sync \cup {None} /\ (sync # None => sync.msgs \subseteq 1 .. sent)
        BY DEF SyncInv
    <2> QED BY <2>1, <2>2, <2>3 DEF Unread!TypeOK, UnreadBase
<1> QED BY <1>3, <1>4, <1>5

LEMMA UnreadHolds == ChatsSpec => []UnreadInv
<1>1. Unread!UnreadAssumption
    BY ConstantsAssumption
<1>2. ChatsInit => UnreadInv
    BY <1>1, InitUnreadInv DEF ChatsInit
<1>3. UnreadInv /\ [ChatsNext]_<<looking, unreadVars, flagsVars, addonsVars, callsVars, vars>>
        => UnreadInv'
    BY <1>1, StepKeepsUnread DEF ChatsNext
<1> QED BY <1>2, <1>3, PTL DEF ChatsSpec

(* The badge is honest, for any number of messages, syncs, receipts and     *)
(* reads, and whatever messages share a second: but for the second of a     *)
(* torn snapshot, history does not read ahead of the account and with no    *)
(* sync in hand no message that was not read is left out; and what was read *)
(* stays read.                                                              *)
THEOREM BadgeStaysHonest == ChatsSpec => BadgeIsHonest
<1>1. Unread!UnreadAssumption
    BY ConstantsAssumption
<1>2. ChatsSpec => []UnreadInv
    BY UnreadHolds
<1>3. UnreadInv => Unread!HistoryNeverReadsAhead /\ Unread!NothingUnreadIsHidden
    BY <1>1, UnreadInvIsEnough
<1>4. UnreadInv /\ [ChatsNext]_<<looking, unreadVars, flagsVars, addonsVars, callsVars, vars>>
        => [seen \subseteq seen' /\ (held # held' => unread' >= unread)]_Unread!vars
    BY <1>1, StepKeepsUnread DEF ChatsNext
<1> QED
    BY <1>2, <1>3, <1>4, PTL DEF ChatsSpec, BadgeIsHonest, Unread!BadgeIsHonest, Unread!ReadStays

-----------------------------------------------------------------------------
(* The settings of the account. A behaviour is about one of them.           *)

Change(setting) ==
    IF setting = "pin" THEN [setting : {"pin"}, value : BOOLEAN]
    ELSE IF setting = "favorites" THEN [setting : {"favorites"}, value : SUBSET Chats]
    ELSE [setting : {"list"}, id : Flags!ListIds, deleted : BOOLEAN]

Call ==
    [change : Change(subject), step : {"send", "store"}, place : Nat, upTo : Nat,
     known : SUBSET Flags!ListIds]

Accepted == [change : Change(subject), time : Nat]
PinRow   == [pinned : BOOLEAN, action : Nat]

(* The changes have times that grow; no row and no change is of the future. *)
FlagsTypes ==
    /\ subject \in Flags!Settings
    /\ log \in Seq(Accepted) /\ Len(log) <= MaxChanges /\ handled \in 0 .. Len(log)
    /\ now \in Nat \ {0}
    /\ \A i \in 1 .. Len(log) : log[i].time \in 1 .. (now - 1)
    /\ \A i, j \in 1 .. Len(log) : i < j => log[i].time < log[j].time
    /\ rows \in [Flags!Addresses -> PinRow \cup {None}]
    /\ \A a \in Flags!Addresses : rows[a] # None => rows[a].action < now
    /\ linked \in BOOLEAN /\ (linked => rows["alias"] = None)
    /\ hint \in [address : Flags!Addresses, pinned : BOOLEAN] \cup {None}
    /\ favorites \subseteq Chats
    /\ labels \in [Flags!ListIds -> {"absent", "live", "deleted"}]
    /\ calls \in [Callers -> Call \cup {None}]
    /\ outdone \subseteq 1 .. Len(log)

(* What a call is to store, the account accepted at its place.              *)
Waiting(c, step) == calls[c] # None /\ calls[c].step = step
PlaceInv ==
    \A c \in Callers : Waiting(c, "store") =>
        /\ calls[c].place \in 1 .. Len(log) /\ log[calls[c].place].change = calls[c].change

(* The newest row, when an action has reached it, has the pin of some       *)
(* change: every later one is of a later time, or a call stored over it.    *)
PinOf(r, i) ==
    /\ r.pinned = log[i].change.value /\ log[i].time <= r.action
    /\ \A j \in 1 .. Len(log) : j > i => log[j].time > r.action \/ j \in outdone
Newest(a) ==
    /\ rows[a] # None /\ rows[a].action > 0
    /\ \A b \in Flags!Addresses : rows[b] # None => rows[b].action <= rows[a].action

(* And one of the rows is as new as the last change this device handled.    *)
PinInv ==
    subject = "pin" =>
        /\ \A a \in Flags!Addresses : Newest(a) => \E i \in 1 .. Len(log) : PinOf(rows[a], i)
        /\ handled > 0 =>
               \E a \in Flags!Addresses : rows[a] # None /\ rows[a].action >= log[handled].time

(* The favourites here are those of the account after some change: not      *)
(* before one that was handled, unless a call stored over it. A call adds   *)
(* or removes one, of those of some change no older than the newest it knew.*)
OneApart(m, n) == \E j \in Chats : (m \ n) \cup (n \ m) \subseteq {j}
FavoritesInv ==
    subject = "favorites" =>
        /\ \A h \in 0 .. handled : h \notin outdone =>
               \E i \in h .. Len(log) : favorites = Flags!FavoritesOf(i)
        /\ \A c \in Callers : Waiting(c, "send") =>
               \E i \in calls[c].upTo .. Len(log) :
                   OneApart(Flags!FavoritesOf(i), calls[c].change.value)

(* The lists are those of the changes this device has handled, but for one  *)
(* that a change to come is about or that a call stored over.               *)
OfList(id) == {i \in 1 .. Len(log) : log[i].change.id = id}
LastHandled(id, i) ==
    i \in OfList(id) /\ i <= handled /\ \A j \in OfList(id) : j <= handled => j <= i
Deleted(i) == IF log[i].change.deleted THEN "deleted" ELSE "live"
ListsInv ==
    subject = "list" =>
        /\ \A id \in Flags!ListIds :
               \/ \E i \in OfList(id) : i > handled
               \/ \A i \in OfList(id) :
                      LastHandled(id, i) => labels[id] = Deleted(i) \/ i \in outdone
        /\ \A id \in Flags!ListsOf(handled) : labels[id] # "absent"
        /\ \A c \in Callers : calls[c] # None => calls[c].change.id \notin calls[c].known

FlagsInv == FlagsTypes /\ PlaceInv /\ PinInv /\ FavoritesInv /\ ListsInv

LEMMA ChangeIs ==
    ASSUME NEW s \in Flags!Settings, NEW ch \in Change(s)
    PROVE  /\ ch.setting = s
           /\ s = "pin" => ch.value \in BOOLEAN
           /\ s = "favorites" => ch.value \in SUBSET Chats
           /\ s = "list" => ch.id \in Flags!ListIds /\ ch.deleted \in BOOLEAN
<1> QED BY DEF Change, Flags!Settings

LEMMA ChangesTyped ==
    ASSUME FlagsTypes
    PROVE  /\ Len(log) \in Nat /\ DOMAIN log = 1 .. Len(log)
           /\ \A i \in 1 .. Len(log) :
                 /\ log[i] \in Accepted /\ log[i].change \in Change(subject)
                 /\ log[i].change.setting = subject /\ log[i].time \in Nat
<1>1. Len(log) \in Nat /\ \A i \in 1 .. Len(log) : log[i] \in Accepted
    BY DEF FlagsTypes
<1>2. \A i \in 1 .. Len(log) : log[i].change \in Change(subject) /\ log[i].time \in Nat
    BY <1>1 DEF Accepted
<1>3. \A i \in 1 .. Len(log) : log[i].change.setting = subject
    BY <1>2, ChangeIs DEF FlagsTypes
<1> QED BY <1>1, <1>2, <1>3 DEF FlagsTypes

(* Every change is about the setting of the behaviour.                      *)
LEMMA AboutIs ==
    ASSUME FlagsTypes, NEW n \in 0 .. Len(log)
    PROVE  /\ Flags!About(subject, n) = 1 .. n
           /\ subject = "list" => Flags!ListsOf(n) = {log[i].change.id : i \in 1 .. n}
           /\ subject # "list" => Flags!ListsOf(n) = {}
           /\ Flags!ListsOf(n) \subseteq Flags!ListIds
<1>1. \A i \in 1 .. n : i \in 1 .. Len(log)
    BY ChangesTyped
<1>2. Flags!About(subject, n) = 1 .. n
    BY <1>1, ChangesTyped DEF Flags!About
<1>3. subject = "list" => Flags!ListsOf(n) = {log[i].change.id : i \in 1 .. n}
    BY <1>2 DEF Flags!ListsOf
<1>4. subject # "list" => Flags!About("list", n) = {}
    BY <1>1, ChangesTyped DEF Flags!About
<1>5. subject # "list" => Flags!ListsOf(n) = {}
    BY <1>4 DEF Flags!ListsOf
<1>6. subject = "list" => \A i \in 1 .. n : log[i].change.id \in Flags!ListIds
    BY <1>1, ChangesTyped, ChangeIs DEF FlagsTypes
<1> QED BY <1>2, <1>3, <1>5, <1>6

LEMMA LatestIs ==
    ASSUME FlagsTypes, NEW none
    PROVE  Flags!Latest(subject, none) =
               IF Len(log) = 0 THEN none ELSE log[Len(log)].change.value
<1>1. Len(log) \in Nat /\ Flags!About(subject, Len(log)) = 1 .. Len(log)
    BY ChangesTyped, AboutIs
<1>2. CASE Len(log) = 0
    BY <1>1, <1>2 DEF Flags!Latest
<1>3. CASE Len(log) # 0
    <2>1. /\ Len(log) \in 1 .. Len(log) /\ 1 .. Len(log) \in SUBSET Int
          /\ \A y \in 1 .. Len(log) : y <= Len(log)
        BY <1>1, <1>3
    <2>2. Max(1 .. Len(log)) = Len(log)
        BY <2>1, MaxIs
    <2>3. Flags!Max(1 .. Len(log)) = Len(log)
        BY <2>2 DEF Flags!Max, Max
    <2> QED BY <1>1, <1>3, <2>1, <2>3 DEF Flags!Latest
<1> QED BY <1>2, <1>3

(* A change the account accepts is the last one, and the newest.            *)
LEMMA AcceptIs ==
    ASSUME FlagsTypes, NEW ch \in Change(subject), Flags!Accept(ch)
    PROVE  /\ subject' = subject /\ now' = now + 1
           /\ Len(log') = Len(log) + 1 /\ Len(log') <= MaxChanges
           /\ \A i \in 1 .. Len(log) : log'[i] = log[i]
           /\ log'[Len(log')].change = ch /\ log'[Len(log')].time = now
           /\ log' \in Seq(Accepted)
           /\ \A i \in 1 .. Len(log') : log'[i].time \in 1 .. (now' - 1)
           /\ \A i, j \in 1 .. Len(log') : i < j => log'[i].time < log'[j].time
<1> DEFINE new == [change |-> ch, time |-> now]
<1>1. /\ subject' = subject /\ now' = now + 1 /\ log' = Append(log, new) /\ Len(log) < MaxChanges
    BY DEF Flags!Accept
<1>2. new \in Accepted /\ log \in Seq(Accepted) /\ now \in Nat /\ new.change = ch /\ new.time = now
    BY DEF Accepted, FlagsTypes
<1> HIDE DEF new
<1>3. /\ log' \in Seq(Accepted) /\ Len(log') = Len(log) + 1 /\ log'[Len(log) + 1] = new
      /\ \A i \in 1 .. Len(log) : log'[i] = log[i]
    BY <1>1, <1>2
<1>4. MaxChanges \in Nat
    BY ConstantsAssumption DEF Flags!SettingsAssumption
<1>5. Len(log) \in Nat
    BY ChangesTyped
<1>6. now > 0
    BY DEF FlagsTypes
<1>7. \A i \in 1 .. Len(log') : i \in 1 .. Len(log) \/ i = Len(log')
    BY <1>3, <1>5
<1>8. \A i \in 1 .. Len(log) : log[i].time \in 1 .. (now - 1)
    BY DEF FlagsTypes
<1>9. \A i \in 1 .. Len(log') : log'[i].time \in 1 .. (now' - 1)
    BY <1>1, <1>2, <1>3, <1>6, <1>7, <1>8
<1>10. \A i, j \in 1 .. Len(log') : i < j => log'[i].time < log'[j].time
    <2> SUFFICES ASSUME NEW i \in 1 .. Len(log'), NEW j \in 1 .. Len(log'), i < j
                 PROVE  log'[i].time < log'[j].time
        OBVIOUS
    <2>1. i \in 1 .. Len(log)
        BY <1>3, <1>5
    <2>2. CASE j \in 1 .. Len(log)
        BY <1>3, <2>1, <2>2 DEF FlagsTypes
    <2>3. CASE j = Len(log')
        BY <1>2, <1>3, <1>8, <2>1, <2>3
    <2> QED BY <1>7, <2>2, <2>3
<1>11. Len(log') <= MaxChanges
    BY <1>1, <1>3, <1>4, <1>5
<1>12. log'[Len(log')].change = ch /\ log'[Len(log')].time = now
    BY <1>2, <1>3
<1> QED BY <1>1, <1>3, <1>9, <1>10, <1>11, <1>12

(* Storing a change writes the columns of its setting.                      *)
LEMMA StoreIs ==
    ASSUME FlagsTypes, NEW ch \in Change(subject), NEW address \in Flags!Addresses, NEW t,
           Flags!Store(ch, address, t)
    PROVE  /\ subject = "pin" =>
                  /\ UNCHANGED <<favorites, labels>>
                  /\ \E a \in Flags!Addresses :
                        /\ linked => a = "canonical"
                        /\ rows' = [rows EXCEPT ![a] =
                               IF rows[a] = None \/ t >= rows[a].action
                               THEN Flags!Row(ch.value, t) ELSE rows[a]]
           /\ subject = "favorites" => UNCHANGED <<rows, labels>> /\ favorites' = ch.value
           /\ subject = "list" =>
                  /\ UNCHANGED <<rows, favorites>>
                  /\ labels' = [labels EXCEPT ![ch.id] = IF ch.deleted THEN "deleted" ELSE "live"]
<1>1. ch.setting = subject
    BY ChangeIs DEF FlagsTypes
<1>2. ASSUME subject = "pin"
      PROVE  /\ UNCHANGED <<favorites, labels>>
             /\ \E a \in Flags!Addresses :
                   /\ linked => a = "canonical"
                   /\ rows' = [rows EXCEPT ![a] =
                          IF rows[a] = None \/ t >= rows[a].action
                          THEN Flags!Row(ch.value, t) ELSE rows[a]]
    <2>1. Flags!UpdateChatPinnedAt(address, ch.value, t) /\ UNCHANGED <<favorites, labels>>
        BY <1>1, <1>2 DEF Flags!Store
    <2> DEFINE a == Flags!At(address)
    <2>2. a \in Flags!Addresses /\ (linked => a = "canonical")
        BY DEF Flags!At, Flags!Addresses
    <2>3. rows' = [rows EXCEPT ![a] = IF rows[a] = None \/ t >= rows[a].action
                                      THEN Flags!Row(ch.value, t) ELSE rows[a]]
        BY <2>1 DEF Flags!UpdateChatPinnedAt
    <2> HIDE DEF a
    <2> QED BY <2>1, <2>2, <2>3
<1>3. ASSUME subject = "favorites" PROVE UNCHANGED <<rows, labels>> /\ favorites' = ch.value
    BY <1>1, <1>3 DEF Flags!Store, Flags!UpdateChatFavorites
<1>4. ASSUME subject = "list"
      PROVE  /\ UNCHANGED <<rows, favorites>>
             /\ labels' = [labels EXCEPT ![ch.id] = IF ch.deleted THEN "deleted" ELSE "live"]
    BY <1>1, <1>4 DEF Flags!Store, Flags!UpsertLabel
<1> QED BY <1>2, <1>3, <1>4

(* A row of the moment t, or a row there was.                               *)
LEMMA StoreKeepsTypes ==
    ASSUME FlagsTypes, NEW ch \in Change(subject), NEW address \in Flags!Addresses, NEW t \in Nat,
           Flags!Store(ch, address, t)
    PROVE  /\ rows' \in [Flags!Addresses -> PinRow \cup {None}]
           /\ \A a \in Flags!Addresses :
                 \/ rows'[a] = rows[a]
                 \/ subject = "pin" /\ rows'[a] = Flags!Row(ch.value, t)
           /\ linked => rows'["alias"] = None
           /\ favorites' \subseteq Chats
           /\ labels' \in [Flags!ListIds -> {"absent", "live", "deleted"}]
<1>0. subject \in Flags!Settings /\ ch.setting = subject
    BY ChangeIs DEF FlagsTypes
<1>1. CASE subject = "pin"
    <2>1. PICK a \in Flags!Addresses :
              /\ linked => a = "canonical"
              /\ rows' = [rows EXCEPT ![a] = IF rows[a] = None \/ t >= rows[a].action
                                             THEN Flags!Row(ch.value, t) ELSE rows[a]]
        BY <1>1, StoreIs
    <2>2. Flags!Row(ch.value, t) \in PinRow
        BY <1>0, <1>1, ChangeIs DEF Flags!Row, PinRow
    <2>3. UNCHANGED <<favorites, labels>>
        BY <1>1, StoreIs
    <2> QED BY <1>1, <2>1, <2>2, <2>3 DEF FlagsTypes, Flags!Addresses
<1>2. CASE subject = "favorites"
    <2>1. favorites' = ch.value /\ UNCHANGED <<rows, labels>>
        BY <1>2, StoreIs
    <2>2. ch.value \in SUBSET Chats
        BY <1>0, <1>2, ChangeIs
    <2> QED BY <2>1, <2>2 DEF FlagsTypes
<1>3. CASE subject = "list"
    <2>1. /\ UNCHANGED <<rows, favorites>>
          /\ labels' = [labels EXCEPT ![ch.id] = IF ch.deleted THEN "deleted" ELSE "live"]
        BY <1>3, StoreIs
    <2> QED BY <2>1 DEF FlagsTypes
<1> QED BY <1>0, <1>1, <1>2, <1>3 DEF Flags!Settings

(* The setting is changed elsewhere. *)
LEMMA ElsewhereIs ==
    ASSUME FlagsTypes, Flags!ChangeElsewhere
    PROVE  \E ch \in Change(subject) : Flags!MakeElsewhere(ch)
<1> USE DEF Flags!ChangeElsewhere
<1>0. subject \in Flags!Settings /\ Len(log) \in 0 .. Len(log)
    BY ChangesTyped DEF FlagsTypes
<1>1. ASSUME NEW pinned \in BOOLEAN, Flags!MakeElsewhere(Flags!Pin(pinned))
      PROVE  Flags!Pin(pinned) \in Change(subject)
    BY <1>1 DEF Flags!MakeElsewhere, Flags!Pin, Change
<1>2. ASSUME NEW jids \in {Flags!Latest("favorites", {})}, NEW j \in Chats,
             NEW new \in {jids \cup {j}, jids \ {j}}, Flags!MakeElsewhere(Flags!Favorites(new))
      PROVE  Flags!Favorites(new) \in Change(subject)
    <2>1. subject = "favorites"
        BY <1>2 DEF Flags!MakeElsewhere, Flags!Favorites
    <2>2. jids = IF Len(log) = 0 THEN {} ELSE log[Len(log)].change.value
        BY <1>2, <2>1, LatestIs
    <2>3. jids \in SUBSET Chats
        <3>1. CASE Len(log) = 0
            BY <2>2, <3>1
        <3>2. CASE Len(log) # 0
            BY <1>0, <2>1, <2>2, <3>2, ChangesTyped, ChangeIs
        <3> QED BY <3>1, <3>2
    <2>4. new \in SUBSET Chats
        BY <1>2, <2>3
    <2> QED BY <2>1, <2>4 DEF Flags!Favorites, Change
<1>3. ASSUME NEW i \in Flags!ListIds, NEW deleted \in BOOLEAN,
             Flags!MakeElsewhere(Flags!List(i, deleted))
      PROVE  Flags!List(i, deleted) \in Change(subject)
    BY <1>3 DEF Flags!MakeElsewhere, Flags!List, Change
<1>4. Flags!ListsOf(Len(log)) \subseteq Flags!ListIds
    BY <1>0, AboutIs
<1>5. CASE \E pinned \in BOOLEAN : Flags!MakeElsewhere(Flags!Pin(pinned))
    BY <1>1, <1>5
<1>6. CASE \E j \in Chats, jids \in {Flags!Latest("favorites", {})} :
               \/ Flags!MakeElsewhere(Flags!Favorites(jids \cup {j}))
               \/ Flags!MakeElsewhere(Flags!Favorites(jids \ {j}))
    BY <1>2, <1>6
<1>7. CASE \E i \in Flags!ListsOf(Len(log)) : Flags!MakeElsewhere(Flags!List(i, TRUE))
    BY <1>3, <1>4, <1>7
<1>8. CASE \E i \in {1 + Flags!Cardinality(Flags!ListsOf(Len(log)))} \cap Flags!ListIds :
               Flags!MakeElsewhere(Flags!List(i, FALSE))
    BY <1>3, <1>8
<1> QED BY <1>5, <1>6, <1>7, <1>8

(* A change is accepted, of another device or of a call: it is newer than   *)
(* all rows, and none of them is about it yet.                              *)
LEMMA AcceptKeepsFlags ==
    ASSUME FlagsInv, NEW ch \in Change(subject), Flags!Accept(ch),
           UNCHANGED <<handled, rows, linked, hint, favorites, labels, outdone>>,
           calls' \in [Callers -> Call \cup {None}], PlaceInv',
           \A c \in Callers : calls'[c] # None =>
               /\ calls[c] # None /\ calls'[c].change = calls[c].change
               /\ calls'[c].known = calls[c].known /\ calls'[c].upTo = calls[c].upTo
               /\ calls'[c].step = "send" => calls[c].step = "send"
    PROVE  FlagsInv'
<1> USE DEF FlagsInv
<1>1. /\ subject' = subject /\ now' = now + 1
      /\ Len(log') = Len(log) + 1 /\ Len(log') <= MaxChanges
      /\ \A i \in 1 .. Len(log) : log'[i] = log[i]
      /\ log'[Len(log')].change = ch /\ log'[Len(log')].time = now
      /\ log' \in Seq(Accepted)
      /\ \A i \in 1 .. Len(log') : log'[i].time \in 1 .. (now' - 1)
      /\ \A i, j \in 1 .. Len(log') : i < j => log'[i].time < log'[j].time
    BY AcceptIs
<1>2. /\ Len(log) \in Nat /\ handled \in 0 .. Len(log) /\ now \in Nat \ {0}
      /\ handled' = handled /\ handled' \in 0 .. Len(log') /\ handled' < Len(log')
      /\ 1 .. handled \subseteq 1 .. Len(log) /\ 1 .. Len(log) \subseteq 1 .. Len(log')
    BY <1>1, ChangesTyped DEF FlagsTypes
<1>3. \A i \in 1 .. Len(log') : i \in 1 .. Len(log) \/ i = Len(log')
    BY <1>1, <1>2
<1>4. FlagsTypes'
    <2>1. \A s : Change(s)' = Change(s)
        BY DEF Change
    <2>2. Accepted' = Accepted /\ Call' = Call
        BY <1>1, <2>1 DEF Accepted, Call
    <2>3. \A a \in Flags!Addresses : rows'[a] # None => rows'[a].action < now'
        <3>1. \A a \in Flags!Addresses : rows[a] # None => rows[a].action \in Nat
            BY DEF FlagsTypes, PinRow
        <3> QED BY <1>1, <1>2, <3>1 DEF FlagsTypes
    <2>4. calls' \in [Callers -> Call' \cup {None}]
        BY <2>2
    <2>5. outdone' \subseteq 1 .. Len(log')
        BY <1>2 DEF FlagsTypes
    <2> HIDE DEF Accepted, Call
    <2> QED BY <1>1, <1>2, <2>2, <2>3, <2>4, <2>5 DEF FlagsTypes
<1>5. PinInv'
    <2> SUFFICES ASSUME subject = "pin"
                 PROVE  /\ \A a \in Flags!Addresses :
                               Newest(a) => \E i \in 1 .. Len(log') : PinOf(rows[a], i)'
                        /\ handled > 0 =>
                               \E a \in Flags!Addresses :
                                   rows[a] # None /\ rows[a].action >= log'[handled].time
        BY <1>1, <1>2 DEF PinInv, Newest
    <2>1. ASSUME NEW a \in Flags!Addresses, Newest(a)
          PROVE  \E i \in 1 .. Len(log') : PinOf(rows[a], i)'
        <3>1. PICK i \in 1 .. Len(log) : PinOf(rows[a], i)
            BY <2>1 DEF PinInv
        <3>2. rows[a].action < now /\ rows[a].action \in Nat
            BY <2>1 DEF FlagsTypes, Newest, PinRow
        <3>3. \A j \in 1 .. Len(log') : j > i => log'[j].time > rows[a].action \/ j \in outdone
            BY <1>1, <1>2, <1>3, <3>1, <3>2 DEF PinOf
        <3>4. i \in 1 .. Len(log') /\ log'[i] = log[i]
            BY <1>1, <1>2
        <3>5. rows' = rows /\ outdone' = outdone
            OBVIOUS
        <3> QED BY <3>1, <3>3, <3>4, <3>5 DEF PinOf
    <2>2. handled > 0 => log'[handled] = log[handled]
        BY <1>1, <1>2
    <2> QED BY <2>1, <2>2 DEF PinInv
<1>6. FavoritesInv'
    <2> SUFFICES ASSUME subject = "favorites"
                 PROVE  FavoritesInv'
        BY <1>1 DEF FavoritesInv
    <2>1. ASSUME NEW i \in 0 .. Len(log)
          PROVE  Flags!FavoritesOf(i)' = Flags!FavoritesOf(i) /\ i \in 0 .. Len(log')
        <3>1. i # 0 => log'[i] = log[i]
            BY <1>1, <1>2
        <3> QED BY <1>1, <1>2, <3>1 DEF Flags!FavoritesOf
    <2>2. ASSUME NEW h \in 0 .. handled, h \notin outdone
          PROVE  \E i \in h .. Len(log') : favorites = Flags!FavoritesOf(i)'
        <3>1. PICK i \in h .. Len(log) : favorites = Flags!FavoritesOf(i)
            BY <2>2 DEF FavoritesInv
        <3>2. i \in 0 .. Len(log) /\ i \in h .. Len(log')
            BY <1>1, <1>2
        <3> QED BY <2>1, <3>1, <3>2
    <2>3. ASSUME NEW c \in Callers, Waiting(c, "send")'
          PROVE  \E i \in calls'[c].upTo .. Len(log') :
                     OneApart(Flags!FavoritesOf(i)', calls'[c].change.value)
        <3>1. /\ Waiting(c, "send") /\ calls[c] \in Call
              /\ calls'[c].upTo = calls[c].upTo /\ calls'[c].change = calls[c].change
            BY <2>3 DEF Waiting, FlagsTypes
        <3>2. PICK i \in calls[c].upTo .. Len(log) :
                  OneApart(Flags!FavoritesOf(i), calls[c].change.value)
            BY <3>1 DEF FavoritesInv
        <3>3. calls[c].upTo \in Nat
            BY <3>1 DEF Call
        <3>4. i \in 0 .. Len(log) /\ i \in calls[c].upTo .. Len(log')
            BY <1>1, <1>2, <3>3
        <3> QED BY <2>1, <3>1, <3>2, <3>4
    <2>4. \A m, n : OneApart(m, n)' = OneApart(m, n)
        BY DEF OneApart
    <2> HIDE DEF FlagsInv
    <2> QED BY <1>2, <2>2, <2>3, <2>4 DEF FavoritesInv
<1>7. ListsInv'
    <2> SUFFICES ASSUME subject = "list", ListsInv PROVE ListsInv'
        BY <1>1 DEF ListsInv
    <2>1. \A id : OfList(id) \subseteq OfList(id)'
        BY <1>1, <1>2 DEF OfList
    <2>2. \A id, i : LastHandled(id, i)' => LastHandled(id, i) /\ Deleted(i)' = Deleted(i)
        <3> SUFFICES ASSUME NEW id, NEW i, LastHandled(id, i)'
                     PROVE  LastHandled(id, i) /\ Deleted(i)' = Deleted(i)
            OBVIOUS
        <3>1. i \in 1 .. Len(log') /\ i <= handled /\ log'[i].change.id = id
            BY <1>2 DEF LastHandled, OfList
        <3>2. i \in 1 .. Len(log) /\ log'[i] = log[i]
            BY <1>1, <1>2, <3>1
        <3>3. i \in OfList(id)
            BY <3>1, <3>2 DEF LastHandled, OfList
        <3>4. LastHandled(id, i)
            BY <1>2, <2>1, <3>1, <3>3 DEF LastHandled
        <3> QED BY <3>2, <3>4 DEF Deleted
    <2>3. Flags!ListsOf(handled)' = Flags!ListsOf(handled)
        <3>1. Flags!ListsOf(handled) = {log[i].change.id : i \in 1 .. handled}
            BY <1>2, AboutIs
        <3>2. Flags!ListsOf(handled)' = {log'[i].change.id : i \in 1 .. handled}
            <4>1. Flags!About("list", handled)' = 1 .. handled
                <5>1. \A i \in 1 .. handled : log'[i].change.setting = "list"
                    BY <1>1, <1>2, ChangesTyped
                <5> QED BY <1>2, <5>1 DEF Flags!About
            <4> QED BY <1>2, <4>1 DEF Flags!ListsOf
        <3>3. \A i \in 1 .. handled : log'[i] = log[i]
            BY <1>1, <1>2
        <3>4. {log'[i].change.id : i \in 1 .. handled} = {log[i].change.id : i \in 1 .. handled}
            BY <3>3
        <3> QED BY <3>1, <3>2, <3>4
    <2>4. ASSUME NEW id \in Flags!ListIds
          PROVE  \/ \E i \in OfList(id)' : i > handled'
                 \/ \A i \in OfList(id)' :
                        LastHandled(id, i)' => labels'[id] = Deleted(i)' \/ i \in outdone'
        <3>1. CASE \E i \in OfList(id) : i > handled
            BY <1>2, <2>1, <3>1
        <3>2. CASE \A i \in OfList(id) :
                       LastHandled(id, i) => labels[id] = Deleted(i) \/ i \in outdone
            BY <2>2, <3>2 DEF LastHandled
        <3> QED BY <3>1, <3>2 DEF ListsInv
    <2>5. \A id \in Flags!ListsOf(handled)' : labels'[id] # "absent"
        BY <2>3 DEF ListsInv
    <2>6. \A c \in Callers : calls'[c] # None => calls'[c].change.id \notin calls'[c].known
        BY DEF ListsInv
    <2> HIDE DEF FlagsInv
    <2> QED BY ONLY <1>1, <2>4, <2>5, <2>6, subject = "list" DEF ListsInv
<1> QED BY <1>4, <1>5, <1>6, <1>7

(* What the calls are to store stands where it was.                         *)
LEMMA PlacesStay ==
    ASSUME FlagsInv, NEW ch \in Change(subject), Flags!Accept(ch),
           \A c \in Callers : Waiting(c, "store")' => Waiting(c, "store") /\ calls'[c] = calls[c]
    PROVE  PlaceInv'
<1>1. /\ Len(log') = Len(log) + 1 /\ Len(log) \in Nat
      /\ \A i \in 1 .. Len(log) : log'[i] = log[i]
    BY AcceptIs, ChangesTyped DEF FlagsInv
<1>2. 1 .. Len(log) \subseteq 1 .. Len(log')
    BY <1>1
<1> QED BY <1>1, <1>2 DEF FlagsInv, PlaceInv

LEMMA ElsewhereKeepsFlags ==
    ASSUME FlagsInv, Flags!ChangeElsewhere
    PROVE  FlagsInv'
<1>1. PICK ch \in Change(subject) : Flags!MakeElsewhere(ch)
    BY ElsewhereIs DEF FlagsInv
<1>2. /\ Flags!Accept(ch)
      /\ UNCHANGED <<handled, rows, linked, hint, favorites, labels, calls, outdone>>
    BY <1>1 DEF Flags!MakeElsewhere, Flags!copy
<1>3. PlaceInv'
    BY <1>2, PlacesStay DEF Waiting
<1>4. calls' \in [Callers -> Call \cup {None}]
    BY <1>2 DEF FlagsInv, FlagsTypes
<1> QED BY <1>2, <1>3, <1>4, AcceptKeepsFlags

LEMMA SendKeepsFlags ==
    ASSUME FlagsInv, NEW c \in Callers, Flags!Send(c)
    PROVE  FlagsInv'
<1>1. /\ calls[c] # None /\ calls[c].step = "send" /\ Flags!Accept(calls[c].change)
      /\ calls' = [calls EXCEPT ![c].step = "store", ![c].place = Len(log')]
      /\ UNCHANGED <<handled, rows, linked, hint, favorites, labels, outdone>>
    BY DEF Flags!Send, Flags!Waits, Flags!copy
<1>2. calls \in [Callers -> Call \cup {None}] /\ calls[c] \in Call
    BY <1>1 DEF FlagsInv, FlagsTypes
<1> DEFINE ch == calls[c].change
<1>3. ch \in Change(subject)
    BY <1>2 DEF Call
<1>4. /\ Len(log') = Len(log) + 1 /\ log'[Len(log')].change = ch /\ Len(log) \in Nat
      /\ \A i \in 1 .. Len(log) : log'[i] = log[i]
    BY <1>1, <1>3, AcceptIs, ChangesTyped DEF FlagsInv
<1>5. Len(log') \in 1 .. Len(log') /\ Len(log') \in Nat /\ 1 .. Len(log) \subseteq 1 .. Len(log')
    BY <1>4
<1>6. /\ calls' \in [Callers -> Call \cup {None}]
      /\ \A d \in Callers : d # c => calls'[d] = calls[d]
      /\ calls'[c].step = "store" /\ calls'[c].change = ch /\ calls'[c].known = calls[c].known
      /\ calls'[c].upTo = calls[c].upTo /\ calls'[c].place = Len(log')
    BY <1>1, <1>2, <1>5 DEF Call
<1>7. PlaceInv'
    BY <1>4, <1>5, <1>6 DEF FlagsInv, PlaceInv, Waiting
<1>8. \A d \in Callers : calls'[d] # None =>
          /\ calls[d] # None /\ calls'[d].change = calls[d].change
          /\ calls'[d].known = calls[d].known /\ calls'[d].upTo = calls[d].upTo
          /\ calls'[d].step = "send" => calls[d].step = "send"
    BY <1>1, <1>6
<1> QED BY <1>1, <1>3, <1>6, <1>7, <1>8, AcceptKeepsFlags

(* This device handles the next change.                                     *)
LEMMA HandleKeepsFlags ==
    ASSUME FlagsInv, Flags!HandleChange
    PROVE  FlagsInv'
<1> USE DEF FlagsInv
<1> DEFINE k == handled + 1
           ch == log[k].change
           t == log[k].time
<1>1. /\ handled < Len(log) /\ handled' = k /\ k \in 1 .. Len(log) /\ Len(log) \in Nat
      /\ handled \in 0 .. Len(log) /\ UNCHANGED <<subject, log, now, linked, hint, calls, outdone>>
    BY ChangesTyped DEF Flags!HandleChange, FlagsTypes
<1>2. PICK address \in Flags!Addresses : Flags!Store(ch, address, t)
    BY <1>1 DEF Flags!HandleChange
<1>3. ch \in Change(subject) /\ t \in Nat /\ t > 0 /\ t < now /\ now \in Nat
    BY <1>1, ChangesTyped DEF FlagsTypes
<1>4. /\ rows' \in [Flags!Addresses -> PinRow \cup {None}]
      /\ \A a \in Flags!Addresses :
            \/ rows'[a] = rows[a]
            \/ subject = "pin" /\ rows'[a] = Flags!Row(ch.value, t)
      /\ linked => rows'["alias"] = None
      /\ favorites' \subseteq Chats
      /\ labels' \in [Flags!ListIds -> {"absent", "live", "deleted"}]
    <2> HIDE DEF ch, t
    <2> QED BY <1>2, <1>3, StoreKeepsTypes
<1>5. FlagsTypes'
    <2>1. \A s : Change(s)' = Change(s)
        BY DEF Change
    <2>2. \A a \in Flags!Addresses : rows'[a] # None => rows'[a].action < now
        BY <1>3, <1>4 DEF FlagsTypes, Flags!Row
    <2>3. Accepted' = Accepted /\ Call' = Call
        BY <1>1, <2>1 DEF Accepted, Call
    <2> HIDE DEF ch, t, Accepted, Call
    <2> QED BY <1>1, <1>3, <1>4, <2>2, <2>3 DEF FlagsTypes
<1>6. PlaceInv'
    BY <1>1 DEF PlaceInv, Waiting
<1>7. PinInv'
    <2> SUFFICES ASSUME subject = "pin" PROVE PinInv'
        BY <1>1 DEF PinInv
    <2>1. PICK a \in Flags!Addresses :
              rows' = [rows EXCEPT ![a] = IF rows[a] = None \/ t >= rows[a].action
                                          THEN Flags!Row(ch.value, t) ELSE rows[a]]
        <3> HIDE DEF ch, t
        <3> QED BY <1>2, <1>3, StoreIs
    <2> DEFINE new == Flags!Row(ch.value, t)
    <2>2. PinOf(new, k) /\ new # None /\ new.action = t
        <3>1. new.pinned = ch.value /\ new.action = t
            BY DEF Flags!Row
        <3>2. PinOf(new, k)
            BY <1>1, <1>3, <3>1 DEF PinOf, FlagsTypes
        <3>3. new \in PinRow
            <4>1. ch.value \in BOOLEAN
                BY <1>3, ChangeIs DEF FlagsTypes
            <4> HIDE DEF ch, t
            <4> QED BY <1>3, <4>1 DEF Flags!Row, PinRow
        <3>4. new # None
            BY <3>3, ConstantsAssumption DEF Flags!SettingsAssumption, PinRow
        <3> QED BY <3>1, <3>2, <3>4
    <2> HIDE DEF new, ch, t
    <2>3. \/ rows'[a] = new /\ (rows[a] # None => rows[a].action <= t)
          \/ rows'[a] = rows[a] /\ rows[a] # None /\ ~(t >= rows[a].action)
        <3>1. rows[a] # None => rows[a].action \in Nat
            BY DEF FlagsTypes, PinRow
        <3> QED BY <1>3, <2>1, <3>1 DEF FlagsTypes, new
    <2>4. \A d \in Flags!Addresses : d # a => rows'[d] = rows[d]
        BY <2>1 DEF FlagsTypes
    <2>5. \A z, i : PinOf(z, i)' = PinOf(z, i)
        BY <1>1 DEF PinOf
    <2>6. ASSUME NEW d \in Flags!Addresses, Newest(d)'
          PROVE  \E i \in 1 .. Len(log) : PinOf(rows'[d], i)
        <3>1. CASE rows'[d] = new
            BY <1>1, <2>2, <3>1
        <3>2. CASE rows'[d] # new
            <4>1. rows'[d] = rows[d]
                BY <2>3, <2>4, <3>2
            <4>2. Newest(d)
                <5>1. \A x \in Flags!Addresses : rows[x] # None =>
                          rows'[x] # None /\ (rows[x].action <= rows'[x].action)
                    <6>1. \A x \in Flags!Addresses : rows[x] # None => rows[x].action \in Nat
                        BY DEF FlagsTypes, PinRow
                    <6> QED BY <1>3, <2>2, <2>3, <2>4, <6>1
                <5>2. \A x \in Flags!Addresses :
                          /\ rows[x] # None => rows[x].action \in Nat
                          /\ rows'[x] # None => rows'[x].action \in Nat
                    BY <1>4 DEF FlagsTypes, PinRow
                <5> QED BY <2>6, <4>1, <5>1, <5>2 DEF Newest
            <4> QED BY <4>1, <4>2 DEF PinInv
        <3> QED BY <3>1, <3>2
    <2>7. rows'[a] # None /\ rows'[a].action >= t
        <3>1. rows[a] # None => rows[a].action \in Nat
            BY DEF FlagsTypes, PinRow
        <3> QED BY <1>3, <2>2, <2>3, <3>1
    <2> QED BY <1>1, <2>5, <2>6, <2>7 DEF PinInv, t
<1>8. FavoritesInv'
    <2> SUFFICES ASSUME subject = "favorites" PROVE FavoritesInv'
        BY <1>1 DEF FavoritesInv
    <2>1. favorites' = ch.value
        <3> HIDE DEF ch, t
        <3> QED BY <1>2, <1>3, StoreIs
    <2>2. \A i : Flags!FavoritesOf(i)' = Flags!FavoritesOf(i)
        BY <1>1 DEF Flags!FavoritesOf
    <2>3. favorites' = Flags!FavoritesOf(k)
        BY <1>1, <2>1 DEF Flags!FavoritesOf
    <2> HIDE DEF ch, t
    <2>4. \A h \in 0 .. k : k \in h .. Len(log)
        BY <1>1
    <2>5. \A m, n : OneApart(m, n)' = OneApart(m, n)
        BY DEF OneApart
    <2> QED BY <1>1, <2>2, <2>3, <2>4, <2>5 DEF FavoritesInv, Waiting
<1>9. ListsInv'
    <2> SUFFICES ASSUME subject = "list" PROVE ListsInv'
        BY <1>1 DEF ListsInv
    <2>1. labels' = [labels EXCEPT ![ch.id] = IF ch.deleted THEN "deleted" ELSE "live"]
        <3> HIDE DEF ch, t
        <3> QED BY <1>2, <1>3, StoreIs
    <2>2. ch.id \in Flags!ListIds
        BY <1>3, ChangeIs DEF FlagsTypes
    <2>3. \A id : OfList(id)' = OfList(id)
        BY <1>1 DEF OfList
    <2>4. /\ labels'[ch.id] = Deleted(k) /\ k \in OfList(ch.id)
          /\ \A id \in Flags!ListIds : id # ch.id => labels'[id] = labels[id] /\ k \notin OfList(id)
        BY <1>1, <2>1, <2>2 DEF Deleted, OfList, FlagsTypes
    <2>5. ASSUME NEW id \in Flags!ListIds
          PROVE  \/ \E i \in OfList(id)' : i > handled'
                 \/ \A i \in OfList(id)' :
                        LastHandled(id, i)' => labels'[id] = Deleted(i)' \/ i \in outdone'
        <3>1. CASE id = ch.id
            <4>1. \A i \in OfList(id) : LastHandled(id, i)' => i = k
                BY <1>1, <2>3, <2>4, <3>1 DEF LastHandled, OfList
            <4> QED BY <1>1, <2>3, <2>4, <3>1, <4>1 DEF Deleted
        <3>2. CASE id # ch.id /\ \E i \in OfList(id) : i > handled
            <4>1. PICK i \in OfList(id) : i > handled
                BY <3>2
            <4>2. i # k /\ i \in Nat
                BY <2>4, <3>2 DEF OfList
            <4> QED BY <1>1, <2>3, <4>1, <4>2
        <3>3. CASE id # ch.id /\ \A i \in OfList(id) :
                       LastHandled(id, i) => labels[id] = Deleted(i) \/ i \in outdone
            <4>1. \A i \in OfList(id) : i <= k => i <= handled
                BY <1>1, <2>4, <3>3 DEF OfList
            <4>2. \A i \in OfList(id) : LastHandled(id, i)' => LastHandled(id, i)
                BY <1>1, <2>3, <4>1 DEF LastHandled, OfList
            <4> QED BY <1>1, <2>3, <2>4, <3>3, <4>2 DEF Deleted
        <3> QED BY <3>1, <3>2, <3>3 DEF ListsInv
    <2>6. \A id \in Flags!ListsOf(handled)' : labels'[id] # "absent"
        <3>1. Flags!ListsOf(handled) = {log[i].change.id : i \in 1 .. handled}
            BY <1>1, AboutIs
        <3>2. Flags!ListsOf(k) = {log[i].change.id : i \in 1 .. k}
            BY <1>1, AboutIs
        <3>3. Flags!ListsOf(handled)' = Flags!ListsOf(k)
            BY <1>1 DEF Flags!ListsOf, Flags!About
        <3>4. Flags!ListsOf(k) \subseteq Flags!ListsOf(handled) \cup {ch.id}
            BY <1>1, <3>1, <3>2
        <3>5. Deleted(k) # "absent"
            BY DEF Deleted
        <3>6. Flags!ListsOf(k) \subseteq Flags!ListIds
            BY <1>1, AboutIs
        <3> QED BY <2>4, <3>3, <3>4, <3>5, <3>6 DEF ListsInv
    <2> QED BY <1>1, <2>5, <2>6 DEF ListsInv
<1> QED BY <1>5, <1>6, <1>7, <1>8, <1>9

(* A call begins.                                                           *)
LEMMA BeginKeepsFlags ==
    ASSUME FlagsInv, NEW c \in Callers, NEW ch \in Change(subject), Flags!Begin(c, ch),
           subject = "favorites"
               => \E j \in Chats : ch.value \in {favorites \cup {j}, favorites \ {j}},
           subject = "list" => ch.id \notin Flags!ListsOf(handled)
    PROVE  FlagsInv'
<1> USE DEF FlagsInv
<1> DEFINE call == [change |-> ch, step |-> "send", place |-> 0, upTo |-> Flags!UpTo,
                    known |-> Flags!ListsOf(handled)]
<1>1. /\ calls[c] = None /\ calls' = [calls EXCEPT ![c] = call]
      /\ UNCHANGED <<subject, log, handled, now, rows, linked, hint, favorites, labels, outdone>>
    BY DEF Flags!Begin, Flags!copy
<1>0. Flags!UpTo \in Nat /\ (subject = "favorites" => Flags!UpTo \in (0 .. handled) \ outdone)
    <2> DEFINE T == (0 .. handled) \ outdone
    <2>1. handled \in Nat /\ T \in SUBSET (0 .. handled) /\ 0 \in T
        BY ChangesTyped DEF FlagsTypes
    <2>2. Flags!UpTo = IF subject = "favorites" THEN Max(T) ELSE 0
        BY DEF Flags!UpTo, Flags!Max, Max
    <2> HIDE DEF T
    <2>3. Max(T) \in T
        BY <2>1, MaxOfBounded
    <2> QED BY <2>1, <2>2, <2>3 DEF T
<1>2. /\ call \in Call /\ call.change = ch /\ call.known = Flags!ListsOf(handled)
      /\ call.step = "send" /\ call.upTo = Flags!UpTo
    <2>1. Flags!ListsOf(handled) \subseteq Flags!ListIds
        BY AboutIs DEF FlagsTypes
    <2> QED BY <1>0, <2>1 DEF Call
<1> HIDE DEF call
<1>3. /\ calls' \in [Callers -> Call \cup {None}] /\ calls'[c] = call
      /\ \A d \in Callers : d # c => calls'[d] = calls[d]
    BY <1>1, <1>2 DEF FlagsTypes
<1>5. FlagsTypes'
    <2>1. \A s : Change(s)' = Change(s)
        BY DEF Change
    <2>2. Accepted' = Accepted /\ Call' = Call
        BY <1>1, <2>1 DEF Accepted, Call
    <2>3. calls' \in [Callers -> Call' \cup {None}]
        BY <1>3, <2>2
    <2> HIDE DEF Accepted, Call
    <2> QED BY <1>1, <2>2, <2>3 DEF FlagsTypes
<1>6. PlaceInv'
    BY <1>1, <1>2, <1>3 DEF PlaceInv, Waiting
<1>7. PinInv'
    BY <1>1 DEF PinInv, Newest, PinOf
<1>8. FavoritesInv'
    <2> SUFFICES ASSUME subject = "favorites" PROVE FavoritesInv'
        BY <1>1 DEF FavoritesInv
    <2>1. PICK i \in Flags!UpTo .. Len(log) : favorites = Flags!FavoritesOf(i)
        BY <1>0 DEF FavoritesInv
    <2>2. PICK j \in Chats : ch.value \in {favorites \cup {j}, favorites \ {j}}
        OBVIOUS
    <2>3. OneApart(Flags!FavoritesOf(i), ch.value)
        <3>1. (favorites \ ch.value) \cup (ch.value \ favorites) \subseteq {j}
            BY <2>2
        <3> QED BY <2>1, <3>1 DEF OneApart
    <2>4. \A n : Flags!FavoritesOf(n)' = Flags!FavoritesOf(n)
        BY <1>1 DEF Flags!FavoritesOf
    <2>5. \A m, n : OneApart(m, n)' = OneApart(m, n)
        BY DEF OneApart
    <2>6. ASSUME NEW d \in Callers, Waiting(d, "send")'
          PROVE  \E n \in calls'[d].upTo .. Len(log) :
                     OneApart(Flags!FavoritesOf(n), calls'[d].change.value)
        <3>1. CASE d = c
            BY <1>2, <1>3, <2>3, <3>1
        <3>2. CASE d # c
            BY <1>3, <2>6, <3>2 DEF FavoritesInv, Waiting
        <3> QED BY <3>1, <3>2
    <2> QED BY <1>1, <2>4, <2>5, <2>6 DEF FavoritesInv
<1>9. ListsInv'
    <2>1. subject = "list" => \A d \in Callers : calls'[d] # None =>
                                  calls'[d].change.id \notin calls'[d].known
        BY <1>2, <1>3 DEF ListsInv
    <2>2. Flags!ListsOf(handled)' = Flags!ListsOf(handled)
        BY <1>1 DEF Flags!ListsOf, Flags!About
    <2> QED BY <1>1, <2>1, <2>2 DEF ListsInv, OfList, LastHandled, Deleted
<1> QED BY <1>5, <1>6, <1>7, <1>8, <1>9

LEMMA NextLabelIsNew ==
    ASSUME FlagsInv, subject = "list"
    PROVE  Flags!NextLabelID \notin Flags!ListsOf(handled)
<1> USE DEF FlagsInv
<1> DEFINE used == {i \in Flags!ListIds : labels[i] # "absent"}
           S == {0} \cup used
<1>1. MaxLists \in Nat /\ S \in SUBSET (0 .. MaxLists) /\ S # {}
    BY ConstantsAssumption DEF Flags!SettingsAssumption, Flags!ListIds
<1>2. Flags!NextLabelID = 1 + Max(S)
    BY DEF Flags!NextLabelID, Flags!Max, Max
<1>3. Flags!ListsOf(handled) \subseteq used
    <2>1. Flags!ListsOf(handled) \subseteq Flags!ListIds
        BY AboutIs DEF FlagsTypes
    <2> QED BY <2>1 DEF ListsInv
<1> HIDE DEF used
<1>4. \A i \in used : i \in Nat /\ i <= Max(S) /\ Max(S) \in Nat
    <2> HIDE DEF S
    <2>1. Max(S) \in S /\ \A z \in S : z <= Max(S)
        BY <1>1, MaxOfBounded
    <2> QED BY <1>1, <2>1 DEF S
<1> HIDE DEF S
<1> QED BY <1>2, <1>3, <1>4

LEMMA BeginningKeepsFlags ==
    ASSUME FlagsInv, NEW c \in Callers,
           Flags!SetChatPinned(c) \/ Flags!SetChatFavorite(c) \/ Flags!CreateLabel(c)
    PROVE  FlagsInv'
<1>0. favorites \subseteq Chats
    BY DEF FlagsInv, FlagsTypes
<1>1. CASE Flags!SetChatPinned(c)
    <2>1. PICK pinned \in BOOLEAN : Flags!Begin(c, Flags!Pin(pinned))
        BY <1>1 DEF Flags!SetChatPinned
    <2>2. subject = "pin" /\ Flags!Pin(pinned) \in Change(subject)
        BY <2>1 DEF Flags!Begin, Flags!Pin, Change
    <2> QED BY <2>1, <2>2, BeginKeepsFlags
<1>2. CASE Flags!SetChatFavorite(c)
    <2>1. PICK j \in Chats, favorite \in BOOLEAN :
              Flags!Begin(c, Flags!Favorites(IF favorite THEN favorites \cup {j}
                                             ELSE favorites \ {j}))
        BY <1>2 DEF Flags!SetChatFavorite
    <2> DEFINE new == IF favorite THEN favorites \cup {j} ELSE favorites \ {j}
               ch  == Flags!Favorites(new)
    <2>2. new \in SUBSET Chats /\ new \in {favorites \cup {j}, favorites \ {j}}
        BY <1>0
    <2>3. Flags!Begin(c, ch)
        BY <2>1
    <2> HIDE DEF new
    <2>4. subject = "favorites" /\ ch \in Change(subject) /\ ch.value = new
        BY <2>2, <2>3 DEF Flags!Begin, Flags!Favorites, Change
    <2> HIDE DEF ch
    <2> QED BY <2>2, <2>3, <2>4, BeginKeepsFlags
<1>3. CASE Flags!CreateLabel(c)
    <2> DEFINE ch == Flags!List(Flags!NextLabelID, FALSE)
    <2>1. Flags!NextLabelID \in Flags!ListIds /\ Flags!Begin(c, ch)
        BY <1>3 DEF Flags!CreateLabel
    <2>2. subject = "list" /\ ch \in Change(subject) /\ ch.id = Flags!NextLabelID
        BY <2>1 DEF Flags!Begin, Flags!List, Change
    <2> HIDE DEF ch
    <2> QED BY <2>1, <2>2, NextLabelIsNew, BeginKeepsFlags
<1> QED BY <1>1, <1>2, <1>3

(* A call ends: the account or the database failed, ...                     *)
LEMMA EndKeepsCalls ==
    ASSUME FlagsInv, NEW c \in Callers, calls' = [calls EXCEPT ![c] = None]
    PROVE  /\ calls' \in [Callers -> Call \cup {None}]
           /\ \A d \in Callers : calls'[d] # None => calls'[d] = calls[d]
<1> QED BY DEF FlagsInv, FlagsTypes

LEMMA EndedKeepsFlags ==
    ASSUME FlagsInv, NEW c \in Callers, calls' = [calls EXCEPT ![c] = None],
           UNCHANGED <<subject, log, handled, now, rows, linked, hint, favorites, labels, outdone>>
    PROVE  FlagsInv'
<1> USE DEF FlagsInv
<1>2. /\ calls' \in [Callers -> Call \cup {None}]
      /\ \A d \in Callers : calls'[d] # None => calls'[d] = calls[d]
    BY EndKeepsCalls
<1>3. FlagsTypes'
    <2>1. \A s : Change(s)' = Change(s)
        BY DEF Change
    <2>2. Accepted' = Accepted /\ Call' = Call
        BY <2>1 DEF Accepted, Call
    <2>3. calls' \in [Callers -> Call' \cup {None}]
        BY <1>2, <2>2
    <2> HIDE DEF Accepted, Call
    <2> QED BY <2>2, <2>3 DEF FlagsTypes
<1>4. PinInv' /\ PlaceInv'
    BY <1>2 DEF PinInv, Newest, PinOf, PlaceInv, Waiting
<1>5. FavoritesInv'
    BY <1>2 DEF FavoritesInv, Flags!FavoritesOf, Waiting, OneApart
<1>6. ListsInv'
    <2>1. Flags!ListsOf(handled)' = Flags!ListsOf(handled)
        BY DEF Flags!ListsOf, Flags!About
    <2> QED BY <1>2, <2>1 DEF ListsInv, OfList, LastHandled, Deleted
<1> QED BY <1>3, <1>4, <1>5, <1>6

LEMMA SendFailsKeepsFlags ==
    ASSUME FlagsInv, NEW c \in Callers, Flags!SendFails(c)
    PROVE  FlagsInv'
<1>1. /\ calls[c] # None /\ calls' = [calls EXCEPT ![c] = None]
      /\ UNCHANGED <<handled, rows, linked, hint, favorites, labels, outdone>>
    BY DEF Flags!SendFails, Flags!Waits, Flags!End, Flags!copy
<1>2. CASE Flags!Accept(calls[c].change)
    <2>1. calls[c].change \in Change(subject)
        <3>1. calls[c] \in Call
            BY <1>1 DEF FlagsInv, FlagsTypes
        <3> QED BY <3>1 DEF Call
    <2>2. /\ calls' \in [Callers -> Call \cup {None}]
          /\ \A d \in Callers : calls'[d] # None => calls'[d] = calls[d]
        BY <1>1, EndKeepsCalls
    <2>3. PlaceInv'
        BY <1>2, <2>1, <2>2, PlacesStay DEF Waiting
    <2>4. \A d \in Callers : calls'[d] # None =>
              /\ calls[d] # None /\ calls'[d].change = calls[d].change
              /\ calls'[d].known = calls[d].known /\ calls'[d].upTo = calls[d].upTo
              /\ calls'[d].step = "send" => calls[d].step = "send"
        BY <2>2
    <2> QED BY <1>1, <1>2, <2>1, <2>2, <2>3, <2>4, AcceptKeepsFlags
<1>3. CASE UNCHANGED <<subject, log, now>>
    BY <1>1, <1>3, EndedKeepsFlags
<1> QED BY <1>2, <1>3 DEF Flags!SendFails

LEMMA StoreFailsKeepsFlags ==
    ASSUME FlagsInv, NEW c \in Callers, Flags!StoreFails(c)
    PROVE  FlagsInv'
<1>1. /\ calls' = [calls EXCEPT ![c] = None]
      /\ UNCHANGED <<subject, log, handled, now, rows, linked, hint, favorites, labels, outdone>>
    BY DEF Flags!StoreFails, Flags!Waits, Flags!End, Flags!copy
<1> QED BY <1>1, EndedKeepsFlags

(* ... or its change is stored here, under a time of its own: over those    *)
(* the account accepted since, which are outdone.                           *)
LEMMA StoreSentKeepsFlags ==
    ASSUME FlagsInv, NEW c \in Callers, Flags!StoreSent(c)
    PROVE  FlagsInv'
<1> USE DEF FlagsInv
<1> DEFINE ch == calls[c].change
           place == calls[c].place
           last == Len(log)
<1>1. /\ calls[c] # None /\ calls[c].step = "store" /\ now' = now + 1
      /\ calls' = [calls EXCEPT ![c] = None]
      /\ outdone' = {i \in outdone : ~Flags!SameThing(i, place)} \cup Flags!Outdoes(place)
      /\ UNCHANGED <<subject, log, handled, linked, hint>>
    BY DEF Flags!StoreSent, Flags!Waits, Flags!End
<1>2. PICK address \in Flags!Addresses : Flags!Store(ch, address, now)
    BY DEF Flags!StoreSent
<1>3. ch \in Change(subject) /\ now \in Nat /\ now > 0
    <2>1. calls[c] \in Call
        BY <1>1 DEF FlagsTypes
    <2> QED BY <2>1 DEF Call, FlagsTypes
<1>4. /\ calls' \in [Callers -> Call \cup {None}]
      /\ \A d \in Callers : calls'[d] # None => calls'[d] = calls[d]
    BY <1>1, EndKeepsCalls
<1>5. /\ last \in Nat /\ place \in 1 .. last /\ log[place].change = ch
      /\ handled \in 0 .. last
    BY <1>1, ChangesTyped DEF PlaceInv, Waiting, FlagsTypes
<1>6. \A i \in 1 .. last : log[i].time < now
    BY <1>3 DEF FlagsTypes
<1> HIDE DEF ch, place
<1>7. /\ rows' \in [Flags!Addresses -> PinRow \cup {None}]
      /\ \A a \in Flags!Addresses :
            \/ rows'[a] = rows[a]
            \/ subject = "pin" /\ rows'[a] = Flags!Row(ch.value, now)
      /\ linked => rows'["alias"] = None
      /\ favorites' \subseteq Chats
      /\ labels' \in [Flags!ListIds -> {"absent", "live", "deleted"}]
    BY <1>2, <1>3, StoreKeepsTypes
<1>8. FlagsTypes'
    <2>1. \A s : Change(s)' = Change(s)
        BY DEF Change
    <2>2. Accepted' = Accepted /\ Call' = Call
        BY <1>1, <2>1 DEF Accepted, Call
    <2>3. calls' \in [Callers -> Call' \cup {None}]
        BY <1>4, <2>2
    <2>4. \A a \in Flags!Addresses : rows'[a] # None => rows'[a].action < now'
        <3>1. \A a \in Flags!Addresses : rows[a] # None => rows[a].action \in Nat
            BY DEF FlagsTypes, PinRow
        <3> QED BY <1>1, <1>3, <1>7, <3>1 DEF FlagsTypes, Flags!Row
    <2>5. now' \in Nat \ {0} /\ \A i \in 1 .. Len(log') : log'[i].time \in 1 .. (now' - 1)
        BY <1>1, <1>3 DEF FlagsTypes
    <2>6. outdone' \subseteq 1 .. Len(log')
        <3>1. Flags!Outdoes(place) \subseteq 1 .. last
            BY <1>5 DEF Flags!Outdoes
        <3> QED BY <1>1, <3>1 DEF FlagsTypes
    <2> HIDE DEF Accepted, Call
    <2> QED BY <1>1, <1>7, <2>2, <2>3, <2>4, <2>5, <2>6 DEF FlagsTypes
<1>9. PinInv'
    <2> SUFFICES ASSUME subject = "pin" PROVE PinInv'
        BY <1>1 DEF PinInv
    <2>1. PICK a \in Flags!Addresses :
              rows' = [rows EXCEPT ![a] = IF rows[a] = None \/ now >= rows[a].action
                                          THEN Flags!Row(ch.value, now) ELSE rows[a]]
        BY <1>2, <1>3, StoreIs
    <2> DEFINE new == Flags!Row(ch.value, now)
    <2>2. new.pinned = ch.value /\ new.action = now
        BY DEF Flags!Row
    <2>3. new \in PinRow /\ new # None
        <3>1. ch.value \in BOOLEAN
            BY <1>3, ChangeIs DEF FlagsTypes
        <3>2. new \in PinRow
            BY <1>3, <3>1 DEF Flags!Row, PinRow
        <3> QED BY <3>2, ConstantsAssumption DEF Flags!SettingsAssumption, PinRow
    <2>4. /\ new.pinned = log[place].change.value /\ log[place].time <= new.action
          /\ \A j \in 1 .. last : j > place => j \in outdone'
        <3>1. log[place].time <= now
            <4>1. log[place].time \in Nat
                BY <1>5, ChangesTyped
            <4> QED BY <1>3, <1>5, <1>6, <4>1
        <3>2. \A j \in 1 .. last : j > place => j \in outdone'
            <4>1. Flags!Outdoes(place) = (place + 1) .. last
                BY DEF Flags!Outdoes, Flags!SameThing
            <4> QED BY <1>1, <1>5, <4>1
        <3> HIDE DEF new
        <3> QED BY <1>5, <2>2, <3>1, <3>2
    <2> HIDE DEF new
    <2>5. rows'[a] = new
        <3>1. rows[a] # None => now >= rows[a].action
            <4>1. rows[a] # None => rows[a].action \in Nat
                BY DEF FlagsTypes, PinRow
            <4> QED BY <1>3, <4>1 DEF FlagsTypes
        <3> QED BY <2>1, <3>1 DEF FlagsTypes, new
    <2>6. \A d \in Flags!Addresses : d # a => rows'[d] = rows[d]
        BY <2>1 DEF FlagsTypes
    <2>7. ASSUME NEW d \in Flags!Addresses, Newest(d)' PROVE d = a
        <3> SUFFICES ASSUME d # a PROVE FALSE
            OBVIOUS
        <3>1. rows'[d] = rows[d] /\ rows[d] # None /\ now <= rows[d].action
            BY <2>2, <2>3, <2>5, <2>6, <2>7 DEF Newest
        <3>2. rows[d].action \in Nat /\ rows[d].action < now
            BY <3>1 DEF FlagsTypes, PinRow
        <3> QED BY <1>3, <3>1, <3>2
    <2>9. handled > 0 => rows'[a] # None /\ rows'[a].action >= log[handled].time
        <3>1. handled > 0 => handled \in 1 .. last /\ log[handled].time \in Nat
            BY <1>5, ChangesTyped DEF FlagsTypes
        <3> QED BY <1>3, <1>6, <2>2, <2>3, <2>5, <3>1
    <2>10. ASSUME NEW d \in Flags!Addresses, Newest(d)'
           PROVE  \E i \in 1 .. Len(log') : PinOf(rows[d], i)'
        <3>1. d = a
            BY <2>7, <2>10
        <3>2. ASSUME NEW i, i = place PROVE PinOf(rows[d], i)'
            <4>1. /\ rows'[d].pinned = log'[i].change.value /\ log'[i].time <= rows'[d].action
                  /\ \A j \in 1 .. Len(log') : j > i => j \in outdone'
                BY <1>1, <2>4, <2>5, <3>1, <3>2
            <4> QED BY <4>1 DEF PinOf
        <3>3. place \in 1 .. Len(log')
            BY <1>1, <1>5
        <3> QED BY <3>2, <3>3
    <2> QED BY <1>1, <2>9, <2>10 DEF PinInv
<1>10. FavoritesInv'
    <2> SUFFICES ASSUME subject = "favorites" PROVE FavoritesInv'
        BY <1>1 DEF FavoritesInv
    <2>1. favorites' = ch.value
        BY <1>2, <1>3, StoreIs
    <2>2. \A n : Flags!FavoritesOf(n)' = Flags!FavoritesOf(n)
        BY <1>1 DEF Flags!FavoritesOf
    <2>3. favorites' = Flags!FavoritesOf(place)
        BY <1>5, <2>1 DEF Flags!FavoritesOf
    <2>4. ASSUME NEW h \in 0 .. handled, h \notin outdone' PROVE place \in h .. last
        <3>1. Flags!Outdoes(place) = (place + 1) .. handled
            BY DEF Flags!Outdoes, Flags!SameThing
        <3>2. h \notin (place + 1) .. handled
            BY <1>1, <2>4, <3>1
        <3> QED BY <1>5, <3>2
    <2>5. \A m, n : OneApart(m, n)' = OneApart(m, n)
        BY DEF OneApart
    <2> QED BY <1>1, <1>4, <2>2, <2>3, <2>4, <2>5 DEF FavoritesInv, Waiting
<1>11. ListsInv'
    <2> SUFFICES ASSUME subject = "list" PROVE ListsInv'
        BY <1>1 DEF ListsInv
    <2>1. labels' = [labels EXCEPT ![ch.id] = IF ch.deleted THEN "deleted" ELSE "live"]
        BY <1>2, <1>3, StoreIs
    <2>2. /\ ch.id \in Flags!ListIds /\ labels'[ch.id] = IF ch.deleted THEN "deleted" ELSE "live"
          /\ \A id \in Flags!ListIds : id # ch.id => labels'[id] = labels[id]
        BY <1>3, <2>1, ChangeIs DEF FlagsTypes
    <2>3. \A id : OfList(id)' = OfList(id)
        BY <1>1 DEF OfList
    <2>4. \A id, i : LastHandled(id, i)' = LastHandled(id, i) /\ Deleted(i)' = Deleted(i)
        BY <1>1, <2>3 DEF LastHandled, Deleted
    <2>5. ASSUME NEW id \in Flags!ListIds
          PROVE  \/ \E i \in OfList(id) : i > handled
                 \/ \A i \in OfList(id) :
                        LastHandled(id, i) => labels'[id] = Deleted(i) \/ i \in outdone'
        <3>1. CASE id = ch.id
            <4>1. place \in OfList(id) /\ labels'[id] = Deleted(place)
                BY <1>5, <2>2, <3>1 DEF OfList, Deleted
            <4>2. CASE handled < place
                BY <1>5, <4>1, <4>2
            <4>3. CASE ~(handled < place)
                <5>1. ASSUME NEW i \in OfList(id), LastHandled(id, i), i # place
                      PROVE  i \in Flags!Outdoes(place)
                    <6>1. i \in 1 .. last /\ i <= handled /\ place <= i /\ log[i].change.id = id
                        BY <1>5, <4>1, <4>3, <5>1 DEF LastHandled, OfList
                    <6>2. i \in (place + 1) .. handled
                        BY <1>5, <5>1, <6>1
                    <6>3. log[place].change.id = id
                        BY <1>5, <3>1
                    <6> QED BY <6>1, <6>2, <6>3 DEF Flags!Outdoes, Flags!SameThing
                <5> QED BY <1>1, <4>1, <5>1
            <4> QED BY <4>2, <4>3
        <3>2. CASE id # ch.id
            <4>1. \A i \in OfList(id) : i \in outdone => i \in outdone'
                BY <1>1, <1>5, <3>2 DEF OfList, Flags!SameThing
            <4> QED BY <2>2, <3>2, <4>1 DEF ListsInv
        <3> QED BY <3>1, <3>2
    <2>6. Flags!ListsOf(handled)' = Flags!ListsOf(handled)
        BY <1>1 DEF Flags!ListsOf, Flags!About
    <2>7. \A id \in Flags!ListsOf(handled) : labels'[id] # "absent"
        <3>1. Flags!ListsOf(handled) \subseteq Flags!ListIds
            BY AboutIs DEF FlagsTypes
        <3> QED BY <2>2, <3>1 DEF ListsInv
    <2>8. \A d \in Callers : calls'[d] # None => calls'[d].change.id \notin calls'[d].known
        BY <1>4 DEF ListsInv
    <2> QED BY <1>1, <2>3, <2>4, <2>5, <2>6, <2>7, <2>8 DEF ListsInv
<1>12. PlaceInv'
    BY <1>1, <1>4 DEF PlaceInv, Waiting
<1> QED BY <1>8, <1>9, <1>10, <1>11, <1>12

(* History brings the pin the account has, and seeds the rows that no       *)
(* action has reached.                                                      *)
LEMMA HistoryKeepsFlags ==
    ASSUME FlagsInv, Flags!HistoryArrives
    PROVE  FlagsInv'
<1> USE DEF FlagsInv
<1>1. /\ subject = "pin"
      /\ UNCHANGED <<subject, log, handled, now, rows, linked, favorites, labels, calls, outdone>>
    BY DEF Flags!HistoryArrives
<1>2. Flags!Latest("pin", FALSE) \in BOOLEAN
    <2>1. Flags!Latest("pin", FALSE) = IF Len(log) = 0 THEN FALSE ELSE log[Len(log)].change.value
        BY <1>1, LatestIs
    <2>2. Len(log) # 0 => Len(log) \in 1 .. Len(log) /\ log[Len(log)].change \in Change("pin")
        BY <1>1, ChangesTyped
    <2> QED BY <2>1, <2>2 DEF Change
<1>3. hint' \in [address : Flags!Addresses, pinned : BOOLEAN]
    <2> DEFINE v == Flags!Latest("pin", FALSE)
    <2>1. \E a \in Flags!Addresses : hint' = [address |-> a, pinned |-> v]
        BY DEF Flags!HistoryArrives, Flags!Addresses
    <2> HIDE DEF v
    <2>2. v \in BOOLEAN
        BY <1>2 DEF v
    <2> QED BY <2>1, <2>2
<1>4. FlagsTypes'
    <2>1. \A s : Change(s)' = Change(s)
        BY DEF Change
    <2>2. Accepted' = Accepted /\ Call' = Call
        BY <1>1, <2>1 DEF Accepted, Call
    <2> HIDE DEF Accepted, Call
    <2> QED BY <1>1, <1>3, <2>2 DEF FlagsTypes
<1> QED BY <1>1, <1>4 DEF PlaceInv, Waiting, PinInv, Newest, PinOf, FavoritesInv, ListsInv

(* The steps that write the rows of a pin alone, and agree with no change   *)
(* where they write.                                                        *)
LEMMA RowsKeepFlags ==
    ASSUME FlagsInv, UNCHANGED <<subject, log, handled, now, favorites, labels, calls, outdone>>,
           rows' \in [Flags!Addresses -> PinRow \cup {None}],
           \A a \in Flags!Addresses : rows'[a] # None =>
               \/ rows'[a].action = 0
               \/ \E b \in Flags!Addresses : rows[b] # None /\ rows'[a] = rows[b],
           \A a \in Flags!Addresses : rows[a] # None /\ rows[a].action > 0 =>
               \E b \in Flags!Addresses : rows'[b] # None /\ rows'[b].action >= rows[a].action,
           linked' \in BOOLEAN, linked' => rows'["alias"] = None,
           hint' \in [address : Flags!Addresses, pinned : BOOLEAN] \cup {None}
    PROVE  FlagsInv'
<1> USE DEF FlagsInv
<1>1. \A a \in Flags!Addresses : rows[a] # None => rows[a].action \in Nat /\ rows[a].action < now
    BY DEF FlagsTypes, PinRow
<1>2. now \in Nat \ {0}
    BY DEF FlagsTypes
<1>3. FlagsTypes'
    <2>1. \A s : Change(s)' = Change(s)
        BY DEF Change
    <2>2. Accepted' = Accepted /\ Call' = Call
        BY <2>1 DEF Accepted, Call
    <2>3. \A a \in Flags!Addresses : rows'[a] # None => rows'[a].action < now
        BY <1>1, <1>2
    <2> HIDE DEF Accepted, Call
    <2> QED BY <2>2, <2>3 DEF FlagsTypes
<1>4. PinInv'
    <2> SUFFICES ASSUME subject = "pin" PROVE PinInv'
        BY DEF PinInv
    <2>1. \A r, i : PinOf(r, i)' = PinOf(r, i)
        BY DEF PinOf
    <2>2. ASSUME NEW a \in Flags!Addresses, Newest(a)'
          PROVE  \E i \in 1 .. Len(log) : PinOf(rows'[a], i)
        <3>1. rows'[a] # None /\ rows'[a].action > 0 /\ rows'[a].action \in Nat
            BY <2>2 DEF Newest, PinRow
        <3>2. PICK b \in Flags!Addresses : rows[b] # None /\ rows'[a] = rows[b]
            BY <3>1
        <3>3. ASSUME NEW d \in Flags!Addresses, rows[d] # None
              PROVE  rows[d].action <= rows[b].action
            <4>1. CASE rows[d].action > 0
                <5>1. PICK e \in Flags!Addresses :
                          rows'[e] # None /\ rows'[e].action >= rows[d].action
                    BY <3>3, <4>1
                <5>2. rows'[e].action <= rows'[a].action /\ rows'[e].action \in Nat
                    BY <2>2, <5>1 DEF Newest, PinRow
                <5>3. rows[d].action \in Nat
                    BY <1>1, <3>3
                <5> QED BY <3>1, <3>2, <5>1, <5>2, <5>3
            <4>2. CASE ~(rows[d].action > 0)
                <5>1. rows[d].action \in Nat
                    BY <1>1, <3>3
                <5> QED BY <3>1, <3>2, <4>2, <5>1
            <4> QED BY <4>1, <4>2
        <3>4. Newest(b)
            BY <3>1, <3>2, <3>3 DEF Newest
        <3> QED BY <3>2, <3>4 DEF PinInv
    <2>3. ASSUME handled > 0
          PROVE  \E a \in Flags!Addresses : rows'[a] # None /\ rows'[a].action >= log[handled].time
        <3>1. PICK a \in Flags!Addresses : rows[a] # None /\ rows[a].action >= log[handled].time
            BY <2>3 DEF PinInv
        <3>2. log[handled].time \in Nat \ {0}
            BY <2>3, ChangesTyped DEF FlagsTypes
        <3>3. PICK b \in Flags!Addresses : rows'[b] # None /\ rows'[b].action >= rows[a].action
            BY <1>1, <3>1, <3>2
        <3>4. rows'[b].action \in Nat
            BY <3>3 DEF PinRow
        <3> QED BY <1>1, <3>1, <3>2, <3>3, <3>4
    <2> QED BY <2>1, <2>2, <2>3 DEF PinInv
<1>5. FavoritesInv' /\ PlaceInv'
    BY DEF FavoritesInv, Flags!FavoritesOf, OneApart, PlaceInv, Waiting
<1>6. ListsInv'
    <2>1. Flags!ListsOf(handled)' = Flags!ListsOf(handled)
        BY DEF Flags!ListsOf, Flags!About
    <2> QED BY <2>1 DEF ListsInv, OfList, LastHandled, Deleted
<1> QED BY <1>3, <1>4, <1>5, <1>6

LEMMA SnapshotKeepsFlags ==
    ASSUME FlagsInv, Flags!ApplyChatSnapshot
    PROVE  FlagsInv'
<1> DEFINE a == Flags!At(hint.address)
<1>1. /\ hint # None /\ hint' = None
      /\ rows' = [rows EXCEPT ![a] = IF rows[a] = None \/ rows[a].action = 0
                                     THEN Flags!Row(hint.pinned, 0) ELSE rows[a]]
      /\ UNCHANGED <<subject, log, handled, now, linked, favorites, labels, calls, outdone>>
    BY DEF Flags!ApplyChatSnapshot
<1>2. /\ rows \in [Flags!Addresses -> PinRow \cup {None}] /\ hint.address \in Flags!Addresses
      /\ hint.pinned \in BOOLEAN /\ linked \in BOOLEAN /\ (linked => rows["alias"] = None)
    BY <1>1 DEF FlagsInv, FlagsTypes
<1>3. a \in Flags!Addresses /\ (linked => a = "canonical")
    BY <1>2 DEF Flags!At, Flags!Addresses
<1> DEFINE new == Flags!Row(hint.pinned, 0)
<1>4. new \in PinRow /\ new.action = 0
    BY <1>2 DEF Flags!Row, PinRow
<1> HIDE DEF a, new
<1>5. /\ rows' \in [Flags!Addresses -> PinRow \cup {None}]
      /\ rows'[a] = new \/ (rows'[a] = rows[a] /\ rows[a].action # 0)
      /\ \A b \in Flags!Addresses : b # a => rows'[b] = rows[b]
    BY <1>1, <1>2, <1>3, <1>4 DEF new
<1>6. linked' => rows'["alias"] = None
    BY <1>1, <1>2, <1>3, <1>5 DEF Flags!Addresses
<1>7. \A b \in Flags!Addresses : rows'[b] # None =>
          rows'[b].action = 0 \/ (rows[b] # None /\ rows'[b] = rows[b])
    BY <1>4, <1>5
<1>8. \A b \in Flags!Addresses : rows[b] # None /\ rows[b].action > 0 => rows'[b] = rows[b]
    BY <1>1, <1>2, <1>5
<1>9. \A b \in Flags!Addresses : rows[b] # None => rows[b].action \in Nat
    BY <1>2 DEF PinRow
<1>10. \A b \in Flags!Addresses : rows[b] # None /\ rows[b].action > 0 =>
           \E d \in Flags!Addresses : rows'[d] # None /\ rows'[d].action >= rows[b].action
    BY <1>8, <1>9
<1> QED BY <1>1, <1>2, <1>5, <1>6, <1>7, <1>10, RowsKeepFlags

(* The two addresses become one: the newer action stands.                   *)
LEMMA LinkKeepsFlags ==
    ASSUME FlagsInv, Flags!LinkChatIDs
    PROVE  FlagsInv'
<1> DEFINE c == rows["canonical"]
           a == rows["alias"]
           one == IF a = None THEN c ELSE IF c = None THEN a ELSE Flags!mergeChatPinState(c, a)
<1>1. /\ subject = "pin" /\ linked' = TRUE /\ rows' = [canonical |-> one, alias |-> None]
      /\ UNCHANGED <<subject, log, handled, now, hint, favorites, labels, calls, outdone>>
    BY DEF Flags!LinkChatIDs
<1>2. /\ c \in PinRow \cup {None} /\ a \in PinRow \cup {None}
      /\ hint \in [address : Flags!Addresses, pinned : BOOLEAN] \cup {None}
    BY DEF FlagsInv, FlagsTypes, Flags!Addresses
<1>3. \/ one = None /\ a = None /\ c = None
      \/ one = a /\ a # None /\ (c = None \/ a.action > c.action)
      \/ one = c /\ c # None /\ (a = None \/ (c.action > 0 /\ ~(a.action > c.action)))
      \/ /\ one \in PinRow /\ one.action = 0 /\ a # None /\ c # None
         /\ ~(c.action > 0) /\ ~(a.action > c.action)
    <2> HIDE DEF a, c
    <2> QED BY <1>2 DEF Flags!mergeChatPinState, Flags!Row, PinRow
<1>4. one \in PinRow \cup {None}
    <2> HIDE DEF a, c
    <2> QED BY <1>2, <1>3
<1>5. /\ rows'["canonical"] = one /\ rows'["alias"] = None
      /\ rows' \in [Flags!Addresses -> PinRow \cup {None}]
    <2> HIDE DEF one
    <2> QED BY <1>1, <1>4 DEF Flags!Addresses
<1>6. c # None => c.action \in Nat
    <2> HIDE DEF c
    <2> QED BY <1>2 DEF PinRow
<1>7. a # None => a.action \in Nat
    <2> HIDE DEF a
    <2> QED BY <1>2 DEF PinRow
<1>8. one # None => one.action = 0 \/ (c # None /\ one = c) \/ (a # None /\ one = a)
    <2> HIDE DEF one
    <2> QED BY <1>3
<1>9. /\ c # None /\ c.action > 0 => one # None /\ one.action >= c.action
      /\ a # None /\ a.action > 0 => one # None /\ one.action >= a.action
    <2> HIDE DEF one, a, c
    <2> QED BY <1>3, <1>6, <1>7
<1>10. \A x \in Flags!Addresses : x = "canonical" \/ x = "alias"
    BY DEF Flags!Addresses
<1>11. \A x \in Flags!Addresses : rows'[x] # None =>
           rows'[x].action = 0 \/ \E b \in Flags!Addresses : rows[b] # None /\ rows'[x] = rows[b]
    <2> HIDE DEF one
    <2> QED BY <1>5, <1>8, <1>10 DEF Flags!Addresses
<1>12. \A x \in Flags!Addresses : rows[x] # None /\ rows[x].action > 0 =>
           \E b \in Flags!Addresses : rows'[b] # None /\ rows'[b].action >= rows[x].action
    <2> HIDE DEF one
    <2> QED BY <1>5, <1>9, <1>10 DEF Flags!Addresses
<1> HIDE DEF one
<1> QED BY <1>1, <1>2, <1>5, <1>11, <1>12, RowsKeepFlags

LEMMA StepKeepsFlags ==
    ASSUME FlagsInv, Flags!Next \/ UNCHANGED flagsVars
    PROVE  FlagsInv'
<1>1. CASE UNCHANGED flagsVars
    <2>1. \A s : Change(s)' = Change(s)
        BY DEF Change
    <2>2. UNCHANGED <<subject, log, handled, now, rows, linked, hint, favorites, labels, calls,
                      outdone>>
        BY <1>1 DEF flagsVars
    <2>7. Accepted' = Accepted /\ Call' = Call
        BY <2>1, <2>2 DEF Accepted, Call
    <2>3. Flags!ListsOf(handled)' = Flags!ListsOf(handled)
        BY <2>2 DEF Flags!ListsOf, Flags!About
    <2>4. FlagsTypes'
        <3> HIDE DEF Accepted, Call
        <3> QED BY <2>2, <2>7 DEF FlagsInv, FlagsTypes
    <2>5. PlaceInv' /\ PinInv' /\ FavoritesInv'
        BY <2>2 DEF FlagsInv, PlaceInv, Waiting, PinInv, Newest, PinOf, FavoritesInv,
                    Flags!FavoritesOf, OneApart
    <2>6. ListsInv'
        BY <2>2, <2>3 DEF FlagsInv, ListsInv, OfList, LastHandled, Deleted
    <2> QED BY <2>4, <2>5, <2>6 DEF FlagsInv
<1>2. CASE Flags!ChangeElsewhere
    BY <1>2, ElsewhereKeepsFlags
<1>3. CASE Flags!HandleChange
    BY <1>3, HandleKeepsFlags
<1>4. CASE Flags!HistoryArrives
    BY <1>4, HistoryKeepsFlags
<1>5. CASE Flags!ApplyChatSnapshot
    BY <1>5, SnapshotKeepsFlags
<1>6. CASE Flags!LinkChatIDs
    BY <1>6, LinkKeepsFlags
<1>7. ASSUME NEW c \in Callers, Flags!Call(c) PROVE FlagsInv'
    <2>1. CASE Flags!SetChatPinned(c) \/ Flags!SetChatFavorite(c) \/ Flags!CreateLabel(c)
        BY <2>1, BeginningKeepsFlags
    <2>2. CASE Flags!Send(c)
        BY <2>2, SendKeepsFlags
    <2>3. CASE Flags!SendFails(c)
        BY <2>3, SendFailsKeepsFlags
    <2>4. CASE Flags!StoreSent(c)
        BY <2>4, StoreSentKeepsFlags
    <2>5. CASE Flags!StoreFails(c)
        BY <2>5, StoreFailsKeepsFlags
    <2> QED BY <1>7, <2>1, <2>2, <2>3, <2>4, <2>5 DEF Flags!Call
<1> QED BY <1>1, <1>2, <1>3, <1>4, <1>5, <1>6, <1>7 DEF Flags!Next

LEMMA InitFlagsInv == ASSUME Flags!Init PROVE FlagsInv
<1> USE DEF Flags!Init
<1>1. log = <<>> /\ Len(log) = 0 /\ MaxChanges \in Nat
    BY ConstantsAssumption DEF Flags!SettingsAssumption
<1>2. FlagsTypes
    <2>1. log \in Seq(Accepted) /\ Len(log) <= MaxChanges /\ handled \in 0 .. Len(log)
        BY <1>1
    <2>2. /\ rows \in [Flags!Addresses -> PinRow \cup {None}] /\ rows["alias"] = None
          /\ \A a \in Flags!Addresses : rows[a] = None
        BY DEF Flags!Addresses
    <2>3. labels \in [Flags!ListIds -> {"absent", "live", "deleted"}]
        OBVIOUS
    <2>4. calls \in [Callers -> Call \cup {None}]
        OBVIOUS
    <2> HIDE DEF Accepted, Call
    <2>5. \A i \in 1 .. Len(log) : FALSE
        BY <1>1
    <2>6. now \in Nat \ {0} /\ subject \in Flags!Settings /\ hint = None /\ favorites = {}
        OBVIOUS
    <2>7. linked = FALSE /\ outdone = {}
        OBVIOUS
    <2> QED BY ONLY <2>1, <2>2, <2>3, <2>4, <2>5, <2>6, <2>7 DEF FlagsTypes
<1>3. Flags!ListsOf(handled) = {}
    BY <1>2, AboutIs
<1>4. PlaceInv /\ FavoritesInv
    BY <1>1 DEF PlaceInv, Waiting, FavoritesInv, Flags!FavoritesOf
<1>5. PinInv
    BY DEF PinInv, Newest
<1>6. ListsInv
    BY <1>1, <1>3 DEF ListsInv, OfList
<1> QED BY <1>2, <1>4, <1>5, <1>6 DEF FlagsInv

(* The last change of a list whose number is still in the account's log.    *)
LEMMA LastOfList ==
    ASSUME FlagsTypes, subject = "list", NEW id \in Flags!ListsOf(Len(log))
    PROVE  LET last == Flags!Max({i \in Flags!About("list", Len(log)) : log[i].change.id = id})
           IN  /\ last \in OfList(id) /\ \A i \in OfList(id) : i <= last
               /\ id \in Flags!ListIds
<1>1. /\ Len(log) \in Nat /\ Flags!About("list", Len(log)) = 1 .. Len(log)
      /\ Flags!ListsOf(Len(log)) = {log[i].change.id : i \in 1 .. Len(log)}
      /\ id \in Flags!ListIds
    BY ChangesTyped, AboutIs
<1> DEFINE S == {i \in Flags!About("list", Len(log)) : log[i].change.id = id}
<1>2. S = OfList(id) /\ S \in SUBSET (0 .. Len(log)) /\ S # {}
    BY <1>1 DEF OfList
<1>3. Flags!Max(S) = Max(S)
    BY DEF Flags!Max, Max
<1> HIDE DEF S
<1>4. Max(S) \in S /\ \A z \in S : z <= Max(S)
    BY <1>1, <1>2, MaxOfBounded
<1> QED BY <1>1, <1>2, <1>3, <1>4 DEF S

LEMMA FlagsInvIsEnough ==
    ASSUME FlagsInv
    PROVE  /\ Flags!TypeOK
           /\ Flags!PinConverges /\ Flags!FavoritesConverge /\ Flags!ListsConverge
<1> USE DEF FlagsInv
<1>0. Len(log) \in Nat /\ Len(log) \in 0 .. Len(log)
    BY ChangesTyped
<1>1. Flags!TypeOK
    <2>1. \A a \in Flags!Addresses : rows[a] # None => rows[a].action \in 0 .. now
        BY DEF FlagsTypes, PinRow
    <2> QED BY <2>1 DEF FlagsTypes, Flags!TypeOK
<1>2. Flags!PinConverges
    <2> SUFFICES ASSUME subject = "pin", handled = Len(log), linked,
                        Len(log) \notin {0} \cup outdone
                 PROVE  /\ rows["canonical"] # None
                        /\ rows["canonical"].pinned = Flags!Latest("pin", FALSE)
        BY DEF Flags!PinConverges, Flags!HasHandled
    <2>1. Len(log) > 0
        BY <1>0
    <2>2. PICK a \in Flags!Addresses : rows[a] # None /\ rows[a].action >= log[Len(log)].time
        BY <2>1 DEF PinInv
    <2>3. a = "canonical" /\ rows["alias"] = None /\ "canonical" \in Flags!Addresses
        BY <2>2 DEF FlagsTypes, Flags!Addresses
    <2>4. log[Len(log)].time \in Nat \ {0} /\ rows["canonical"].action \in Nat
        <3>1. Len(log) \in 1 .. Len(log)
            BY <1>0, <2>1
        <3> QED BY <2>2, <2>3, <3>1 DEF FlagsTypes, PinRow
    <2>5. PICK i \in 1 .. Len(log) : PinOf(rows["canonical"], i)
        <3>1. Newest("canonical")
            BY <2>2, <2>3, <2>4 DEF Newest, Flags!Addresses
        <3> QED BY <2>3, <3>1 DEF PinInv
    <2>6. i = Len(log)
        <3>1. Len(log) > i => log[Len(log)].time > rows["canonical"].action
            BY <1>0, <2>1, <2>5 DEF PinOf
        <3> QED BY <1>0, <2>2, <2>3, <2>4, <3>1
    <2>7. Flags!Latest("pin", FALSE) = log[Len(log)].change.value
        <3>1. Flags!Latest("pin", FALSE)
                  = IF Len(log) = 0 THEN FALSE ELSE log[Len(log)].change.value
            BY LatestIs
        <3>2. Len(log) # 0
            BY <1>0, <2>1
        <3> QED BY ONLY <3>1, <3>2
    <2> QED BY <2>2, <2>3, <2>5, <2>6, <2>7 DEF PinOf
<1>3. Flags!FavoritesConverge
    <2> SUFFICES ASSUME subject = "favorites", handled = Len(log), Len(log) \notin outdone
                 PROVE  favorites = Flags!Latest("favorites", {})
        BY DEF Flags!FavoritesConverge, Flags!HasHandled
    <2>1. Flags!Latest("favorites", {}) = Flags!FavoritesOf(Len(log))
        BY LatestIs DEF Flags!FavoritesOf
    <2>2. PICK i \in Len(log) .. Len(log) : favorites = Flags!FavoritesOf(i)
        BY <1>0 DEF FavoritesInv
    <2>3. i = Len(log)
        BY <1>0
    <2> QED BY <2>1, <2>2, <2>3
<1>4. Flags!ListsConverge
    <2> SUFFICES ASSUME subject = "list", handled = Len(log), NEW id \in Flags!ListsOf(Len(log))
                 PROVE  LET last == Flags!Max({i \in Flags!About("list", Len(log)) :
                                                  log[i].change.id = id})
                        IN  \/ last \in outdone
                            \/ labels[id] = IF log[last].change.deleted THEN "deleted" ELSE "live"
        BY DEF Flags!ListsConverge, Flags!HasHandled
    <2> DEFINE last == Flags!Max({i \in Flags!About("list", Len(log)) : log[i].change.id = id})
    <2>1. last \in OfList(id) /\ (\A i \in OfList(id) : i <= last) /\ id \in Flags!ListIds
        BY LastOfList
    <2> HIDE DEF last
    <2>2. \A i \in OfList(id) : ~(i > handled)
        BY <1>0 DEF OfList
    <2>3. LastHandled(id, last)
        BY <1>0, <2>1 DEF LastHandled, OfList
    <2>4. labels[id] = Deleted(last) \/ last \in outdone
        BY <2>1, <2>2, <2>3 DEF ListsInv
    <2> QED BY <2>4 DEF Deleted, last
<1> QED BY <1>1, <1>2, <1>3, <1>4

(* Only the call that sends its change, with an answer or without, both     *)
(* writes the log and goes on.                                              *)
LEMMA SendingIsTheCalls ==
    ASSUME FlagsInv, NEW c \in Callers, calls[c] # None, subject = calls[c].change.setting,
           Flags!Next, log' # log, calls'[c] # calls[c]
    PROVE  calls[c].step = "send" /\ Flags!Accept(calls[c].change)
<1>1. ASSUME NEW ch, Flags!MakeElsewhere(ch) PROVE FALSE
    BY <1>1 DEF Flags!MakeElsewhere
<1>2. ~Flags!ChangeElsewhere
    BY <1>1 DEF Flags!ChangeElsewhere
<1>3. ~Flags!HandleChange /\ ~Flags!HistoryArrives /\ ~Flags!ApplyChatSnapshot /\ ~Flags!LinkChatIDs
    BY DEF Flags!HandleChange, Flags!HistoryArrives, Flags!ApplyChatSnapshot, Flags!LinkChatIDs
<1>4. PICK d \in Callers : Flags!Call(d)
    BY <1>2, <1>3 DEF Flags!Next
<1>5. \A ch : ~Flags!Begin(d, ch)
    BY DEF Flags!Begin
<1>6. ~Flags!SetChatPinned(d) /\ ~Flags!SetChatFavorite(d) /\ ~Flags!CreateLabel(d)
    BY <1>5 DEF Flags!SetChatPinned, Flags!SetChatFavorite, Flags!CreateLabel
<1>7. ~Flags!StoreFails(d) /\ ~Flags!StoreSent(d)
    BY DEF Flags!StoreFails, Flags!StoreSent
<1>8. Flags!Send(d) \/ Flags!SendFails(d)
    BY <1>4, <1>6, <1>7 DEF Flags!Call
<1>9. /\ calls[d].step = "send" /\ Flags!Accept(calls[d].change)
      /\ \/ calls' = [calls EXCEPT ![d].step = "store", ![d].place = Len(log')]
         \/ calls' = [calls EXCEPT ![d] = None]
    BY <1>8 DEF Flags!Send, Flags!SendFails, Flags!Waits, Flags!End
<1>10. calls \in [Callers -> Call \cup {None}]
    BY DEF FlagsInv, FlagsTypes
<1>11. d = c
    BY <1>9, <1>10
<1> QED BY <1>9, <1>11

(* What this device holds of the pin, the favourites and the lists of the   *)
(* account ends as the account has them, whatever the order of echoes,      *)
(* history and links, for any number of changes and calls, also of calls    *)
(* that have no answer or cannot store: unless a call stored an own change  *)
(* over a later one. A call adds or removes one favourite and undoes none   *)
(* it knew of, and a new list takes a number of its own (SetChatPinned,     *)
(* SetChatFavorite, UpsertLabel, handleAppState).                           *)
THEOREM SettingsSettle == ChatsSpec => SettingsConverge
<1> DEFINE step == [ChatsNext]_<<looking, unreadVars, flagsVars, addonsVars, callsVars, vars>>
<1>1. ChatsInit => FlagsInv
    BY InitFlagsInv DEF ChatsInit
<1>2. FlagsInv /\ step => FlagsInv'
    BY StepKeepsFlags DEF ChatsNext
<1>3. FlagsInv => Flags!PinConverges /\ Flags!FavoritesConverge /\ Flags!ListsConverge
    BY FlagsInvIsEnough
<1>4. FlagsInv /\ step
        => [\A c \in Callers :
               Flags!Sends(c, "favorites") =>
                   LET before == Flags!FavoritesOf(Len(log))  after == calls[c].change.value
                   IN  Flags!Cardinality(
                           {j \in (before \ after) \cup (after \ before) :
                               ~Flags!Changed(j, calls[c].upTo)}) <= 1]_Flags!vars
    <2> SUFFICES ASSUME FlagsInv, step, NEW c \in Callers, Flags!Sends(c, "favorites")
                 PROVE  LET before == Flags!FavoritesOf(Len(log))  after == calls[c].change.value
                        IN  Flags!Cardinality(
                                {j \in (before \ after) \cup (after \ before) :
                                    ~Flags!Changed(j, calls[c].upTo)}) <= 1
        OBVIOUS
    <2>1. /\ calls[c] # None /\ calls[c].change.setting = "favorites"
          /\ calls'[c] # calls[c] /\ log' # log
        BY DEF Flags!Sends
    <2>2. subject = "favorites" /\ calls[c].upTo \in Nat
        <3>1. calls[c] \in Call
            BY <2>1 DEF FlagsInv, FlagsTypes
        <3>2. calls[c].change \in Change(subject) /\ calls[c].upTo \in Nat
            BY <3>1 DEF Call
        <3> QED BY <2>1, <3>2, ChangeIs DEF FlagsInv, FlagsTypes
    <2>3. Flags!Next
        BY <2>1 DEF ChatsNext, flagsVars
    <2>4. calls[c].step = "send"
        BY <2>1, <2>2, <2>3, SendingIsTheCalls
    <2>5. PICK i \in calls[c].upTo .. Len(log) :
              OneApart(Flags!FavoritesOf(i), calls[c].change.value)
        BY <2>1, <2>2, <2>4 DEF FlagsInv, FavoritesInv, Waiting
    <2> DEFINE before == Flags!FavoritesOf(Len(log))
               after  == calls[c].change.value
               D == {j \in (before \ after) \cup (after \ before) :
                        ~Flags!Changed(j, calls[c].upTo)}
    <2>6. PICK k \in Chats : (Flags!FavoritesOf(i) \ after) \cup (after \ Flags!FavoritesOf(i))
                             \subseteq {k}
        BY <2>5 DEF OneApart
    <2>7. ASSUME NEW j, ~Flags!Changed(j, calls[c].upTo)
          PROVE  j \in before <=> j \in Flags!FavoritesOf(i)
        <3>1. Len(log) \in Nat
            BY ChangesTyped DEF FlagsInv
        <3>2. \A n \in calls[c].upTo .. Len(log) :
                  n = calls[c].upTo \/ n \in calls[c].upTo + 1 .. Len(log)
            BY <2>2, <3>1
        <3>3. \A n \in calls[c].upTo .. Len(log) :
                  (j \in Flags!FavoritesOf(n)) = (j \in Flags!FavoritesOf(calls[c].upTo))
            BY <2>7, <3>2 DEF Flags!Changed
        <3>4. Len(log) \in calls[c].upTo .. Len(log)
            BY <2>2, <3>1
        <3> QED BY <3>3, <3>4
    <2>8. D \in SUBSET {k}
        BY <2>6, <2>7
    <2> HIDE DEF D
    <2>9. Cardinality(D) <= 1
        <3>1. IsFiniteSet({k}) /\ Cardinality({k}) = 1
            BY FS_Singleton
        <3> QED BY <2>8, <3>1, FS_Subset
    <2>10. \A T : Flags!Cardinality(T) = Cardinality(T)
        BY DEF Flags!Cardinality, Cardinality
    <2> QED BY <2>9, <2>10 DEF D
<1>5. FlagsInv /\ step
        => [\A c \in Callers :
               Flags!Sends(c, "list") => calls[c].change.id \notin calls[c].known]_Flags!vars
    <2> SUFFICES ASSUME FlagsInv, NEW c \in Callers, Flags!Sends(c, "list")
                 PROVE  calls[c].change.id \notin calls[c].known
        OBVIOUS
    <2>1. calls[c] # None /\ calls[c].change.setting = "list"
        BY DEF Flags!Sends
    <2>2. subject = "list"
        <3>1. calls[c] \in Call
            BY <2>1 DEF FlagsInv, FlagsTypes
        <3>2. calls[c].change \in Change(subject)
            BY <3>1 DEF Call
        <3> QED BY <2>1, <3>2, ChangeIs DEF FlagsInv, FlagsTypes
    <2> QED BY <2>1, <2>2 DEF FlagsInv, ListsInv
<1> QED BY <1>1, <1>2, <1>3, <1>4, <1>5, PTL
        DEF ChatsSpec, SettingsConverge, Flags!SettingsConverge, Flags!OtherFavoritesAreKept,
            Flags!NewListsAreNew

-----------------------------------------------------------------------------
(* The types of all five parts. *)

LEMMA CallsTyped == ASSUME CallsBase PROVE Calls!TypeOK
<1>1. \A c \in Callers : path[c] = <<>> \/ path[c] \in Seq(Calls!Steps)
    BY RunningIsSound DEF CallsBase
<1>2. \A c \in Callers : Len(path[c]) \in Nat
    BY <1>1
<1>3. \A c \in Callers : at[c] \in 0 .. (Len(path[c]) + 1)
    BY <1>2 DEF CallsBase
<1>4. \A c \in Callers : path[c] \in Calls!Programs[method] \cup {<<>>}
    BY DEF CallsBase
<1>5. told \in [Callers -> 0 .. 2]
    BY DEF CallsBase
<1> QED BY <1>3, <1>4, <1>5 DEF CallsBase, Calls!TypeOK

(* What is stored beside the messages stays in its types, for any number of *)
(* messages, changes, votes, calls and editors: the badge never falls below *)
(* zero, a linked address has no row of its own, a call is somewhere in a   *)
(* program of its method.                                                   *)
THEOREM ChatsTypes == ChatsSpec => []ChatsTypeOK
<1> DEFINE step == [ChatsNext]_<<looking, unreadVars, flagsVars, addonsVars, callsVars, vars>>
<1>1. /\ Unread!UnreadAssumption /\ Addons!AddonsAssumption /\ EditsAssumption
    BY ConstantsAssumption
<1>2. ChatsInit => TypeOK /\ UnreadInv /\ FlagsInv /\ AddonsInv /\ CallsInv
    BY <1>1, InitEditsInv, InitUnreadInv, InitFlagsInv, InitAddonsInv, InitCallsInv
    DEF ChatsInit, EditsInv
<1>3. TypeOK /\ step => TypeOK'
    BY <1>1, StepKeepsEditTypes DEF ChatsNext
<1>4. UnreadInv /\ step => UnreadInv'
    BY <1>1, StepKeepsUnread DEF ChatsNext
<1>5. FlagsInv /\ step => FlagsInv'
    BY StepKeepsFlags DEF ChatsNext
<1>6. AddonsInv /\ step => AddonsInv'
    BY <1>1, StepKeepsAddons DEF ChatsNext
<1>7. CallsInv /\ step => CallsInv'
    BY StepKeepsCalls DEF ChatsNext
<1>8. TypeOK /\ UnreadInv /\ FlagsInv /\ AddonsInv /\ CallsInv => ChatsTypeOK
    <2>1. CallsInv => Calls!TypeOK
        BY CallsTyped DEF CallsInv
    <2>2. FlagsInv => Flags!TypeOK
        BY FlagsInvIsEnough
    <2>3. AddonsInv => Addons!TypeOK
        BY DEF AddonsInv, AddonsBase
    <2>4. UnreadInv => Unread!TypeOK
        BY <1>1, UnreadInvIsEnough
    <2> QED BY <2>1, <2>2, <2>3, <2>4 DEF ChatsTypeOK
<1> QED BY <1>2, <1>3, <1>4, <1>5, <1>6, <1>7, <1>8, PTL DEF ChatsSpec

=============================================================================
