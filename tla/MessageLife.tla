---------------------------- MODULE MessageLife ----------------------------
(* What the message index promises the reader of one message, whatever      *)
(* order copies, corrections, receipts and the revocation arrive in: the    *)
(* phases of its life only go forward, and only the reader's clearing of    *)
(* the conversation ends it.                                                *)
EXTENDS Integers

CONSTANTS
    Texts,      \* what a message can say
    Original,   \* what it said first, one of Texts
    Nothing     \* it says nothing, none of Texts

VARIABLES
    phase,   \* where the message is in its life
    text,    \* what the reader sees
    mark     \* how far it got, as the reader's ticks tell

vars == <<phase, text, mark>>

Phases == {"absent", "original", "corrected", "protected", "deleted"}
Marks  == 0..4

(* What a message can say in each phase.                                    *)
Says(p) ==
    CASE p = "original"  -> {Original}
      [] p = "corrected" -> Texts \ {Original}
      [] OTHER           -> {Nothing}

(* The phases that can follow.                                              *)
Later(p) ==
    CASE p = "original"  -> {"original", "corrected", "protected", "deleted"}
      [] p = "corrected" -> {"corrected", "protected", "deleted"}
      [] p = "protected" -> {"protected", "deleted"}
      [] OTHER           -> {p}

Init == phase = "absent" /\ text = Nothing /\ mark = 0

(* A copy of it is stored, in whatever phase the copy was made.             *)
Appear ==
    /\ phase = "absent"
    /\ phase' \in Phases \ {"absent"}
    /\ text' \in Says(phase')
    /\ mark' \in Marks

(* Another copy, a correction, a receipt, a revocation, a protection.       *)
Advance ==
    /\ phase # "absent"
    /\ phase' \in Later(phase)
    /\ text' \in Says(phase')
    /\ mark' \in Marks /\ mark' >= mark

(* The reader empties the conversation.                                     *)
Clear == phase' = "absent" /\ text' = Nothing /\ mark' = 0

Next == Appear \/ Advance \/ Clear

Spec == Init /\ [][Next]_vars

=============================================================================
