--------------------------- MODULE MCChatIdentity ---------------------------
(* Two goroutines and a few copies: the original, with and without a card,  *)
(* a correction, and the placeholder of a protected message.                *)
EXTENDS ChatIdentity

Text(v, card, status) ==
    [kind |-> "text", body |-> v, edited |-> v > 1, revoked |-> FALSE,
     status |-> status, card |-> card, media |-> FALSE]

MCCopies ==
    {Text(1, NoCard, s) : s \in {"received", "sent"}}
        \cup {Text(1, 1, s) : s \in {"received", "delivered"}}
        \cup {Text(2, 2, s) : s \in {"received", "sent"}}
        \cup {Placeholder(Text(1, NoCard, "received"))}

=============================================================================
