--------------------------- MODULE MCMessageStore ---------------------------
(* One message; the configurations choose what may disturb its life.        *)
EXTENDS MessageStore

(* A text or a picture with a caption of theirs, protected or not, and a    *)
(* text of mine.                                                            *)
MCMessages ==
    [author: {"them"}, content: {"text", "image"}, protected: BOOLEAN]
        \cup {[author |-> "me", content |-> "text", protected |-> FALSE]}

=============================================================================
