---------------------------- MODULE ConnectSweep ----------------------------
(* What a connection to WhatsApp starts: one sweep at a time that fetches   *)
(* the changes of the account made while this device was away and then asks *)
(* for older history, page by page. The reader may ask for the same page,   *)
(* the phone answers late or never, the connection breaks and comes back,   *)
(* the conversation is empty for a while, the database fails and the daemon *)
(* restarts. One conversation stands for all.                               *)
EXTENDS Integers, FiniteSets, FiniteSetsExt

CONSTANTS
    Pages,        \* how many older pages the phone has
    Rounds,       \* historyRoundsPerChat, pages asked for in one sweep
    MaxRestarts,  \* how often the daemon restarts
    Unmarked      \* the conversation is not marked as finished

Anchors == 0 .. Pages

SweepAssumption ==
    /\ Pages \in Nat /\ Rounds \in Nat \ {0} /\ MaxRestarts \in Nat
    /\ Unmarked \notin Anchors

VARIABLES
    connected,  \* the connection to WhatsApp is up
    behind,     \* the account changed while this device was away
    sweep,      \* the step the sweep has reached, "idle" for no sweep
    round,      \* pages that came in this sweep
    before,     \* the page the sweep last asked from
    empty,      \* no message of the conversation is here
    stored,     \* the oldest message that is here came with this older page
    asked,      \* historyRequests: anchors asked from within the last 30 s
    flight,     \* requests the phone has not answered
    mark,       \* history_backfill_v1: from where nothing older came
    restarts,   \* how often the daemon restarted
    looked      \* history: from where a sweep last asked, or found no message to
                \* ask from

page == <<empty, stored, asked, flight>>
vars == <<connected, behind, sweep, round, before, page, mark, restarts, looked>>

Init ==
    /\ connected = FALSE /\ behind = FALSE
    /\ sweep = "idle" /\ round = 0 /\ before = 0
    /\ empty \in BOOLEAN /\ stored = 0 /\ asked = {} /\ flight = {}
    /\ mark = Unmarked /\ restarts = 0 /\ looked = Unmarked

-----------------------------------------------------------------------------
(* The connection. *)

(* beginConnectSweep refuses a second sweep beside the first.               *)
Connected ==
    /\ ~connected /\ connected' = TRUE
    /\ IF sweep = "idle" THEN sweep' = "catch up" /\ round' = 0
       ELSE UNCHANGED <<sweep, round>>
    /\ UNCHANGED <<behind, before, page, mark, restarts, looked>>

Disconnected ==
    /\ connected /\ connected' = FALSE
    /\ UNCHANGED <<behind, sweep, round, before, page, mark, restarts, looked>>

(* A change made while this device listens reaches it as a notification.    *)
ChangedElsewhere ==
    /\ ~connected /\ behind' = TRUE
    /\ UNCHANGED <<connected, sweep, round, before, page, mark, restarts, looked>>

(* The requests in memory go, the mark in the database stays; a sweep that  *)
(* is cut short cannot write it.                                            *)
Restart ==
    /\ restarts < MaxRestarts /\ restarts' = restarts + 1
    /\ connected' = FALSE /\ sweep' = "idle" /\ asked' = {}
    /\ UNCHANGED <<behind, round, before, empty, stored, flight, mark, looked>>

(* A message of the conversation, live or by the history of another request.*)
MessageArrives ==
    /\ connected /\ empty /\ empty' = FALSE
    /\ UNCHANGED <<connected, behind, sweep, round, before, stored, asked, flight, mark,
                   restarts, looked>>

-----------------------------------------------------------------------------
(* A request for the page before the oldest stored one. *)

InFlight == stored \in asked
Request  == asked' = asked \cup {stored} /\ flight' = flight \cup {stored}

ReaderAsks ==
    /\ connected /\ ~empty /\ ~InFlight /\ Request
    /\ UNCHANGED <<connected, behind, sweep, round, before, empty, stored, mark, restarts,
                   looked>>

(* The page comes as a history sync of its own, ...                         *)
Answer ==
    \E a \in flight :
        /\ flight' = flight \ {a}
        /\ stored' = IF a < Pages THEN Max({stored, a + 1}) ELSE stored
        /\ UNCHANGED <<connected, behind, sweep, round, before, empty, asked, mark, restarts,
                       looked>>

(* ... or it never does.                                                    *)
NoAnswer ==
    \E a \in flight :
        /\ flight' = flight \ {a}
        /\ UNCHANGED <<connected, behind, sweep, round, before, empty, stored, asked, mark,
                       restarts, looked>>

(* The window is longer than a sweep waits for its own request.             *)
WindowEnds ==
    \E a \in asked :
        /\ ~(sweep = "await" /\ before = a)
        /\ asked' = asked \ {a}
        /\ UNCHANGED <<connected, behind, sweep, round, before, empty, stored, flight, mark,
                       restarts, looked>>

-----------------------------------------------------------------------------
(* The sweep. *)

At(step) == sweep = step

catchUpAppState ==
    /\ At("catch up") /\ sweep' = "ask"
    /\ behind' = (behind /\ ~connected)
    /\ UNCHANGED <<connected, round, before, page, mark, restarts, looked>>

Looks == At("ask") /\ mark = Unmarked /\ round < Rounds

(* The mark is for good; that it could not be written goes unnoticed.       *)
Finish(anchor) == sweep' = "end" /\ mark' \in {anchor, Unmarked}

(* No message is here to ask from, or the database gives none: the          *)
(* conversation is finished and nobody was asked.                           *)
NothingToAskFrom ==
    /\ Looks /\ Finish(stored) /\ looked' = stored
    /\ UNCHANGED <<connected, behind, round, before, page, restarts>>

(* Mutant: a request in flight is taken for one of the sweep's own.         *)
RequestHistorySuppressed ==
    /\ Looks /\ ~empty /\ before' = stored
    /\ \/ sweep' = "end" /\ UNCHANGED <<page, looked>>
       \/ connected /\ InFlight /\ sweep' = "await" /\ UNCHANGED <<page, looked>>
       \/ /\ connected /\ ~InFlight /\ Request /\ sweep' = "await"
          /\ looked' = stored /\ UNCHANGED <<empty, stored>>
    /\ UNCHANGED <<connected, behind, round, mark, restarts>>

(* The sweep asks for the next page. A request that is in flight already, or*)
(* that cannot be sent, decides nothing about the conversation.             *)
RequestHistory ==
    /\ Looks /\ ~empty /\ before' = stored
    /\ \/ sweep' = "end" /\ UNCHANGED <<page, looked>>
       \/ /\ connected /\ ~InFlight /\ Request /\ sweep' = "await"
          /\ looked' = stored /\ UNCHANGED <<empty, stored>>
    /\ UNCHANGED <<connected, behind, round, mark, restarts>>

SkipConversation ==
    /\ At("ask") /\ (mark # Unmarked \/ round = Rounds) /\ sweep' = "end"
    /\ UNCHANGED <<connected, behind, round, before, page, mark, restarts, looked>>

PageArrived ==
    /\ At("await") /\ stored > before
    /\ sweep' = "ask" /\ round' = round + 1
    /\ UNCHANGED <<connected, behind, before, page, mark, restarts, looked>>

(* Mutant: a sweep waits as long as the phone may still answer.             *)
PageTimeoutAfterAnswer ==
    /\ At("await") /\ stored = before /\ before \notin flight
    /\ Finish(before)
    /\ UNCHANGED <<connected, behind, round, before, page, restarts, looked>>

(* Silence is read as the end of the conversation, whatever its reason.     *)
PageTimeout ==
    /\ At("await") /\ stored = before
    /\ Finish(before)
    /\ UNCHANGED <<connected, behind, round, before, page, restarts, looked>>

endConnectSweep ==
    /\ At("end") /\ sweep' = "idle"
    /\ UNCHANGED <<connected, behind, round, before, page, mark, restarts, looked>>

SweepStep ==
    \/ catchUpAppState \/ NothingToAskFrom \/ RequestHistory \/ SkipConversation
    \/ PageArrived \/ PageTimeout \/ endConnectSweep

Next ==
    \/ Connected \/ Disconnected \/ ChangedElsewhere \/ Restart
    \/ MessageArrives
    \/ ReaderAsks \/ Answer \/ NoAnswer \/ WindowEnds
    \/ SweepStep

(* The sweep is a goroutine that nothing blocks for ever; the library       *)
(* connects again by itself.                                                *)
Spec == Init /\ [][Next]_vars /\ WF_vars(SweepStep) /\ WF_vars(Connected)

-----------------------------------------------------------------------------
TypeOK ==
    /\ connected \in BOOLEAN /\ behind \in BOOLEAN
    /\ sweep \in {"idle", "catch up", "ask", "await", "end"}
    /\ round \in 0 .. Rounds /\ before \in 0 .. stored /\ stored \in Anchors
    /\ empty \in BOOLEAN /\ (empty => flight = {})
    /\ asked \subseteq Anchors /\ flight \subseteq 0 .. stored
    /\ mark \in Anchors \cup {Unmarked}
    /\ restarts \in 0 .. MaxRestarts /\ looked \in Anchors \cup {Unmarked}

(* A conversation is marked as finished, for good, only where a sweep itself*)
(* asked for the next page and waited, or found no message here to ask from *)
(* (none is stored, or the database gave none): never because the reader had*)
(* asked for the same page a moment before. The mark does not tell why no   *)
(* page came: the end of the history, an answer later than the sweep waits, *)
(* and a connection that broke meanwhile look the same.                     *)
FinishedByOwnLook == mark # Unmarked => mark = looked

(* A sweep never leaves its claim behind, which would keep every later      *)
(* connection from starting one: it ends whatever the phone, the reader and *)
(* the connection do.                                                       *)
SweepEnds == sweep # "idle" ~> sweep = "idle"

(* "The next connection asks again" (catchUpAppState): once the connection  *)
(* stays up, what the account changed while this device was away is fetched *)
(* in the end.                                                              *)
ChangesAreCaughtUp == <>[]connected => (behind ~> ~behind)

(* A sweep ends, and finishes no conversation on somebody else's request.   *)
SweepsEndWell == []FinishedByOwnLook /\ SweepEnds

=============================================================================
