------------------------------ MODULE Pairing -------------------------------
(* Linking the account to a phone. A caller asks for codes to scan          *)
(* (StartPairing) or for a code to type on the phone (PairPhone); the codes *)
(* and the outcome come on a channel of the WhatsApp library, which a       *)
(* goroutine of the daemon reads after the call has been answered.          *)
EXTENDS Integers, FiniteSets

CONSTANTS
    Scans,    \* attempts made by StartPairing
    Phones,   \* attempts made by PairPhone
    Together  \* sets of attempts that are made in one behaviour

Attempts == Scans \cup Phones

PairingAssumption ==
    IsFiniteSet(Attempts) /\ Scans \cap Phones = {} /\ Together \subseteq SUBSET Attempts

VARIABLES
    wired,   \* the library is connected
    linked,  \* the device store has an identity
    pairing, \* the flag of the client
    at,      \* the step of each call
    line,    \* the channel of each attempt: none, open, the outcome on it, shut
    code,    \* a code waits on the channel, before any outcome
    reader,  \* consumeQR: none, reading, holding a code or the outcome, done
    gone,    \* callers that have left
    stopped, \* the daemon is on its way down
    said     \* the outcomes reported

pairVars == <<wired, linked, pairing, at, line, code, reader, gone, stopped, said>>

PairInit ==
    /\ wired \in BOOLEAN /\ linked = FALSE /\ pairing = FALSE
    /\ \E made \in Together : at = [a \in Attempts |-> IF a \in made THEN "new" ELSE "over"]
    /\ line = [a \in Attempts |-> "none"]
    /\ code = [a \in Attempts |-> FALSE] /\ reader = [a \in Attempts |-> "none"]
    /\ gone = {} /\ stopped = FALSE /\ said = [a \in Attempts |-> "nothing"]

Move(a, s)  == at' = [at EXCEPT ![a] = s]
Outcomes    == {"success", "failure", "expired"}
Ready(a)    == code[a] \/ line[a] \in Outcomes \cup {"shut"}
Running(a)  == reader[a] \in {"reading", "code"} \cup Outcomes
Exchanging(a) ==
    Running(a) \/ at[a] \in {"taken", "cut", "channel", "connected"}

-----------------------------------------------------------------------------
(* Mutant: the flag is looked at, and set later.                            *)
TakesFlagLater(a) ==
    \/ /\ a \in Scans /\ at[a] = "new" /\ ~pairing /\ ~linked
       /\ Move(a, "taken") /\ UNCHANGED <<wired, pairing>>
    \/ /\ a \in Scans /\ at[a] = "taken"
       /\ pairing' = TRUE /\ wired' = FALSE /\ Move(a, "cut")

(* StartPairing takes the flag under the lock, or is refused; then it cuts  *)
(* the connection.                                                          *)
TakeFlag(a) ==
    \/ /\ a \in Scans /\ at[a] = "new" /\ ~pairing /\ ~linked
       /\ pairing' = TRUE /\ Move(a, "taken") /\ UNCHANGED wired
    \/ /\ a \in Scans /\ at[a] = "taken"
       /\ wired' = FALSE /\ Move(a, "cut") /\ UNCHANGED pairing

(* PairPhone does not look at the flag, and uses a connection that exists.  *)
PairPhone(a) ==
    /\ a \in Phones /\ at[a] = "new" /\ ~linked
    /\ Move(a, IF wired THEN "asking" ELSE "cut")
    /\ UNCHANGED <<wired, pairing>>

Begin(a) ==
    /\ \/ TakeFlag(a)
       \/ PairPhone(a)
       \/ /\ at[a] = "new" /\ (linked \/ (a \in Scans /\ pairing))
          /\ Move(a, "over") /\ UNCHANGED <<wired, pairing>>
    /\ UNCHANGED <<linked, line, code, reader, gone, stopped, said>>

(* Mutant: a call that fails keeps the flag.                                *)
KeepFlag(a) == Move(a, "over") /\ UNCHANGED pairing

(* A call that fails: StartPairing gives the flag back.                     *)
GiveUp(a) == Move(a, "over") /\ pairing' = (pairing /\ a \notin Scans)

(* GetQRChannel refuses a client that is connected or linked. The channel   *)
(* lives as long as the daemon.                                             *)
GetQRChannel(a) ==
    /\ at[a] = "cut"
    /\ \/ (wired \/ linked) /\ GiveUp(a) /\ UNCHANGED line
       \/ /\ ~wired /\ ~linked
          /\ Move(a, "channel") /\ line' = [line EXCEPT ![a] = "open"] /\ UNCHANGED pairing
    /\ UNCHANGED <<wired, linked, code, reader, gone, stopped, said>>

(* Connect: nothing to do when connected; a caller that has left is told so *)
(* after the connection is made, and its call fails.                        *)
Connect(a) ==
    /\ at[a] = "channel"
    /\ \/ ~wired /\ GiveUp(a) /\ UNCHANGED wired
       \/ ~wired /\ wired' = TRUE /\ (IF a \in gone THEN GiveUp(a)
                                      ELSE Move(a, "connected") /\ UNCHANGED pairing)
       \/ wired /\ Move(a, "connected") /\ UNCHANGED <<wired, pairing>>
    /\ UNCHANGED <<linked, line, code, reader, gone, stopped, said>>

(* StartPairing is answered and consumeQR begins to read. PairPhone waits   *)
(* for the first word of the channel, fifteen seconds at most, and sets the *)
(* flag itself.                                                             *)
Follow(a) ==
    /\ at[a] = "connected"
    /\ \/ /\ a \in Scans
          /\ Move(a, "over") /\ reader' = [reader EXCEPT ![a] = "reading"]
          /\ UNCHANGED <<pairing, line, code>>
       \/ /\ a \in Phones /\ Ready(a)
          /\ code' = [code EXCEPT ![a] = FALSE]
          /\ line' = [line EXCEPT ![a] = IF code[a] \/ @ = "open" THEN @ ELSE "shut"]
          /\ pairing' = TRUE
          /\ Move(a, "asking") /\ reader' = [reader EXCEPT ![a] = "reading"]
       \/ a \in Phones /\ Move(a, "over") /\ UNCHANGED <<pairing, line, code, reader>>
    /\ UNCHANGED <<wired, linked, gone, stopped, said>>

(* The library asks WhatsApp for the code to type, and the call is answered.*)
Ask(a) ==
    /\ at[a] = "asking" /\ Move(a, "over")
    /\ UNCHANGED <<wired, linked, pairing, line, code, reader, gone, stopped, said>>

CallStep(a) == Begin(a) \/ GetQRChannel(a) \/ Connect(a) \/ Follow(a) \/ Ask(a)

-----------------------------------------------------------------------------
(* Mutant: the exchange runs under the context of the request.              *)
RequestIsOver(a) == stopped \/ a \in gone

(* pairingLifetime: the exchange ends with the daemon.                      *)
LifetimeIsOver(a) == stopped

Finish(a) == reader' = [reader EXCEPT ![a] = "done"] /\ pairing' = FALSE

(* consumeQR takes what is on the channel, or sees the shutdown; both may   *)
(* be ready, and what was taken during the shutdown is not reported.        *)
consumeQR(a) ==
    /\ \/ /\ reader[a] = "reading" /\ LifetimeIsOver(a)
          /\ Finish(a) /\ UNCHANGED <<line, code, said>>
       \/ /\ reader[a] = "reading" /\ code[a]
          /\ reader' = [reader EXCEPT ![a] = "code"] /\ code' = [code EXCEPT ![a] = FALSE]
          /\ UNCHANGED <<pairing, line, said>>
       \/ /\ reader[a] = "reading" /\ ~code[a] /\ line[a] \in Outcomes
          /\ reader' = [reader EXCEPT ![a] = line[a]] /\ line' = [line EXCEPT ![a] = "shut"]
          /\ UNCHANGED <<pairing, code, said>>
       \/ /\ reader[a] = "reading" /\ ~code[a] /\ line[a] = "shut"
          /\ Finish(a) /\ UNCHANGED <<line, code, said>>
       \/ /\ reader[a] \in {"code"} \cup Outcomes /\ LifetimeIsOver(a)
          /\ Finish(a) /\ UNCHANGED <<line, code, said>>
       \/ /\ reader[a] \in {"code"} \cup Outcomes /\ ~LifetimeIsOver(a)
          /\ said' = [said EXCEPT ![a] = IF reader[a] = "code" THEN @ ELSE reader[a]]
          /\ IF reader[a] \in {"success", "failure"} THEN Finish(a)
             ELSE reader' = [reader EXCEPT ![a] = "reading"] /\ UNCHANGED pairing
          /\ UNCHANGED <<line, code>>
    /\ UNCHANGED <<wired, linked, at, gone, stopped>>

-----------------------------------------------------------------------------
(* The library draws a code for every open channel. What comes on a channel *)
(* that nobody reads any more is left out.                                  *)
Read(a) == at[a] # "over" \/ Running(a)

Draw(a) ==
    /\ Read(a) /\ line[a] = "open" /\ wired /\ ~code[a] /\ ~linked
    /\ code' = [code EXCEPT ![a] = TRUE]
    /\ UNCHANGED <<wired, linked, pairing, at, line, reader, gone, stopped, said>>

(* The codes of a channel run out, or an error ends it.                     *)
RunOut(a) ==
    /\ Read(a) /\ line[a] = "open"
    /\ \E o \in {"failure", "expired"} : line' = [line EXCEPT ![a] = o]
    /\ UNCHANGED <<wired, linked, pairing, at, code, reader, gone, stopped, said>>

(* The phone accepts: every open channel hears of it.                       *)
Accept ==
    /\ wired /\ ~linked /\ \E a \in Attempts : Read(a) /\ line[a] = "open"
    /\ linked' = TRUE
    /\ line' = [a \in Attempts |-> IF line[a] = "open" THEN "success" ELSE line[a]]
    /\ UNCHANGED <<wired, pairing, at, code, reader, gone, stopped, said>>

(* The connection drops: the library ends the open channels as it does when *)
(* the codes run out.                                                       *)
Drop ==
    /\ wired /\ (\E a \in Attempts : Read(a)) /\ wired' = FALSE
    /\ line' = [a \in Attempts |-> IF line[a] = "open" THEN "expired" ELSE line[a]]
    /\ UNCHANGED <<linked, pairing, at, code, reader, gone, stopped, said>>

(* A client may leave before its call is answered, or after.                *)
LeaveEarly(a) ==
    /\ a \notin gone /\ (at[a] = "channel" \/ reader[a] = "reading")
    /\ gone' = gone \cup {a}
    /\ UNCHANGED <<wired, linked, pairing, at, line, code, reader, stopped, said>>

Shutdown ==
    /\ ~stopped /\ (\E a \in Attempts : Read(a)) /\ stopped' = TRUE
    /\ UNCHANGED <<wired, linked, pairing, at, line, code, reader, gone, said>>

PairNext ==
    \/ \E a \in Attempts : \/ CallStep(a) \/ consumeQR(a) \/ Draw(a) \/ RunOut(a)
                           \/ LeaveEarly(a)
    \/ Accept \/ Drop \/ Shutdown

PairSpec == PairInit /\ [][PairNext]_pairVars

-----------------------------------------------------------------------------
PairTypeOK ==
    /\ wired \in BOOLEAN /\ linked \in BOOLEAN /\ pairing \in BOOLEAN /\ stopped \in BOOLEAN
    /\ at \in [Attempts -> {"new", "taken", "cut", "channel", "connected", "asking", "over"}]
    /\ line \in [Attempts -> {"none", "open", "shut"} \cup Outcomes]
    /\ code \in [Attempts -> BOOLEAN]
    /\ reader \in [Attempts -> {"none", "reading", "code", "done"} \cup Outcomes]
    /\ gone \in SUBSET Attempts
    /\ said \in [Attempts -> {"nothing"} \cup Outcomes]

(* A refused or failed attempt, or an exchange that has ended, does not     *)
(* leave the flag behind: while pairing is in progress for the client, some *)
(* attempt holds it, so that a later one is not refused for ever.           *)
FlagHasAHolder == pairing => \E a \in Attempts : Exchanging(a)

(* Two callers that ask for codes at the same time do not cut each other's  *)
(* exchange: one of them is refused. (PairPhone does not look at the flag,  *)
(* and its reader clears it, so the claim is about callers of StartPairing.)*)
OneExchangeOfCodes ==
    (\A p \in Phones : at[p] = "over" /\ reader[p] = "none") =>
        \A a, b \in Scans : (Exchanging(a) /\ Exchanging(b)) => a = b

(* The exchange belongs to the daemon: whoever asked for codes and was      *)
(* answered may leave. Its reader ends only with the outcome reported, or   *)
(* with the daemon.                                                         *)
AnsweredExchangeIsReported ==
    \A a \in Scans : reader[a] = "done" => (said[a] # "nothing" \/ stopped)

(* Attempts to link the account do not cut each other, block each other, or *)
(* end unheard.                                                             *)
ExchangesAreOrderly == FlagHasAHolder /\ OneExchangeOfCodes /\ AnsweredExchangeIsReported

=============================================================================
