------------------------------ MODULE AppState ------------------------------
(* One collection of account settings, kept in step with WhatsApp. Changes  *)
(* are fetched one after the other and verified against a hash. A copy that *)
(* no longer verifies is fetched whole; when that does not verify either,   *)
(* only the phone can help, and is asked for a plain copy. Two callers do   *)
(* this: the sweep after a connection, and a change the reader makes here.  *)
EXTENDS Integers

CONSTANTS
    MaxTroubles, \* how often a copy drifts, a call or a request fails, the daemon restarts
    MaxRequests, \* requests of earlier days that are told apart
    None         \* no step under way

Callers == {"sweep", "change"}

Steps   == {"back-fill", "catch up", "refetch", "send", "fetch", "resend", "recover", "ask",
            "record"}

AppStateAssumption == MaxTroubles \in Nat /\ MaxRequests \in Nat \ {0} /\ None \notin Steps

VARIABLES
    copy,     \* the collection here: "sound", "drifted", "torn" when only part came, "empty"
    served,   \* whether the whole collection WhatsApp serves verifies
    key,      \* the key of the collection has come
    done,     \* the back-fill mark
    noted,    \* app_state_recovery: the phone was asked within a day
    stage,    \* the step each caller has reached
    then,     \* and where it goes from recoverAppState
    requests, \* recovery requests the phone has not answered
    troubles,
    asks,     \* history: requests sent within a day
    crashes,  \* history: restarts
    whole     \* history: the collection was here as a whole

account == <<copy, served, key, done, whole>>
calls   == <<stage, then>>
vars    == <<account, noted, calls, requests, troubles, asks, crashes>>

Init ==
    /\ copy = "empty"
    /\ served \in {"sound", "broken"} /\ key \in BOOLEAN
    /\ done = FALSE /\ noted = FALSE /\ whole = FALSE
    /\ stage = [c \in Callers |-> None] /\ then = [c \in Callers |-> None]
    /\ requests = 0 /\ troubles = 0 /\ asks = 0 /\ crashes = 0

At(c, s)   == stage[c] = s
Go(c, s)   == stage' = [stage EXCEPT ![c] = s] /\ UNCHANGED then
Trouble    == troubles < MaxTroubles /\ troubles' = troubles + 1

-----------------------------------------------------------------------------
(* Fetching. *)

(* The whole collection replaces the copy; AppStateSyncComplete marks it.   *)
Whole ==
    /\ copy' = "sound" /\ done' = TRUE /\ whole' = TRUE
    /\ UNCHANGED <<served, key>>

(* One that does not verify has been applied up to where it failed.         *)
Torn == copy' = "torn" /\ UNCHANGED <<served, key, done, whole>>

(* fetch(name, true): all of it.                                            *)
FetchWhole(c, onSuccess, onMismatch, onError) ==
    \/ key /\ served = "sound" /\ Whole /\ Go(c, onSuccess)
    \/ key /\ served = "broken" /\ Torn
       /\ IF onMismatch = "recover"
          THEN stage' = [stage EXCEPT ![c] = "recover"] /\ then' = [then EXCEPT ![c] = onError]
          ELSE Go(c, onMismatch)
    \/ ~key /\ UNCHANGED account /\ Go(c, onError)

(* fetch(name, false): what is new.                                         *)
FetchNew(c, onSuccess, onMismatch, onError) ==
    \/ /\ key /\ copy \in {"sound", "empty"}
       /\ copy' = "sound" /\ UNCHANGED <<served, key, done, whole>> /\ Go(c, onSuccess)
    \/ key /\ copy \in {"drifted", "torn"} /\ UNCHANGED account /\ Go(c, onMismatch)
    \/ ~key /\ UNCHANGED account /\ Go(c, onError)

Rest == UNCHANGED <<noted, requests, troubles, asks, crashes>>

-----------------------------------------------------------------------------
(* The sweep of a connection. *)

Connected ==
    /\ At("sweep", None) /\ Go("sweep", "back-fill")
    /\ UNCHANGED account /\ Rest

(* Once; while the phone prepares a copy the collection is left alone.      *)
backfillAppState ==
    /\ At("sweep", "back-fill") /\ Rest
    /\ IF done \/ noted THEN UNCHANGED account /\ Go("sweep", "catch up")
       ELSE FetchWhole("sweep", "catch up", "recover", "catch up")

(* Mutant: once the phone has been asked the back-fill counts as done.      *)
catchUpMarksDone ==
    /\ At("sweep", "catch up") /\ Rest
    /\ IF noted THEN done' = TRUE /\ UNCHANGED <<copy, served, key, whole>>
                        /\ Go("sweep", None)
       ELSE FetchNew("sweep", None, "refetch", None)

(* Mutant: a collection that does not verify is left for the next time.     *)
catchUpGivesUp ==
    /\ At("sweep", "catch up") /\ Rest
    /\ IF noted THEN UNCHANGED account /\ Go("sweep", None)
       ELSE FetchNew("sweep", None, None, None)

catchUpAppState ==
    /\ At("sweep", "catch up") /\ Rest
    /\ IF noted THEN UNCHANGED account /\ Go("sweep", None)
       ELSE FetchNew("sweep", None, "refetch", None)

catchUpWhole ==
    /\ At("sweep", "refetch") /\ Rest
    /\ FetchWhole("sweep", None, "recover", None)

-----------------------------------------------------------------------------
(* A change made here. *)

Change ==
    /\ At("change", None) /\ key
    /\ Go("change", "send") /\ UNCHANGED account /\ Rest

(* A copy that is behind is caught up by the library; one that does not     *)
(* verify is a conflict, which is worth one fresh copy and one more try.    *)
sendAppStatePatch(s, onConflict) ==
    /\ At("change", s) /\ Rest
    /\ IF copy \in {"sound", "empty"}
       THEN copy' = "sound" /\ UNCHANGED <<served, key, done, whole>> /\ Go("change", None)
       ELSE UNCHANGED account /\ Go("change", onConflict)

Resync ==
    /\ At("change", "fetch") /\ Rest
    /\ FetchWhole("change", "resend", "recover", None)

-----------------------------------------------------------------------------
(* recoverAppState: the phone is asked unless it was within a day; the      *)
(* request is recorded once it has been sent.                               *)

Leave(c) == stage' = [stage EXCEPT ![c] = then[c]] /\ then' = [then EXCEPT ![c] = None]

CheckAsked(c) ==
    /\ At(c, "recover")
    /\ IF noted THEN Leave(c) ELSE Go(c, "ask")
    /\ UNCHANGED account /\ Rest

AskPhone(c) ==
    /\ At(c, "ask") /\ Go(c, "record")
    /\ requests' = (IF requests < MaxRequests THEN requests + 1 ELSE requests)
    /\ asks' = asks + 1
    /\ UNCHANGED <<account, noted, troubles, crashes>>

(* Mutant: the request is not recorded.                                     *)
RecordNothing(c) ==
    /\ At(c, "record") /\ Leave(c)
    /\ UNCHANGED <<account, noted, requests, troubles, asks, crashes>>

RecordAsked(c) ==
    /\ At(c, "record") /\ Leave(c)
    /\ noted' = TRUE
    /\ UNCHANGED <<account, requests, troubles, asks, crashes>>

-----------------------------------------------------------------------------
(* The world. *)

(* The phone's copy is applied as it comes (handleAppStateSyncComplete).    *)
PhoneAnswers ==
    /\ requests > 0 /\ requests' = requests - 1
    /\ Whole
    /\ UNCHANGED <<noted, calls, troubles, asks, crashes>>

DayPasses ==
    /\ noted \/ asks > 0
    /\ \A c \in Callers : ~At(c, "record")
    /\ noted' = FALSE /\ asks' = 0
    /\ UNCHANGED <<account, calls, requests, troubles, crashes>>

KeyComes ==
    /\ ~key /\ key' = TRUE
    /\ UNCHANGED <<copy, served, done, whole, noted, calls, requests, troubles, asks, crashes>>

Drift ==
    /\ copy = "sound" /\ copy' = "drifted" /\ Trouble
    /\ UNCHANGED <<served, key, done, whole, noted, calls, requests, asks, crashes>>

(* A fetch or a change that WhatsApp cannot be reached for, a request that  *)
(* cannot be sent.                                                          *)
Unreachable(c) ==
    /\ stage[c] \in Steps \ {"recover", "record"} /\ Trouble
    /\ IF At(c, "ask") THEN Leave(c)
       ELSE Go(c, IF At(c, "back-fill") THEN "catch up" ELSE None)
    /\ UNCHANGED <<account, noted, requests, asks, crashes>>

RequestLost ==
    /\ requests > 0 /\ requests' = requests - 1 /\ Trouble
    /\ UNCHANGED <<account, noted, calls, asks, crashes>>

Restart ==
    /\ stage' = [c \in Callers |-> None] /\ then' = [c \in Callers |-> None]
    /\ crashes' = crashes + 1 /\ Trouble
    /\ UNCHANGED <<account, noted, requests, asks>>

Sweep == backfillAppState \/ catchUpAppState \/ catchUpWhole
Recover(c) == CheckAsked(c) \/ AskPhone(c) \/ RecordAsked(c)
SweepGoesOn == Connected \/ Sweep \/ Recover("sweep")

Next ==
    \/ Connected \/ Sweep
    \/ Change \/ sendAppStatePatch("send", "fetch") \/ Resync \/ sendAppStatePatch("resend", None)
    \/ \E c \in Callers : Recover(c)
    \/ PhoneAnswers \/ DayPasses \/ KeyComes
    \/ Drift \/ RequestLost \/ Restart
    \/ \E c \in Callers : Unreachable(c)

(* Connections recur, and the goroutine of each goes on; the phone answers  *)
(* what reaches it, the key comes, and days pass.                           *)
Spec ==
    /\ Init /\ [][Next]_vars
    /\ WF_vars(SweepGoesOn) /\ WF_vars(Recover("change"))
    /\ WF_vars(PhoneAnswers) /\ WF_vars(KeyComes) /\ WF_vars(DayPasses)

-----------------------------------------------------------------------------
TypeOK ==
    /\ copy \in {"sound", "drifted", "torn", "empty"}
    /\ stage \in [Callers -> Steps \cup {None}]
    /\ requests \in 0 .. MaxRequests /\ troubles \in 0 .. MaxTroubles

(* The back-fill is marked as done only after the collection was here as a  *)
(* whole, whoever fetched it, asked for it or was interrupted.              *)
MarkIsEarned == done => whole

(* The phone is never asked again within a day, but for two callers that    *)
(* look before either has recorded its request, and for requests a restart  *)
(* kept from being recorded.                                                *)
PhoneIsNotPestered == asks <= 2 * (1 + crashes)

(* A copy that stopped applying does not stay so: the collection is whole   *)
(* again in the end, also when WhatsApp serves one that does not verify.    *)
DriftIsMended == copy \in {"drifted", "torn"} ~> copy = "sound"

(* A collection that drifted is mended, without asking the phone over and   *)
(* over and without a mark that was not earned.                             *)
DriftIsMendedQuietly == []MarkIsEarned /\ []PhoneIsNotPestered /\ DriftIsMended

=============================================================================
