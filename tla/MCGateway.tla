----------------------------- MODULE MCGateway ------------------------------
(* What the gateway does in the background while it is connected: the sweep *)
(* of a connection, the account's settings, the file of a message, the      *)
(* alerts of what arrives, and the linking of the account. They share no    *)
(* state, so a behaviour looks at one of the five.                          *)
EXTENDS MediaFetch, Pairing

CONSTANTS Pages, Rounds, MaxRestarts, Unmarked, MaxTroubles, MaxRequests,
          Alerts, Chats, Limits, ServerRoom, MaxTracked, MaxMishaps

VARIABLES
    looking,  \* at what this behaviour looks
    connected, behind, sweep, round, before, empty, stored, asked, flight, mark, restarts, looked,
    copy, served, key, done, noted, stage, then, requests, troubles, asks, crashes, whole,
    maxLive, about, claimed, state, poster, given, closing, live, chatNote, actions,
    screen, others, signals, lastId, mishaps, rung, told, strays

Connection == INSTANCE ConnectSweep
Account    == INSTANCE AppState
Desk       == INSTANCE Notifications WITH Nothing <- None

ASSUME ConnectionAssumption == Connection!SweepAssumption
ASSUME AccountAssumption    == Account!AppStateAssumption
ASSUME AlertsAssumption     == Desk!NotificationsAssumption
ASSUME LinkingAssumption    == PairingAssumption

connectionVars ==
    <<connected, behind, sweep, round, before, empty, stored, asked, flight, mark, restarts,
      looked>>
accountVars ==
    <<copy, served, key, done, noted, stage, then, requests, troubles, asks, crashes, whole>>
alertVars ==
    <<maxLive, about, claimed, state, poster, given, closing, live, chatNote, actions,
      screen, others, signals, lastId, mishaps, rung, told, strays>>

GatewayInit ==
    /\ looking \in {"sweep", "account", "file", "alerts", "linking"}
    /\ Init /\ Connection!Init /\ Account!Init /\ Desk!Init /\ PairInit
    /\ looking # "alerts" => /\ maxLive = CHOOSE n \in Limits : TRUE
                             /\ about = [a \in Alerts |-> CHOOSE c \in Chats : TRUE]
    /\ looking # "sweep" => ~empty
    /\ looking # "account" => served = "sound" /\ key
    /\ looking # "file" => serves = {}
    /\ looking # "linking" => ~wired /\ at = [a \in Attempts |-> "over"]

GatewayNext ==
    /\ UNCHANGED looking
    /\ \/ looking = "file" /\ Next
          /\ UNCHANGED <<connectionVars, accountVars, alertVars, pairVars>>
       \/ looking = "sweep" /\ Connection!Next
          /\ UNCHANGED <<vars, accountVars, alertVars, pairVars>>
       \/ looking = "account" /\ Account!Next
          /\ UNCHANGED <<vars, connectionVars, alertVars, pairVars>>
       \/ looking = "alerts" /\ Desk!Next
          /\ UNCHANGED <<vars, connectionVars, accountVars, pairVars>>
       \/ looking = "linking" /\ PairNext
          /\ UNCHANGED <<vars, connectionVars, accountVars, alertVars>>

(* The fairness of four of the modules, each for the behaviours that look   *)
(* at it; nothing eventual is claimed of the linking.                       *)
GatewayFairness ==
    /\ \A d \in Downloads : WF_vars(looking = "file" /\ Download(d))
    /\ WF_connectionVars(looking = "sweep" /\ Connection!SweepStep)
    /\ WF_connectionVars(looking = "sweep" /\ Connection!Connected)
    /\ WF_accountVars(looking = "account" /\ Account!SweepGoesOn)
    /\ WF_accountVars(looking = "account" /\ Account!Recover("change"))
    /\ WF_accountVars(looking = "account" /\ Account!PhoneAnswers)
    /\ WF_accountVars(looking = "account" /\ Account!KeyComes)
    /\ WF_accountVars(looking = "account" /\ Account!DayPasses)
    /\ \A a \in Alerts : SF_alertVars(looking = "alerts" /\ Desk!Goroutine(a))
    /\ WF_alertVars(looking = "alerts" /\ Desk!CloseNotification)
    /\ WF_alertVars(looking = "alerts" /\ Desk!watchActions)

GatewaySpec ==
    /\ GatewayInit
    /\ [][GatewayNext]_<<looking, vars, connectionVars, accountVars, alertVars, pairVars>>
    /\ GatewayFairness

(* The variables of the five parts stay in their types.                    *)
GatewayTypeOK ==
    TypeOK /\ Connection!TypeOK /\ Account!TypeOK /\ Desk!TypeOK /\ PairTypeOK

(* ConnectSweep: a sweep ends well; and it catches up with every change,    *)
(* which it does not always.                                                *)
SweepsEndWell      == Connection!SweepsEndWell
ChangesAreCaughtUp == looking = "sweep" => Connection!ChangesAreCaughtUp

(* The collections of settings and the alerts. The files are MediaFetch and *)
(* the linking is Pairing, which this module extends.                       *)
DriftIsMendedQuietly == Account!DriftIsMendedQuietly
NotesReachTheReader  == Desk!NotesReachTheReader

=============================================================================
