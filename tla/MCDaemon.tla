------------------------------ MODULE MCDaemon ------------------------------
(* The daemons of a machine, one connection of a client to a daemon, the    *)
(* conversation on screen of the terminal client, the account that moves    *)
(* between machines, and the releases a daemon looks for. They share no     *)
(* state, so a behaviour looks at one of the five.                          *)
EXTENDS DaemonSocket

CONSTANTS
    Callers, Nobody, Slots, Buffer, Pipe, MaxRequests, MaxEvents,
    Machines, Home, MaxMessages, MaxMishaps,
    Looks, MaxRelease, MaxRefusals,
    Rooms, Busy, Page, Most, SeekPages, FirstHeld, LastHeld, Ours, MaxNumber, MaxOpens, MaxActs,
    MaxCalls

VARIABLES
    looking,  \* at what this behaviour looks
    follows, asking, turn, next, broken, left, sent, pipe, held, slots, working, ready, reading,
    cancelled, subscribed, pumping, queue, pumped, published, heard, dropped, spent,
    identity, history, retired, serving, leaving, inHand, taken, export, archive, import, half,
    lost, troubles,
    released, look, latest, limited, downloading, transfer, file, downloaded, discards, refusals,
    first, last, ours, stream, calls, ui, acked, keys, failures

Connection == INSTANCE RPCConnection
Transfer   == INSTANCE ProfileTransfer WITH MaxTroubles <- MaxMishaps
Releases   == INSTANCE Updates
Terminal   == INSTANCE TerminalChat

ASSUME DaemonsAssumption == SocketAssumption
ASSUME CallsAssumption   == Connection!ConnectionAssumption
ASSUME MovesAssumption   == Transfer!TransferAssumption
ASSUME LooksAssumption   == Releases!UpdatesAssumption
ASSUME ScreenAssumption  == Terminal!TerminalAssumption

connectionVars ==
    <<follows, asking, turn, next, broken, left, sent, pipe, held, slots, working, ready, reading,
      cancelled, subscribed, pumping, queue, pumped, published, heard, dropped, spent>>
accountVars ==
    <<identity, history, retired, serving, leaving, inHand, taken, export, archive, import, half,
      lost, troubles>>
releaseVars ==
    <<released, look, latest, limited, downloading, transfer, file, downloaded, discards, refusals>>
screenVars == <<first, last, ours, stream, calls, ui, acked, keys, failures>>

DaemonInit ==
    /\ looking \in {"socket", "connection", "account", "releases", "screen"}
    /\ Init /\ Connection!Init /\ Transfer!Init /\ Releases!Init /\ Terminal!Init
    /\ looking # "socket" => socket = None
    /\ looking # "connection" => ~follows

DaemonNext ==
    /\ UNCHANGED looking
    /\ \/ /\ looking = "socket" /\ Next
          /\ UNCHANGED <<connectionVars, accountVars, releaseVars, screenVars>>
       \/ /\ looking = "connection" /\ Connection!Next
          /\ UNCHANGED <<vars, accountVars, releaseVars, screenVars>>
       \/ /\ looking = "account" /\ Transfer!Next
          /\ UNCHANGED <<vars, connectionVars, releaseVars, screenVars>>
       \/ /\ looking = "releases" /\ Releases!Next
          /\ UNCHANGED <<vars, connectionVars, accountVars, screenVars>>
       \/ /\ looking = "screen" /\ Terminal!Next
          /\ UNCHANGED <<vars, connectionVars, accountVars, releaseVars>>

(* The fairness of the five modules, each for the behaviours that look at  *)
(* it.                                                                      *)
DaemonFairness ==
    /\ \A d \in Daemons : WF_vars(looking = "socket" /\ DaemonStep(d))
    /\ \A c \in Calls : WF_vars(looking = "socket" /\ ServeStep(c))
    /\ WF_connectionVars(looking = "connection" /\ Connection!Decode)
    /\ WF_connectionVars(looking = "connection" /\ Connection!TakeSlot)
    /\ WF_connectionVars(looking = "connection" /\ Connection!End)
    /\ WF_connectionVars(looking = "connection" /\ Connection!Pump)
    /\ WF_connectionVars(looking = "connection" /\ Connection!Tell)
    /\ WF_connectionVars(looking = "connection" /\ Connection!ClientStep)
    /\ \A r \in 1 .. MaxRequests :
          /\ WF_connectionVars(looking = "connection" /\ Connection!Handle(r))
          /\ WF_connectionVars(looking = "connection" /\ Connection!Respond(r))
    /\ \A m \in Machines :
          /\ WF_accountVars(looking = "account" /\ Transfer!Store(m))
          /\ WF_accountVars(looking = "account" /\ Transfer!Shutdown(m))
    /\ \A l \in Looks : WF_releaseVars(looking = "releases" /\ Releases!CheckStep(l))
    /\ WF_releaseVars(looking = "releases" /\ Releases!WindowPasses)
    /\ WF_releaseVars(looking = "releases" /\ Releases!FetchStep)
    /\ WF_screenVars(looking = "screen" /\ \E c \in calls : Terminal!Answer(c) \/ Terminal!Fail(c))
    /\ WF_screenVars(looking = "screen" /\ \E c \in calls : Terminal!Take(c))
    /\ WF_screenVars(looking = "screen" /\ Terminal!NextEvent)

DaemonSpec ==
    /\ DaemonInit
    /\ [][DaemonNext]_<<looking, vars, connectionVars, accountVars, releaseVars, screenVars>>
    /\ DaemonFairness

(* The variables of the five parts stay in their types.                    *)
DaemonTypeOK == TypeOK /\ Connection!TypeOK /\ Transfer!TypeOK /\ Releases!TypeOK
                /\ Terminal!TypeOK

(* RPCConnection: what a connection promises; and the time a call is        *)
(* promised, which it does not always have.                                 *)
ConnectionIsFaithful    == Connection!ConnectionIsFaithful
QueuedCallGetsItsBudget == Connection!QueuedCallGetsItsBudget

(* ProfileTransfer, and Updates: the file offered is that of the release    *)
(* offered, a download ends, and the newest release is offered.             *)
AccountMovesWhole == Transfer!AccountMovesWhole
OfferIsTheLatest  ==
    /\ []Releases!OfferedFileIsTheLatest /\ Releases!DownloadIsGivenBack
    /\ looking = "releases" => Releases!NewestIsOffered

(* TerminalChat: what is on screen, reading back and searching; and the     *)
(* reader's place, which is not always kept.                                *)
ScreenFollowsTheReader == Terminal!ScreenFollowsTheReader
ReaderKeepsPlace       == Terminal!ReaderKeepsPlace

=============================================================================
