---------------------------- MODULE DaemonProofs ----------------------------
(* What MCDaemon checks of two daemons, one call, a few requests, events,   *)
(* machines, releases, conversations and messages, for any number of them:  *)
(* the daemons of a machine and the launcher (DaemonSocket), a connection   *)
(* (RPCConnection), the account that moves (ProfileTransfer), the releases  *)
(* (Updates) and the conversation on screen (TerminalChat).                 *)
EXTENDS MCDaemon, FiniteSetTheorems, SequenceTheorems, WellFoundedInduction, TLAPS

-----------------------------------------------------------------------------
(* The daemons of a machine.                                                *)

Binding   == {"off", "look", "dial", "remove", "bind"}
Listening == {"chmod", "watch", "serve", "close"}

(* A listener is open from the bind until the daemon closes it.             *)
OpenInv == \A d \in open : step[d] \in Listening

(* Who listened at a probe had bound, and a daemon binds once.              *)
BeforeInv == \A e, d \in Daemons : <<e, d>> \in before => step[e] \notin Binding

(* After a probe that nobody answered: who listened then has closed or has  *)
(* lost the path, and neither can be undone.                                *)
SparedInv ==
    \A d \in Daemons \ refused :
        step[d] = "remove" => ~(<<socket, d>> \in before /\ socket \in open)

(* The launcher remembers the only one of its daemons that may run.         *)
LaunchedInv == \A d \in launched : d = own /\ step[d] # "gone"

SocketInv == TypeOK /\ OpenInv /\ BeforeInv /\ SparedInv /\ LaunchedInv

LEMMA InitSocket == ASSUME SocketAssumption, Init PROVE SocketInv
<1>1. TypeOK
    BY DEF SocketAssumption, Init, TypeOK, Steps, Starting, Closing, NoLine
<1> QED
    BY <1>1 DEF Init, SocketAssumption, SocketInv, OpenInv, BeforeInv, SparedInv, LaunchedInv

-----------------------------------------------------------------------------
(* Types.                                                                   *)
LEMMA EndKeepsTypes ==
    ASSUME TypeOK, NEW cs, End(cs)
    PROVE  /\ line' \in [Calls -> Line \cup {NoLine}]
           /\ late' \subseteq Calls
           /\ call' \in [Calls -> {"out", "lock", "start", "wait", "in"}]
BY DEF TypeOK, End

LEMMA ExitKeepsTypes ==
    ASSUME TypeOK, NEW d \in Daemons, Exit(d), socket' \in Daemons \cup {None, Dead},
           misfires' \in 0 .. MaxTroubles
    PROVE  TypeOK'
<1>1. PICK cs : End(cs) BY DEF Exit
<1>2. /\ line' \in [Calls -> Line \cup {NoLine}] /\ late' \subseteq Calls
      /\ call' \in [Calls -> {"out", "lock", "start", "wait", "in"}]
    BY <1>1, EndKeepsTypes
<1>3. step' \in [Daemons -> Steps]
    BY DEF TypeOK, Exit, Go, Steps
<1>4. /\ open' \subseteq Daemons /\ told' \subseteq Daemons /\ refused' \subseteq Daemons
      /\ launched' \subseteq Daemons /\ own' \in Daemons \cup {None}
      /\ bound' \in [Daemons -> Daemons \cup {None, Dead}] /\ before' \subseteq (Daemons \X Daemons)
    BY DEF TypeOK, Exit
<1> QED BY <1>2, <1>3, <1>4 DEF TypeOK

LEMMA DaemonKeepsTypes ==
    ASSUME SocketAssumption, TypeOK, NEW d \in Daemons,
           Start(d) \/ DaemonStep(d) \/ ProbeTimesOut(d) \/ Tell(d) \/ Crash(d)
    PROVE  TypeOK'
<1>a. misfires < MaxTroubles => misfires + 1 \in 0 .. MaxTroubles
    BY DEF SocketAssumption, TypeOK
<1>1. CASE Start(d) \/ Look(d) \/ ProbeRefused(d) \/ Tell(d) \/ Stop(d) \/ Wait(d)
    <2>1. CASE Start(d) \/ Tell(d)
        BY <2>1 DEF TypeOK, Start, Tell, Go, Steps, Starting, Closing, bridge, Reachable
    <2>2. CASE Look(d) \/ ProbeRefused(d)
        BY <2>2 DEF TypeOK, Look, ProbeRefused, Go, GoOnToRemove, Steps, Starting, Closing, bridge,
                    Reachable
    <2>3. CASE Stop(d) \/ Wait(d)
        BY <2>3 DEF TypeOK, Stop, Wait, Go, GoOnToClose, Steps, Starting, Closing, bridge, Reachable
    <2> QED BY <1>1, <2>1, <2>2, <2>3
<1>2. CASE ProbeTimesOut(d)
    BY <1>2, <1>a DEF TypeOK, ProbeTimesOut, Go, GoOnToRemove, Steps, Starting, Closing, bridge
<1>3. CASE watchListener(d)
    BY <1>3 DEF TypeOK, watchListener, Go, Steps, Starting, Closing, bridge
<1>4. CASE ProbeAnswered(d)
    BY <1>4, ExitKeepsTypes DEF TypeOK, ProbeAnswered
<1>5. CASE Remove(d)
    <2>1. CASE Exit(d) BY <1>5, <2>1, ExitKeepsTypes DEF TypeOK, Remove
    <2>2. CASE ~Exit(d)
        BY <1>5, <2>2 DEF TypeOK, Remove, Go, Steps, Starting, Closing, bridge
    <2> QED BY <2>1, <2>2
<1>6. CASE Bind(d)
    <2>1. CASE Exit(d) /\ socket' = socket
        BY <1>6, <2>1, ExitKeepsTypes DEF TypeOK, Bind
    <2>2. CASE ~(Exit(d) /\ socket' = socket)
        BY <1>6, <2>2 DEF TypeOK, Bind, Go, Steps, Starting, Closing, bridge
    <2> QED BY <2>1, <2>2
<1>7. CASE Chmod(d)
    <2>1. CASE Exit(d) BY <1>7, <2>1, ExitKeepsTypes DEF TypeOK, Chmod
    <2>2. CASE ~Exit(d)
        BY <1>7, <2>2 DEF TypeOK, Chmod, Go, Steps, Starting, Closing, bridge
    <2> QED BY <2>1, <2>2
<1>8. CASE CloseListener(d)
    <2>1. /\ line' \in [Calls -> Line \cup {NoLine}] /\ late' \subseteq Calls
          /\ call' \in [Calls -> {"out", "lock", "start", "wait", "in"}]
        BY <1>8, EndKeepsTypes DEF CloseListener
    <2>2. step' \in [Daemons -> Steps]
        BY <1>8 DEF TypeOK, CloseListener, Go, Steps, Closing
    <2> QED BY <1>8, <2>1, <2>2 DEF TypeOK, CloseListener
<1>9. CASE HangUp(d)
    <2>1. step' \in [Daemons -> Steps]
        BY <1>9 DEF TypeOK, HangUp, Go, Steps, Closing
    <2>2. line' \in [Calls -> Line \cup {NoLine}]
        <3> SUFFICES ASSUME NEW c \in Calls PROVE line'[c] \in Line \cup {NoLine}
            BY <1>9 DEF HangUp
        <3>1. CASE c \in Lines(d, {"served"})
            <4>1. line[c] \in Line BY <3>1 DEF Lines, TypeOK, NoLine
            <4>2. line'[c] = [line[c] EXCEPT !.stage = "ending"] BY <1>9, <3>1 DEF HangUp
            <4> QED BY <4>1, <4>2 DEF Line
        <3>2. CASE c \notin Lines(d, {"served"})
            BY <1>9, <3>2 DEF HangUp, TypeOK
        <3> QED BY <3>1, <3>2
    <2>3. call' \in [Calls -> {"out", "lock", "start", "wait", "in"}]
        BY <1>9 DEF TypeOK, HangUp
    <2> QED BY <1>9, <2>1, <2>2, <2>3 DEF TypeOK, HangUp
<1>10. CASE Unlink(d)
    BY <1>10, ExitKeepsTypes DEF TypeOK, Unlink
<1>11. CASE Crash(d)
    BY <1>11, <1>a, ExitKeepsTypes DEF TypeOK, Crash
<1> QED
    BY <1>1, <1>2, <1>3, <1>4, <1>5, <1>6, <1>7, <1>8, <1>9, <1>10, <1>11 DEF DaemonStep

LEMMA ReachKeepsTypes ==
    ASSUME SocketAssumption, TypeOK, NEW c \in Calls, Reach(c)
    PROVE  TypeOK'
<1>1. [daemon |-> socket, stage |-> "queued"] \in Line
    BY DEF Reach, Reachable, TypeOK, Line
<1>2. line' \in [Calls -> Line \cup {NoLine}]
    BY <1>1 DEF Reach, TypeOK
<1> QED BY <1>2 DEF Reach, TypeOK, daemons

LEMMA CallKeepsTypes ==
    ASSUME SocketAssumption, TypeOK, NEW c \in Calls,
           \/ ServeStep(c) \/ connect(c) \/ DialAgain(c) \/ start(c) \/ waitForSocket(c)
           \/ Leave(c)
    PROVE  TypeOK'
<1>a. ASSUME NEW s \in {"accepted", "served", "ending"},
             line[c].stage \in {"queued", "accepted", "served"},
             line' = [line EXCEPT ![c].stage = s], line[c] # NoLine
      PROVE  line' \in [Calls -> Line \cup {NoLine}]
    <2>1. line[c] \in Line BY <1>a DEF TypeOK
    <2>2. [line[c] EXCEPT !.stage = s] \in Line BY <2>1, <1>a DEF Line
    <2> QED BY <1>a, <2>2 DEF TypeOK
<1>b. line[c].stage \in {"queued", "accepted", "served"} => line[c] # NoLine
    BY DEF NoLine
<1>1. CASE Accept(c)
    <2>1. line' \in [Calls -> Line \cup {NoLine}] BY <1>1, <1>a, <1>b DEF Accept
    <2> QED BY <1>1, <2>1 DEF TypeOK, Accept, daemons, bridge
<1>2. CASE Register(c)
    <2>1. line' \in [Calls -> Line \cup {NoLine}] BY <1>2, <1>a, <1>b DEF Register
    <2> QED BY <1>2, <2>1 DEF TypeOK, Register, daemons, bridge
<1>3. CASE RequestsEnd(c)
    <2>1. /\ line' \in [Calls -> Line \cup {NoLine}] /\ late' \subseteq Calls
          /\ call' \in [Calls -> {"out", "lock", "start", "wait", "in"}]
        BY <1>3, EndKeepsTypes DEF RequestsEnd
    <2> QED BY <1>3, <2>1 DEF TypeOK, RequestsEnd, daemons
<1>4. CASE connect(c)
    <2>1. CASE Reach(c) BY <2>1, ReachKeepsTypes
    <2>2. CASE ~Reach(c) BY <1>4, <2>2 DEF TypeOK, connect, daemons
    <2> QED BY <2>1, <2>2
<1>5. CASE DialAgain(c)
    <2>1. CASE Reach(c) BY <2>1, ReachKeepsTypes
    <2>2. CASE ~Reach(c) BY <1>5, <2>2 DEF TypeOK, DialAgain, daemons
    <2> QED BY <2>1, <2>2
<1>6. CASE start(c)
    BY <1>6 DEF TypeOK, start, Go, Steps, Starting
<1>7. CASE waitForSocket(c)
    <2>1. CASE Reach(c) BY <2>1, ReachKeepsTypes
    <2>2. CASE ~Reach(c) BY <1>7, <2>2 DEF TypeOK, waitForSocket, daemons
    <2> QED BY <2>1, <2>2
<1>8. CASE Leave(c)
    <2>1. line' \in [Calls -> Line \cup {NoLine}] BY <1>8, <1>a, <1>b DEF Leave
    <2> QED BY <1>8, <2>1 DEF TypeOK, Leave, daemons
<1> QED BY <1>1, <1>2, <1>3, <1>4, <1>5, <1>6, <1>7, <1>8 DEF ServeStep

-----------------------------------------------------------------------------
(* What a step can do to the path and to the steps of the daemons.          *)

(* A daemon that leaves takes nothing from another.                         *)
LEMMA ExitKeepsSocket ==
    ASSUME SocketAssumption, SocketInv, TypeOK', NEW d \in Daemons, Exit(d),
           socket' \in {socket, None}
    PROVE  SocketInv'
<1> USE DEF SocketInv, TypeOK
<1>1. /\ step' = [step EXCEPT ![d] = "gone"] /\ open' = open \ {d}
      /\ launched' = launched \ {d} /\ refused' = refused \ {d}
      /\ before' = {p \in before : p[2] # d} /\ own' = own
    BY DEF Exit, Go
<1>2. OpenInv' BY <1>1 DEF OpenInv
<1>3. BeforeInv' BY <1>1 DEF BeforeInv, Binding
<1>4. SparedInv' BY <1>1 DEF SparedInv, SocketAssumption
<1>5. LaunchedInv' BY <1>1 DEF LaunchedInv
<1> QED BY <1>2, <1>3, <1>4, <1>5

LEMMA DaemonKeepsSocket ==
    ASSUME SocketAssumption, SocketInv, NEW d \in Daemons,
           Start(d) \/ DaemonStep(d) \/ ProbeTimesOut(d) \/ Tell(d) \/ Crash(d)
    PROVE  SocketInv'
<1> USE DEF SocketInv
<1>t. TypeOK' BY DaemonKeepsTypes
<1>1. CASE Exit(d)
    <2>1. socket' \in {socket, None}
        BY <1>1 DEF Start, DaemonStep, Look, ProbeAnswered, ProbeRefused, Remove, Bind, Chmod,
            watchListener, Stop, CloseListener, HangUp, Wait, Unlink, ProbeTimesOut, Tell, Crash,
            Exit, Go, TypeOK
    <2> QED BY <1>1, <1>t, <2>1, ExitKeepsSocket
<1>2. CASE \/ Start(d) \/ Look(d) \/ Tell(d) \/ watchListener(d) \/ Stop(d)
           \/ HangUp(d) \/ Wait(d)
    <2>1. /\ socket' = socket /\ open' = open /\ before' = before /\ refused' = refused
          /\ own' = own /\ launched' = launched
        BY <1>2 DEF Start, Look, Tell, watchListener, Stop, HangUp, Wait, bridge
    <2>2. /\ \A e \in Daemons : e # d => step'[e] = step[e]
          /\ step'[d] \in {"look", "dial", "bind", "close", "serve", "wait", "unlink", step[d]}
          /\ step[d] \in Listening => step'[d] \in Listening
          /\ step[d] \notin Binding => step'[d] \notin Binding
        BY <1>2 DEF TypeOK, Start, Look, Tell, watchListener, Stop, HangUp, Wait, Go,
                    GoOnToClose, Listening, Binding
    <2>3. \A e \in open : step'[e] \in Listening
        BY <2>2 DEF OpenInv, TypeOK
    <2>4. OpenInv' BY <2>1, <2>3 DEF OpenInv
    <2>5. BeforeInv' BY <2>1, <2>2 DEF BeforeInv, TypeOK
    <2>6. SparedInv' BY <2>1, <2>2 DEF SparedInv, TypeOK
    <2>7. LaunchedInv' BY <2>1, <2>2 DEF LaunchedInv, TypeOK
    <2> QED BY <1>t, <2>4, <2>5, <2>6, <2>7
<1>3. CASE ProbeRefused(d) \/ ProbeTimesOut(d)
    <2>1. /\ socket' = socket /\ open' = open
          /\ own' = own /\ launched' = launched
          /\ step[d] = "dial" /\ step' = [step EXCEPT ![d] = "remove"]
          /\ before' = before \cup (open \X {d})
          /\ \/ refused' = refused /\ socket \notin open
             \/ refused' = refused \cup {d}
        BY <1>3 DEF ProbeRefused, ProbeTimesOut, GoOnToRemove, Go, bridge, Reachable
    <2>2. OpenInv' BY <2>1 DEF OpenInv, TypeOK, Listening
    <2>3. \A e \in open : step'[e] \notin Binding
        BY <2>1 DEF OpenInv, TypeOK, Listening, Binding
    <2>4. BeforeInv' BY <2>1, <2>3 DEF BeforeInv, TypeOK, Binding
    <2>5. SparedInv' BY <2>1 DEF SparedInv, TypeOK
    <2>6. LaunchedInv' BY <2>1 DEF LaunchedInv, TypeOK
    <2> QED BY <1>t, <2>2, <2>4, <2>5, <2>6
<1>4. CASE Remove(d) /\ ~Exit(d)
    <2>1. /\ socket' = None /\ open' = open /\ refused' = refused \ {d}
          /\ own' = own /\ launched' = launched /\ before' = {p \in before : p[2] # d}
          /\ step[d] = "remove" /\ step' = [step EXCEPT ![d] = "bind"]
        BY <1>4 DEF Remove, Go, bridge
    <2>2. OpenInv' BY <2>1 DEF OpenInv, TypeOK, Listening
    <2>3. BeforeInv' BY <2>1 DEF BeforeInv, TypeOK, Binding
    <2>4. SparedInv' BY <2>1 DEF SparedInv, TypeOK, SocketAssumption
    <2>5. LaunchedInv' BY <2>1 DEF LaunchedInv, TypeOK
    <2> QED BY <1>t, <2>2, <2>3, <2>4, <2>5
<1>5. CASE Bind(d) /\ ~Exit(d)
    <2>1. /\ socket' = d /\ open' = open \cup {d} /\ refused' = refused
          /\ own' = own /\ launched' = launched /\ before' = before
          /\ step[d] = "bind" /\ step' = [step EXCEPT ![d] = "chmod"]
        BY <1>5 DEF Bind, Go, bridge
    <2>2. OpenInv' BY <2>1 DEF OpenInv, TypeOK, Listening
    <2>3. BeforeInv' BY <2>1 DEF BeforeInv, TypeOK, Binding
    <2>4. \A e \in Daemons : <<d, e>> \notin before BY <2>1 DEF BeforeInv, Binding
    <2>5. SparedInv' BY <2>1, <2>4 DEF SparedInv, TypeOK
    <2>6. LaunchedInv' BY <2>1 DEF LaunchedInv, TypeOK
    <2> QED BY <1>t, <2>2, <2>3, <2>5, <2>6
<1>6. CASE Chmod(d) /\ ~Exit(d)
    <2>1. /\ socket' = socket /\ open' = open /\ refused' = refused
          /\ own' = own /\ launched' = launched /\ before' = before
          /\ step[d] = "chmod" /\ step' = [step EXCEPT ![d] = "watch"]
        BY <1>6 DEF Chmod, Go, bridge
    <2>2. OpenInv' BY <2>1 DEF OpenInv, TypeOK, Listening
    <2>3. BeforeInv' BY <2>1 DEF BeforeInv, TypeOK, Binding
    <2>4. SparedInv' BY <2>1 DEF SparedInv, TypeOK
    <2>5. LaunchedInv' BY <2>1 DEF LaunchedInv, TypeOK
    <2> QED BY <1>t, <2>2, <2>3, <2>4, <2>5
<1>7. CASE CloseListener(d)
    <2>1. /\ socket' = None /\ open' = open \ {d} /\ refused' = refused
          /\ own' = own /\ launched' = launched /\ before' = before
          /\ step[d] = "close" /\ step' = [step EXCEPT ![d] = "hang up"]
        BY <1>7 DEF CloseListener, Go
    <2>2. OpenInv' BY <2>1 DEF OpenInv, TypeOK, Listening
    <2>3. BeforeInv' BY <2>1 DEF BeforeInv, TypeOK, Binding
    <2>4. SparedInv' BY <2>1 DEF SparedInv, TypeOK, SocketAssumption
    <2>5. LaunchedInv' BY <2>1 DEF LaunchedInv, TypeOK
    <2> QED BY <1>t, <2>2, <2>3, <2>4, <2>5
<1> QED
    BY <1>1, <1>2, <1>3, <1>4, <1>5, <1>6, <1>7
    DEF DaemonStep, ProbeAnswered, Unlink, Crash

LEMMA CallKeepsSocket ==
    ASSUME SocketAssumption, SocketInv, NEW c \in Calls,
           \/ ServeStep(c) \/ connect(c) \/ DialAgain(c) \/ start(c) \/ waitForSocket(c)
           \/ Leave(c)
    PROVE  SocketInv'
<1> USE DEF SocketInv
<1>t. TypeOK' BY CallKeepsTypes
<1>1. CASE UNCHANGED <<step, own, launched>>
    <2>1. UNCHANGED <<socket, open, before, refused>>
        BY DEF ServeStep, Accept, Register, RequestsEnd, connect, DialAgain, Reach, start,
               waitForSocket, Leave, daemons
    <2> QED BY <1>1, <1>t, <2>1 DEF OpenInv, BeforeInv, SparedInv, LaunchedInv
<1>2. CASE ~UNCHANGED <<step, own, launched>>
    <2>1. start(c)
        BY <1>2 DEF ServeStep, Accept, Register, RequestsEnd, connect, DialAgain, Reach,
                    waitForSocket, Leave, daemons, bridge
    <2>2. PICK d \in Daemons :
              /\ step[d] = "off" /\ step' = [step EXCEPT ![d] = "look"]
              /\ own' = d /\ launched' = launched \cup {d}
        BY <1>2, <2>1 DEF start, Go
    <2>3. ~(own # None /\ step[own] # "gone")
        BY <1>2, <2>1 DEF start
    <2>4. UNCHANGED <<socket, open, before, refused>> BY <2>1 DEF start
    <2>5. launched = {}
        BY <2>3 DEF LaunchedInv, TypeOK, SocketAssumption
    <2>6. OpenInv' BY <2>2, <2>4 DEF OpenInv, TypeOK, Listening
    <2>7. BeforeInv' BY <2>2, <2>4 DEF BeforeInv, TypeOK, Binding
    <2>8. SparedInv' BY <2>2, <2>4 DEF SparedInv, TypeOK
    <2>9. LaunchedInv' BY <2>2, <2>5 DEF LaunchedInv, TypeOK
    <2> QED BY <1>t, <2>6, <2>7, <2>8, <2>9
<1> QED BY <1>1, <1>2

LEMMA StepKeepsSocket == ASSUME SocketAssumption, SocketInv, [Next]_vars PROVE SocketInv'
<1>1. CASE UNCHANGED vars
    BY <1>1 DEF vars, daemons, bridge, SocketInv, TypeOK, OpenInv, BeforeInv, SparedInv, LaunchedInv
<1>2. CASE Next
    BY <1>2, DaemonKeepsSocket, CallKeepsSocket DEF Next
<1> QED BY <1>1, <1>2

LEMMA StepSparesTheLiving ==
    ASSUME SocketAssumption, SocketInv, [Next]_vars
    PROVE  [\A d \in Daemons \ refused :
              step[d] = "remove" /\ Reachable /\ step'[d] # "remove" /\ socket' = None
                => <<socket, d>> \notin before]_vars
BY DEF SocketInv, SparedInv, Reachable

-----------------------------------------------------------------------------
(* Releases.                                                                *)

(* One transfer is claimed at a time. What it fetches is the release of the *)
(* file on offer, if there is one; its file, once complete, is its own or   *)
(* removed.                                                                 *)
FetchingInv ==
    /\ downloading <=> transfer.step # "none"
    /\ downloaded /\ transfer.step # "none" => transfer.of = latest
    /\ transfer.step = "whole" => file \in {0, transfer.of}
    /\ transfer.step # "none" => discards < MaxRelease

Answers == [step : {"idle", "asked", "answered"}, answer : 0 .. MaxRelease]

ReleasesInv == Releases!TypeOK /\ FetchingInv /\ Releases!OfferedFileIsTheLatest

LEMMA InitReleases == Releases!Init => ReleasesInv
<1>1. MaxRelease \in Nat /\ MaxRefusals \in Nat
    BY LooksAssumption DEF Releases!UpdatesAssumption
<1> SUFFICES ASSUME Releases!Init PROVE ReleasesInv OBVIOUS
<1> USE DEF Releases!Init
<1>2. look \in [Looks -> [step : {"idle", "asked", "answered"}, answer : 0 .. MaxRelease]]
    BY <1>1 DEF Releases!Idle
<1>3. /\ transfer \in [of : 0 .. MaxRelease, step : {"none", "part", "whole"}]
      /\ transfer.step = "none"
    BY <1>1 DEF Releases!NoTransfer
<1>4. FetchingInv /\ Releases!OfferedFileIsTheLatest
    BY <1>3 DEF FetchingInv, Releases!OfferedFileIsTheLatest
<1>5. Releases!TypeOK
    <2>1. released \in 0 .. MaxRelease /\ latest \in 0 .. MaxRelease /\ file \in 0 .. MaxRelease
        BY <1>1
    <2>2. limited \in BOOLEAN /\ downloading \in BOOLEAN /\ downloaded \in BOOLEAN
        OBVIOUS
    <2>3. discards \in 0 .. MaxRelease /\ refusals \in 0 .. MaxRefusals
        BY <1>1
    <2> QED BY <1>2, <1>3, <2>1, <2>2, <2>3 DEF Releases!TypeOK
<1> QED BY <1>4, <1>5 DEF ReleasesInv

LEMMA StepKeepsReleases ==
    ASSUME ReleasesInv, Releases!Next \/ UNCHANGED releaseVars PROVE ReleasesInv'
<1> USE DEF ReleasesInv, Releases!TypeOK, FetchingInv, Releases!OfferedFileIsTheLatest,
        Releases!offer, Releases!fetch
<1>1. MaxRelease \in Nat /\ MaxRefusals \in Nat
    BY LooksAssumption DEF Releases!UpdatesAssumption
<1>2. CASE UNCHANGED releaseVars
    BY <1>2 DEF releaseVars
<1>3. ASSUME Releases!Refusal PROVE refusals' \in 0 .. MaxRefusals
    BY <1>1, <1>3 DEF Releases!Refusal
<1>4. ASSUME NEW l \in Looks, Releases!Look(l) PROVE ReleasesInv'
    BY <1>4 DEF Releases!Look
<1>5. ASSUME NEW l \in Looks, Releases!Latest(l) PROVE ReleasesInv'
    <2>1. look' \in [Looks -> [step : {"idle", "asked", "answered"}, answer : 0 .. MaxRelease]]
        <3>1. /\ [step |-> "answered", answer |-> released] \in Answers
              /\ [step |-> "answered", answer |-> 0] \in Answers /\ Releases!Idle \in Answers
            BY <1>1 DEF Answers, Releases!Idle
        <3>2. \E x \in Answers : look' = [look EXCEPT ![l] = x]
            BY <1>5, <3>1 DEF Releases!Latest
        <3> QED BY <3>2 DEF Answers
    <2>2. refusals' \in 0 .. MaxRefusals
        BY <1>3, <1>5 DEF Releases!Latest
    <2> QED BY <1>5, <2>1, <2>2 DEF Releases!Latest
<1>6. ASSUME NEW l \in Looks, Releases!Offer(l) PROVE ReleasesInv'
    <2>1. look' \in [Looks -> [step : {"idle", "asked", "answered"}, answer : 0 .. MaxRelease]]
        BY <1>1, <1>6 DEF Releases!Offer, Releases!Idle
    <2>2. latest' \in 0 .. MaxRelease
        BY <1>6 DEF Releases!Offer
    <2>3. downloaded' \in BOOLEAN /\ (downloaded' => downloaded /\ latest' = latest)
        BY <1>6, Zenon DEF Releases!Offer
    <2> QED BY <1>6, <2>1, <2>2, <2>3 DEF Releases!Offer
<1>7. CASE Releases!WindowPasses
    BY <1>7 DEF Releases!WindowPasses
<1>8. CASE Releases!Publish
    BY <1>1, <1>8 DEF Releases!Publish
<1>9. CASE Releases!StartDownload
    BY <1>1, <1>9 DEF Releases!StartDownload, Releases!Newer
<1>10. CASE Releases!Rename
    BY <1>10 DEF Releases!Rename
<1>11. CASE Releases!FetchFails
    <2>1. /\ transfer' \in [of : 0 .. MaxRelease, step : {"none", "part", "whole"}]
          /\ transfer'.step = "none"
        BY <1>1, <1>11 DEF Releases!FetchFails, Releases!NoTransfer
    <2>2. downloading' = FALSE /\ refusals' \in 0 .. MaxRefusals
        BY <1>3, <1>11 DEF Releases!FetchFails
    <2>3. UNCHANGED <<released, look, latest, limited, file, discards, downloaded>>
        BY <1>11 DEF Releases!FetchFails
    <2> QED BY <2>1, <2>2, <2>3
<1>12. CASE Releases!FetchEnds
    <2>1. /\ transfer' \in [of : 0 .. MaxRelease, step : {"none", "part", "whole"}]
          /\ transfer'.step = "none"
        BY <1>1, <1>12 DEF Releases!FetchEnds, Releases!NoTransfer
    <2>2. downloading' = FALSE /\ downloaded' \in BOOLEAN
        BY <1>12 DEF Releases!FetchEnds
    <2>3. discards' \in 0 .. MaxRelease
        BY <1>1, <1>12 DEF Releases!FetchEnds
    <2>4. UNCHANGED <<released, look, latest, limited, file, refusals>>
        BY <1>12 DEF Releases!FetchEnds
    <2>5. downloaded' => file \in {0, latest}
        BY <1>12 DEF Releases!FetchEnds
    <2> QED BY <2>1, <2>2, <2>3, <2>4, <2>5
<1>13. CASE Releases!Discard
    BY <1>1, <1>13 DEF Releases!Discard
<1> QED
    BY <1>2, <1>4, <1>5, <1>6, <1>7, <1>8, <1>9, <1>10, <1>11, <1>12, <1>13
    DEF Releases!Next, Releases!CheckStep, Releases!FetchStep

-----------------------------------------------------------------------------
(* The account.                                                             *)

ExportSteps == {"none", "device", "messages", "create", "write", "retire"}
ImportSteps == {"none", "device", "messages", "revive"}
Exports  == [step : ExportSteps, at : Machines \cup {None}, move : BOOLEAN, copy : Transfer!Copy]
Archives == [there : BOOLEAN, copy : Transfer!Copy]
Imports  == [step : ImportSteps, at : Machines \cup {None}]

TransferBase ==
    /\ identity \in [Machines -> 0 .. MaxMessages \cup {None}]
    /\ history \in [Machines -> (SUBSET Transfer!Messages) \cup {None}]
    /\ retired \subseteq Machines /\ serving \subseteq Machines /\ half \subseteq Machines
    /\ leaving \subseteq serving /\ lost \subseteq Transfer!Messages
    /\ inHand \in [Machines -> 0 .. MaxMessages] /\ taken \in 0 .. MaxMessages
    /\ export \in Exports /\ archive \in Archives /\ import \in Imports
    /\ troubles \in 0 .. MaxMishaps

(* A daemon runs on a whole profile, which no import touches, and a message *)
(* is in the hand of a daemon that runs.                                    *)
ServingInv ==
    /\ \A m \in serving : identity[m] # None /\ history[m] # None /\ import.at # m
    /\ \A m \in Machines : inHand[m] # 0 => m \in serving

(* An export has what the steps before have copied; while it writes, what   *)
(* the archive holds comes from it.                                         *)
ExportInv ==
    /\ export.step = "none" <=> export = Transfer!NoExport
    /\ export.step # "none" => export.at \in serving
    /\ export.step \in {"messages", "create", "write", "retire"} => export.copy.device # None
    /\ export.step \in {"create", "write", "retire"} => export.copy.messages # None
    /\ export.step = "write" =>
           /\ archive.there /\ archive.copy.messages = None
           /\ archive.copy.device # None => /\ archive.copy.device = export.copy.device
                                            /\ archive.copy.held = export.copy.held
    /\ export.step = "retire" => Transfer!Whole(archive.copy)
    /\ ~archive.there => archive = Transfer!NoFile

(* An import goes by an archive that is whole and stays so.                 *)
ImportInv ==
    /\ import.step = "none" <=> import = Transfer!NoImport
    /\ import.step # "none" => import.at \in Machines /\ Transfer!Whole(archive.copy)
    /\ import.step \in {"messages", "revive"} =>
           identity[import.at] = archive.copy.device /\ archive.copy.held \in lost \cup {0}
    /\ import.step = "revive" => history[import.at] # None

(* Every history has what its identity has passed, but for what the daemon  *)
(* has in hand and what was lost: where it is, in the export, and in the    *)
(* archive.                                                                 *)
Halfway(m) == import.step = "messages" /\ import.at = m
Follows(device, held_, messages) ==
    device # None =>
        1 .. device \ ({held_} \cup lost) \subseteq (IF messages = None THEN {} ELSE messages)
FollowInv ==
    /\ \A m \in Machines : ~Halfway(m) => Follows(identity[m], inHand[m], history[m])
    /\ export.step = "messages" =>
           Follows(export.copy.device, export.copy.held, history[export.at])
    /\ export.step \in {"create", "write"} =>
           Follows(export.copy.device, export.copy.held, export.copy.messages)
    /\ Transfer!ArchivedHistoryFollowsIdentity

(* Only an import that did not end leaves an identity without a history.    *)
HalfInv ==
    \A m \in Machines \ half : identity[m] # None /\ ~Halfway(m) => history[m] # None

TransferInv ==
    /\ TransferBase /\ ServingInv /\ ExportInv /\ ImportInv /\ FollowInv /\ HalfInv
    /\ Transfer!AccountIsNeverNowhere

LEMMA TransferConstants ==
    /\ Home \in Machines /\ MaxMessages \in Nat /\ MaxMishaps \in Nat
    /\ None \notin Machines /\ None \notin Nat /\ None \notin SUBSET Transfer!Messages
    /\ 0 \in 0 .. MaxMessages /\ {} \in SUBSET Transfer!Messages
    /\ Transfer!NoExport \in Exports /\ Transfer!NoExport.step = "none"
    /\ Transfer!NoExport.at = None
    /\ Transfer!NoFile \in Archives /\ ~Transfer!NoFile.there
    /\ ~Transfer!Whole(Transfer!NoFile.copy)
    /\ Transfer!NoImport \in Imports /\ Transfer!NoImport.step = "none"
    /\ Transfer!NoImport.at = None
    /\ Transfer!Empty \in Transfer!Copy /\ Transfer!Empty.device = None
    /\ Transfer!Empty.messages = None
<1>1. /\ Home \in Machines /\ MaxMessages \in Nat /\ MaxMishaps \in Nat
      /\ None \notin Machines /\ None \notin Nat /\ None \notin SUBSET Transfer!Messages
    BY MovesAssumption DEF Transfer!TransferAssumption, Transfer!Messages
<1>2. /\ Transfer!Empty \in Transfer!Copy /\ Transfer!Empty.device = None
      /\ Transfer!Empty.messages = None
    BY <1>1 DEF Transfer!Empty, Transfer!Copy
<1>3. /\ Transfer!NoExport \in Exports /\ Transfer!NoExport.step = "none"
      /\ Transfer!NoExport.at = None
    BY <1>2 DEF Transfer!NoExport, Exports, ExportSteps
<1>4. /\ Transfer!NoFile \in Archives /\ ~Transfer!NoFile.there
      /\ Transfer!NoFile.copy = Transfer!Empty
    BY <1>2 DEF Transfer!NoFile, Archives
<1>5. /\ Transfer!NoImport \in Imports /\ Transfer!NoImport.step = "none"
      /\ Transfer!NoImport.at = None
    BY DEF Transfer!NoImport, Imports, ImportSteps
<1> QED BY <1>1, <1>2, <1>3, <1>4, <1>5 DEF Transfer!Whole, Transfer!Messages

LEMMA InitTransfer == Transfer!Init => TransferInv
<1> SUFFICES ASSUME Transfer!Init PROVE TransferInv OBVIOUS
<1> USE TransferConstants DEF Transfer!Init
<1>1. TransferBase
    BY DEF TransferBase
<1>2. ServingInv
    BY DEF ServingInv
<1>3. ExportInv /\ ImportInv
    BY DEF ExportInv, ImportInv
<1>4. FollowInv /\ HalfInv
    BY DEF FollowInv, HalfInv, Follows, Halfway, Transfer!ArchivedHistoryFollowsIdentity
<1>5. Transfer!AccountIsNeverNowhere
    BY DEF Transfer!AccountIsNeverNowhere
<1> QED BY <1>1, <1>2, <1>3, <1>4, <1>5 DEF TransferInv

(* What no step of another actor disturbs: the archive stays, what was lost *)
(* stays lost.                                                              *)
LEMMA LostStaysLost ==
    ASSUME NEW device, NEW h, NEW messages, Follows(device, h, messages), lost \subseteq lost'
    PROVE  Follows(device, h, messages)'
BY DEF Follows

LEMMA StartKeepsTransfer ==
    ASSUME TransferInv, NEW m \in Machines, Transfer!Start(m) PROVE TransferInv'
<1> USE TransferConstants DEF TransferInv
<1>1. /\ m \notin serving /\ identity[m] # None /\ import.at # m
      /\ serving' = serving \cup {m}
      /\ history' = [history EXCEPT ![m] = IF @ = None THEN {} ELSE @]
      /\ UNCHANGED <<identity, retired, leaving, inHand, taken, export, archive, import, half,
                     lost, troubles>>
    BY DEF Transfer!Start
<1>2. TransferBase'
    BY <1>1 DEF TransferBase
<1>3. \A x \in Machines : history'[x] = IF x = m /\ history[x] = None THEN {} ELSE history[x]
    BY <1>1 DEF TransferBase
<1>4. ServingInv'
    BY <1>1, <1>3 DEF ServingInv, TransferBase
<1>5. ExportInv' /\ ImportInv'
    BY <1>1, <1>3 DEF ExportInv, ImportInv, TransferBase
<1>6. FollowInv'
    <2>1. export.step = "messages" => export.at \in serving
        BY DEF ExportInv
    <2>2. \A x \in serving : history'[x] = history[x]
        BY <1>1, <1>3 DEF ServingInv, TransferBase
    <2> QED
        BY <1>1, <1>3, <2>1, <2>2 DEF FollowInv, Follows, Halfway,
                                      Transfer!ArchivedHistoryFollowsIdentity
<1>7. HalfInv' /\ Transfer!AccountIsNeverNowhere'
    BY <1>1, <1>3 DEF HalfInv, Halfway, Transfer!AccountIsNeverNowhere
<1> QED BY <1>2, <1>4, <1>5, <1>6, <1>7

LEMMA DecryptKeepsTransfer ==
    ASSUME TransferInv, NEW m \in Machines, Transfer!Decrypt(m) PROVE TransferInv'
<1> USE TransferConstants DEF TransferInv
<1>1. /\ m \in serving /\ inHand[m] = 0 /\ taken < MaxMessages /\ taken' = taken + 1
      /\ UNCHANGED <<history, retired, serving, leaving, export, archive, import, half, lost,
                     troubles>>
    BY DEF Transfer!Decrypt
<1>2. CASE identity' = identity /\ inHand' = inHand
    <2>1. TransferBase'
        BY <1>1, <1>2 DEF TransferBase
    <2>2. ServingInv' /\ ExportInv' /\ ImportInv' /\ HalfInv'
        BY <1>1, <1>2 DEF ServingInv, ExportInv, ImportInv, HalfInv, Halfway
    <2>3. FollowInv'
        BY <1>1, <1>2 DEF FollowInv, Follows, Halfway, Transfer!ArchivedHistoryFollowsIdentity
    <2> QED BY <1>1, <1>2, <2>1, <2>2, <2>3 DEF Transfer!AccountIsNeverNowhere
<1>3. CASE /\ identity[m] = taken /\ identity' = [identity EXCEPT ![m] = taken + 1]
           /\ inHand' = [inHand EXCEPT ![m] = taken + 1]
    <2>1. taken \in Nat /\ taken + 1 \in 0 .. MaxMessages /\ taken + 1 # None /\ taken + 1 # 0
        BY <1>1 DEF TransferBase
    <2>2. \A x \in Machines : /\ identity'[x] = IF x = m THEN taken + 1 ELSE identity[x]
                              /\ inHand'[x] = IF x = m THEN taken + 1 ELSE inHand[x]
        BY <1>3 DEF TransferBase
    <2>3. TransferBase'
        BY <1>1, <1>3, <2>1 DEF TransferBase
    <2>4. ServingInv'
        BY <1>1, <2>1, <2>2 DEF ServingInv, TransferBase
    <2>5. ExportInv' /\ ImportInv'
        BY <1>1, <2>2 DEF ExportInv, ImportInv, ServingInv
    <2>6. FollowInv'
        <3>1. \A x \in Machines : ~Halfway(x)' => Follows(identity[x], inHand[x], history[x])'
            <4> SUFFICES ASSUME NEW x \in Machines, ~Halfway(x)
                         PROVE  Follows(identity[x], inHand[x], history[x])'
                BY <1>1 DEF Halfway
            <4>1. Follows(identity[x], inHand[x], history[x])
                BY DEF FollowInv
            <4>2. CASE x = m
                <5>1. 1 .. (taken + 1) = (1 .. taken) \cup {taken + 1}
                    BY <2>1
                <5>2. 0 \notin 1 .. taken
                    BY <2>1
                <5> QED BY <1>1, <1>3, <2>1, <2>2, <4>1, <4>2, <5>1, <5>2 DEF Follows
            <4> QED BY <1>1, <2>2, <4>1, <4>2 DEF Follows
        <3> QED BY <1>1, <3>1 DEF FollowInv, Follows, Transfer!ArchivedHistoryFollowsIdentity
    <2>7. HalfInv' /\ Transfer!AccountIsNeverNowhere'
        BY <1>1, <1>3, <2>1, <2>2 DEF HalfInv, Halfway, Transfer!AccountIsNeverNowhere
    <2> QED BY <2>3, <2>4, <2>5, <2>6, <2>7
<1> QED BY <1>2, <1>3 DEF Transfer!Decrypt

LEMMA StoreKeepsTransfer ==
    ASSUME TransferInv, NEW m \in Machines, Transfer!Store(m) PROVE TransferInv'
<1> USE TransferConstants DEF TransferInv
<1>1. /\ inHand[m] # 0
      /\ history' = [history EXCEPT ![m] = @ \cup {inHand[m]}]
      /\ inHand' = [inHand EXCEPT ![m] = 0]
      /\ UNCHANGED <<identity, retired, serving, leaving, taken, export, archive, import, half,
                     lost, troubles>>
    BY DEF Transfer!Store
<1>2. m \in serving /\ history[m] # None /\ history[m] \in SUBSET Transfer!Messages
    BY <1>1 DEF ServingInv, TransferBase
<1>3. history[m] \cup {inHand[m]} \in SUBSET Transfer!Messages /\ history[m] \cup {inHand[m]} # None
    BY <1>1, <1>2 DEF TransferBase, Transfer!Messages
<1>4. \A x \in Machines :
          /\ history'[x] = IF x = m THEN history[m] \cup {inHand[m]} ELSE history[x]
          /\ inHand'[x] = IF x = m THEN 0 ELSE inHand[x]
    BY <1>1 DEF TransferBase
<1>5. TransferBase'
    BY <1>1, <1>3 DEF TransferBase
<1>6. ServingInv'
    BY <1>1, <1>3, <1>4 DEF ServingInv, TransferBase
<1>7. ExportInv' /\ ImportInv'
    BY <1>1, <1>3, <1>4 DEF ExportInv, ImportInv
<1>8. FollowInv'
    <2>1. \A x \in Machines : ~Halfway(x) => Follows(identity[x], inHand[x], history[x])'
        <3> SUFFICES ASSUME NEW x \in Machines, ~Halfway(x)
                     PROVE  Follows(identity[x], inHand[x], history[x])'
            OBVIOUS
        <3>1. Follows(identity[x], inHand[x], history[x])
            BY DEF FollowInv
        <3> QED BY <1>1, <1>2, <1>3, <1>4, <3>1 DEF Follows
    <2>2. export.step = "messages" =>
              Follows(export.copy.device, export.copy.held, history[export.at])'
        <3>1. export.step = "messages" => export.at \in Machines
            BY DEF ExportInv, TransferBase
        <3> QED BY <1>1, <1>2, <1>3, <1>4, <3>1 DEF FollowInv, Follows
    <2> QED
        BY <1>1, <2>1, <2>2 DEF FollowInv, Follows, Halfway, Transfer!ArchivedHistoryFollowsIdentity
<1>9. HalfInv' /\ Transfer!AccountIsNeverNowhere'
    BY <1>1, <1>3, <1>4 DEF HalfInv, Halfway, Transfer!AccountIsNeverNowhere
<1> QED BY <1>5, <1>6, <1>7, <1>8, <1>9

(* A daemon that stops, or is killed with a message in its hand.            *)
LEMMA StoppedKeepsTransfer ==
    ASSUME TransferInv, NEW m \in Machines, m \in serving, Transfer!Stopped(m),
           lost' = lost \cup ({inHand[m]} \ {0}), troubles' \in 0 .. MaxMishaps,
           UNCHANGED <<identity, history, retired, taken, archive, import, half>>
    PROVE  TransferInv'
<1> USE TransferConstants DEF TransferInv
<1>1. /\ serving' = serving \ {m} /\ leaving' = leaving \ {m}
      /\ inHand' = [inHand EXCEPT ![m] = 0]
      /\ export' = IF export.at = m THEN Transfer!NoExport ELSE export
    BY DEF Transfer!Stopped
<1>2. \A x \in Machines : inHand'[x] = IF x = m THEN 0 ELSE inHand[x]
    BY <1>1 DEF TransferBase
<1>3. lost \subseteq lost' /\ lost' \subseteq Transfer!Messages
    <2>1. inHand[m] \in 0 .. MaxMessages /\ lost \subseteq Transfer!Messages
        BY DEF TransferBase
    <2>2. {inHand[m]} \ {0} \subseteq Transfer!Messages
        BY <2>1 DEF Transfer!Messages
    <2> QED BY <2>1, <2>2
<1>4. TransferBase'
    BY <1>1, <1>3 DEF TransferBase
<1>5. ServingInv'
    BY <1>1, <1>2 DEF ServingInv
<1>6. ExportInv'
    <2>1. CASE export.at = m
        BY <1>1, <2>1 DEF ExportInv
    <2>2. CASE export.at # m
        BY <1>1, <2>2 DEF ExportInv
    <2> QED BY <2>1, <2>2
<1>7. ImportInv'
    BY <1>3 DEF ImportInv
<1>8. FollowInv'
    <2>1. \A x \in Machines : ~Halfway(x) => Follows(identity[x], inHand[x], history[x])'
        BY <1>2, <1>3 DEF FollowInv, Follows
    <2>2. CASE export.at = m
        BY <1>1, <1>3, <2>1, <2>2 DEF FollowInv, Halfway, Transfer!ArchivedHistoryFollowsIdentity
    <2>3. CASE export.at # m
        BY <1>1, <1>3, <2>1, <2>3
        DEF FollowInv, Follows, Halfway, Transfer!ArchivedHistoryFollowsIdentity
    <2> QED BY <2>2, <2>3
<1>9. HalfInv' /\ Transfer!AccountIsNeverNowhere'
    BY DEF HalfInv, Halfway, Transfer!AccountIsNeverNowhere
<1> QED BY <1>4, <1>5, <1>6, <1>7, <1>8, <1>9

LEMMA DaemonKeepsTransfer ==
    ASSUME TransferInv, NEW m \in Machines,
           \/ Transfer!Start(m) \/ Transfer!Decrypt(m) \/ Transfer!Store(m)
           \/ Transfer!Stop(m) \/ Transfer!Crash(m) \/ Transfer!Shutdown(m)
    PROVE  TransferInv'
<1>1. troubles \in 0 .. MaxMishaps /\ leaving \subseteq serving
    BY DEF TransferInv, TransferBase
<1>2. CASE Transfer!Stop(m) \/ Transfer!Shutdown(m)
    <2>1. m \in serving /\ Transfer!Stopped(m) /\ inHand[m] = 0
        BY <1>1, <1>2 DEF Transfer!Stop, Transfer!Shutdown
    <2> QED BY <1>1, <1>2, <2>1, StoppedKeepsTransfer DEF Transfer!Stop, Transfer!Shutdown
<1>3. CASE Transfer!Crash(m)
    <2>1. troubles' \in 0 .. MaxMishaps
        BY <1>1, <1>3, TransferConstants DEF Transfer!Crash, Transfer!Trouble
    <2> QED BY <1>3, <2>1, StoppedKeepsTransfer DEF Transfer!Crash
<1> QED BY <1>2, <1>3, StartKeepsTransfer, DecryptKeepsTransfer, StoreKeepsTransfer

(* While an export goes on nothing else changes but the archive, or the     *)
(* machine of the export retires.                                           *)
LEMMA ExportStepKeepsTransfer ==
    ASSUME TransferInv, ExportInv', export' \in Exports, archive' \in Archives,
           UNCHANGED <<identity, history, serving, inHand, taken, import, half, lost>>,
           retired' \subseteq Machines, leaving' \subseteq serving, troubles' \in 0 .. MaxMishaps,
           import.step = "none" \/ archive'.copy = archive.copy,
           Transfer!AccountIsNeverNowhere',
           export'.step = "messages" =>
               Follows(export.copy.device, export.copy.held, history[export.at])',
           export'.step \in {"create", "write"} =>
               Follows(export.copy.device, export.copy.held, export.copy.messages)',
           Transfer!ArchivedHistoryFollowsIdentity'
    PROVE  TransferInv'
<1> USE DEF TransferInv
<1>1. TransferBase'
    BY DEF TransferBase
<1>2. ServingInv' /\ HalfInv'
    BY DEF ServingInv, HalfInv, Halfway
<1>3. ImportInv'
    BY DEF ImportInv
<1>4. FollowInv'
    BY DEF FollowInv, Follows, Halfway
<1> QED BY <1>1, <1>2, <1>3, <1>4

LEMMA ExportKeepsTransfer ==
    ASSUME TransferInv, NEW m \in Machines, NEW move \in BOOLEAN, Transfer!Export(m, move)
    PROVE  TransferInv'
<1> USE TransferConstants DEF TransferInv
<1>1. /\ m \in serving /\ export = Transfer!NoExport
      /\ export' = [step |-> "device", at |-> m, move |-> move, copy |-> Transfer!Empty]
      /\ UNCHANGED <<identity, history, retired, serving, leaving, inHand, taken, archive, import,
                     half, lost, troubles>>
    BY DEF Transfer!Export
<1>2. /\ export' \in Exports /\ export'.step = "device" /\ export'.at = m
      /\ export' # Transfer!NoExport
    BY <1>1 DEF Exports, ExportSteps
<1>3. ExportInv'
    BY <1>1, <1>2 DEF ExportInv
<1>4. Transfer!ArchivedHistoryFollowsIdentity' /\ Transfer!AccountIsNeverNowhere'
    BY <1>1 DEF FollowInv, Transfer!ArchivedHistoryFollowsIdentity, Transfer!AccountIsNeverNowhere
<1> QED BY <1>1, <1>2, <1>3, <1>4, ExportStepKeepsTransfer DEF TransferBase

LEMMA snapshotKeepsTransfer == ASSUME TransferInv, Transfer!snapshot PROVE TransferInv'
<1> USE TransferConstants DEF TransferInv
<1>1. UNCHANGED <<identity, history, retired, serving, leaving, inHand, taken, archive, import,
                  half, lost, troubles>>
    BY DEF Transfer!snapshot
<1>2. /\ export \in Exports /\ export.copy \in Transfer!Copy /\ archive \in Archives
      /\ export.at \in Machines /\ export.at \in serving
      /\ identity[export.at] \in 0 .. MaxMessages \cup {None} /\ identity[export.at] # None
      /\ history[export.at] \in (SUBSET Transfer!Messages) \cup {None} /\ history[export.at] # None
      /\ inHand[export.at] \in 0 .. MaxMessages /\ import.at # export.at
    BY DEF Transfer!snapshot, ExportInv, TransferBase, Exports, ServingInv
<1>3. Transfer!ArchivedHistoryFollowsIdentity' /\ Transfer!AccountIsNeverNowhere'
    BY <1>1 DEF FollowInv, Transfer!ArchivedHistoryFollowsIdentity, Transfer!AccountIsNeverNowhere
<1>4. CASE /\ export.step = "device"
           /\ export' = [export EXCEPT !.step = "messages", !.copy.device = identity[export.at],
                                       !.copy.held = inHand[export.at]]
    <2>1. /\ export' \in Exports /\ export'.step = "messages" /\ export'.at = export.at
          /\ export'.copy.device = identity[export.at] /\ export'.copy.held = inHand[export.at]
        BY <1>2, <1>4 DEF Exports, ExportSteps, Transfer!Copy
    <2>2. ExportInv'
        BY <1>1, <1>2, <2>1 DEF ExportInv
    <2>3. Follows(identity[export.at], inHand[export.at], history[export.at])
        BY <1>2 DEF FollowInv, Halfway
    <2>4. Follows(export.copy.device, export.copy.held, history[export.at])'
        BY <1>1, <2>1, <2>3 DEF Follows
    <2> QED BY <1>1, <1>2, <1>3, <2>1, <2>2, <2>4, ExportStepKeepsTransfer DEF TransferBase
<1>5. CASE /\ export.step = "messages"
           /\ export' = [export EXCEPT !.step = "create", !.copy.messages = history[export.at]]
    <2>1. /\ export' \in Exports /\ export'.step = "create" /\ export'.at = export.at
          /\ export'.copy.device = export.copy.device /\ export'.copy.held = export.copy.held
          /\ export'.copy.messages = history[export.at]
        BY <1>2, <1>5 DEF Exports, ExportSteps, Transfer!Copy
    <2>2. ExportInv'
        <3>1. export.copy.device # None /\ export' # Transfer!NoExport
            BY <1>5, <2>1 DEF ExportInv
        <3> QED BY <1>1, <1>2, <2>1, <3>1 DEF ExportInv
    <2>3. Follows(export.copy.device, export.copy.held, export.copy.messages)'
        BY <1>1, <1>5, <2>1 DEF FollowInv, Follows
    <2> QED BY <1>1, <1>2, <1>3, <2>1, <2>2, <2>3, ExportStepKeepsTransfer DEF TransferBase
<1> QED BY <1>4, <1>5 DEF Transfer!snapshot

LEMMA createArchiveKeepsTransfer == ASSUME TransferInv, Transfer!createArchive PROVE TransferInv'
<1> USE TransferConstants DEF TransferInv
<1>1. /\ UNCHANGED <<identity, history, retired, serving, leaving, inHand, taken, import, half,
                     lost,
                     troubles>>
      /\ export.step = "create" /\ ~archive.there
      /\ archive' = [there |-> TRUE, copy |-> Transfer!Empty]
      /\ export' = [export EXCEPT !.step = "write"]
    BY DEF Transfer!createArchive, Transfer!ExportStep
<1>2. /\ export' \in Exports /\ export'.step = "write" /\ export'.at = export.at
      /\ export'.copy = export.copy
    BY <1>1 DEF Exports, ExportSteps, TransferBase
<1>3. /\ archive' \in Archives /\ archive'.there /\ archive'.copy.messages = None
      /\ archive'.copy.device = None /\ ~Transfer!Whole(archive'.copy)
    BY <1>1 DEF Archives, Transfer!Whole
<1>4. ExportInv'
    <2>1. /\ export.copy.device # None /\ export.copy.messages # None /\ export.at \in serving
          /\ export' # Transfer!NoExport
        BY <1>1, <1>2 DEF ExportInv
    <2> QED BY <1>1, <1>2, <1>3, <2>1 DEF ExportInv
<1>5. ~Transfer!Whole(archive.copy)
    BY <1>1 DEF ExportInv
<1>6. import.step = "none"
    BY <1>5 DEF ImportInv, TransferBase, Imports, ImportSteps
<1>7. Transfer!AccountIsNeverNowhere'
    BY <1>1, <1>5 DEF Transfer!AccountIsNeverNowhere
<1>8. Follows(export.copy.device, export.copy.held, export.copy.messages)'
    BY <1>1, <1>2 DEF FollowInv, Follows
<1>9. Transfer!ArchivedHistoryFollowsIdentity'
    BY <1>3 DEF Transfer!ArchivedHistoryFollowsIdentity
<1> QED BY <1>1, <1>2, <1>3, <1>4, <1>6, <1>7, <1>8, <1>9, ExportStepKeepsTransfer DEF TransferBase

LEMMA writeArchiveKeepsTransfer == ASSUME TransferInv, Transfer!writeArchive PROVE TransferInv'
<1> USE TransferConstants DEF TransferInv
<1>1. /\ UNCHANGED <<identity, history, retired, serving, leaving, inHand, taken, import, half,
                     lost,
                     troubles>>
      /\ export.step = "write"
    BY DEF Transfer!writeArchive
<1>2. /\ archive \in Archives /\ archive.copy \in Transfer!Copy /\ archive.there
      /\ export \in Exports /\ export.copy \in Transfer!Copy
      /\ archive.copy.messages = None /\ ~Transfer!Whole(archive.copy)
      /\ export.copy.device # None /\ export.copy.messages # None
    BY <1>1 DEF TransferBase, Archives, Exports, ExportInv, Transfer!Whole
<1>3. import.step = "none"
    BY <1>2 DEF ImportInv, TransferBase, Imports, ImportSteps
<1>4. Transfer!AccountIsNeverNowhere'
    BY <1>1, <1>2 DEF Transfer!AccountIsNeverNowhere
<1>5. CASE /\ archive.copy.device = None
           /\ archive' = [archive EXCEPT !.copy.device = export.copy.device,
                                         !.copy.held = export.copy.held]
           /\ UNCHANGED export
    <2>1. /\ archive' \in Archives /\ archive'.there /\ archive'.copy.messages = None
          /\ archive'.copy.device = export.copy.device /\ archive'.copy.held = export.copy.held
        BY <1>2, <1>5 DEF Archives, Transfer!Copy
    <2>2. ExportInv'
        BY <1>1, <1>5, <2>1 DEF ExportInv
    <2>3. Transfer!ArchivedHistoryFollowsIdentity'
        BY <2>1 DEF Transfer!ArchivedHistoryFollowsIdentity, Transfer!Whole
    <2>4. Follows(export.copy.device, export.copy.held, export.copy.messages)'
        BY <1>1, <1>5 DEF FollowInv, Follows
    <2> QED BY <1>1, <1>2, <1>3, <1>4, <1>5, <2>1, <2>2, <2>3, <2>4, ExportStepKeepsTransfer
            DEF TransferBase
<1>6. CASE /\ archive.copy.device # None
           /\ archive' = [archive EXCEPT !.copy.messages = export.copy.messages]
           /\ \/ export' = [export EXCEPT !.step = "retire"]
              \/ export' = Transfer!NoExport
    <2>1. /\ archive' \in Archives /\ archive'.there
          /\ archive'.copy.messages = export.copy.messages
          /\ archive'.copy.device = archive.copy.device /\ archive'.copy.held = archive.copy.held
        BY <1>2, <1>6 DEF Archives, Transfer!Copy
    <2>2. /\ export' \in Exports
          /\ \/ export' = Transfer!NoExport
             \/ export'.step = "retire" /\ export'.at = export.at /\ export'.copy = export.copy
        BY <1>2, <1>6 DEF Exports, ExportSteps
    <2>3. Transfer!Whole(archive'.copy)
        BY <1>2, <1>6, <2>1 DEF Transfer!Whole
    <2>4. ExportInv'
        BY <1>1, <2>1, <2>2, <2>3 DEF ExportInv
    <2>5. Follows(archive.copy.device, archive.copy.held, export.copy.messages)
        BY <1>1, <1>6 DEF FollowInv, ExportInv
    <2>6. Transfer!ArchivedHistoryFollowsIdentity'
        BY <1>1, <1>2, <1>6, <2>1, <2>5 DEF Transfer!ArchivedHistoryFollowsIdentity, Follows
    <2>7. export'.step \notin {"messages", "create", "write"}
        BY <2>2
    <2> QED BY <1>1, <1>3, <1>4, <2>1, <2>2, <2>4, <2>6, <2>7, ExportStepKeepsTransfer
            DEF TransferBase
<1> QED BY <1>5, <1>6 DEF Transfer!writeArchive, Transfer!ExportStep

LEMMA RetireKeepsTransfer == ASSUME TransferInv, Transfer!Retire PROVE TransferInv'
<1> USE TransferConstants DEF TransferInv
<1>1. /\ UNCHANGED <<identity, history, serving, inHand, taken, archive, import, half, lost,
                     troubles>>
      /\ export.step = "retire" /\ export' = Transfer!NoExport
      /\ retired' = retired \cup {export.at} /\ leaving' = leaving \cup {export.at}
    BY DEF Transfer!Retire
<1>2. export.at \in serving /\ Transfer!Whole(archive.copy)
    BY <1>1 DEF ExportInv
<1>3. retired' \subseteq Machines /\ leaving' \subseteq serving
    BY <1>1, <1>2 DEF TransferBase
<1>4. ExportInv'
    BY <1>1 DEF ExportInv
<1>5. Transfer!AccountIsNeverNowhere' /\ Transfer!ArchivedHistoryFollowsIdentity'
    BY <1>1, <1>2 DEF Transfer!AccountIsNeverNowhere, FollowInv,
                      Transfer!ArchivedHistoryFollowsIdentity
<1> QED BY <1>1, <1>3, <1>4, <1>5, ExportStepKeepsTransfer DEF TransferBase

LEMMA ExportFailsKeepsTransfer == ASSUME TransferInv, Transfer!ExportFails PROVE TransferInv'
<1> USE TransferConstants DEF TransferInv
<1>1. /\ UNCHANGED <<identity, history, retired, serving, leaving, inHand, taken, import, half,
                     lost>>
      /\ export' = Transfer!NoExport /\ troubles' \in 0 .. MaxMishaps
      /\ archive' = IF export.step = "write" THEN Transfer!NoFile ELSE archive
    BY DEF Transfer!ExportFails, Transfer!Trouble, TransferBase
<1>2. CASE export.step = "write"
    <2>1. ~Transfer!Whole(archive.copy)
        BY <1>2 DEF ExportInv, Transfer!Whole
    <2>2. import.step = "none"
        BY <2>1 DEF ImportInv, TransferBase, Imports, ImportSteps
    <2>3. ExportInv' /\ Transfer!AccountIsNeverNowhere' /\ Transfer!ArchivedHistoryFollowsIdentity'
        BY <1>1, <1>2, <2>1 DEF ExportInv, Transfer!AccountIsNeverNowhere,
                                Transfer!ArchivedHistoryFollowsIdentity
    <2> QED BY <1>1, <1>2, <2>2, <2>3, ExportStepKeepsTransfer DEF TransferBase
<1>3. CASE export.step # "write"
    <2>1. ExportInv' /\ Transfer!AccountIsNeverNowhere' /\ Transfer!ArchivedHistoryFollowsIdentity'
        BY <1>1, <1>3 DEF ExportInv, Transfer!AccountIsNeverNowhere, FollowInv,
                          Transfer!ArchivedHistoryFollowsIdentity
    <2> QED BY <1>1, <1>3, <2>1, ExportStepKeepsTransfer DEF TransferBase
<1> QED BY <1>2, <1>3

LEMMA DiscardKeepsTransfer == ASSUME TransferInv, Transfer!Discard PROVE TransferInv'
<1> USE TransferConstants DEF TransferInv
<1>1. /\ UNCHANGED <<identity, history, retired, serving, leaving, inHand, taken, export, import,
                     half, lost, troubles>>
      /\ export = Transfer!NoExport /\ import = Transfer!NoImport /\ archive' = Transfer!NoFile
      /\ \/ ~Transfer!Whole(archive.copy)
         \/ \E m \in Machines \ (retired \cup half) : identity[m] # None
    BY DEF Transfer!Discard
<1>2. ExportInv' /\ Transfer!AccountIsNeverNowhere' /\ Transfer!ArchivedHistoryFollowsIdentity'
    BY <1>1 DEF ExportInv, Transfer!AccountIsNeverNowhere, Transfer!ArchivedHistoryFollowsIdentity
<1> QED BY <1>1, <1>2, ExportStepKeepsTransfer DEF TransferBase

LEMMA ImportKeepsTransfer ==
    ASSUME TransferInv, NEW m \in Machines, Transfer!Import(m) PROVE TransferInv'
<1> USE TransferConstants DEF TransferInv
<1>1. /\ m \notin serving /\ import = Transfer!NoImport /\ Transfer!Whole(archive.copy)
      /\ import' = [step |-> "device", at |-> m]
      /\ UNCHANGED <<identity, history, retired, serving, leaving, inHand, taken, export, archive,
                     half, lost, troubles>>
    BY DEF Transfer!Import, Transfer!unpack
<1>2. /\ import' \in Imports /\ import'.step = "device" /\ import'.at = m
      /\ import' # Transfer!NoImport /\ import.step = "none"
    BY <1>1 DEF Imports, ImportSteps
<1>3. TransferBase' /\ ServingInv' /\ ExportInv' /\ ImportInv'
    BY <1>1, <1>2 DEF TransferBase, ServingInv, ExportInv, ImportInv
<1>4. FollowInv' /\ HalfInv'
    BY <1>1, <1>2 DEF FollowInv, Follows, HalfInv, Halfway, Transfer!ArchivedHistoryFollowsIdentity
<1>5. Transfer!AccountIsNeverNowhere'
    BY <1>1 DEF Transfer!AccountIsNeverNowhere
<1> QED BY <1>3, <1>4, <1>5

LEMMA ReplaceKeepsTransfer == ASSUME TransferInv, Transfer!Replace PROVE TransferInv'
<1> USE TransferConstants DEF TransferInv
<1> DEFINE m == import.at
<1>1. /\ UNCHANGED <<serving, leaving, inHand, taken, export, archive, troubles>>
      /\ import.step \in {"device", "messages", "revive"}
    BY DEF Transfer!Replace
<1>2. /\ m \in Machines /\ Transfer!Whole(archive.copy) /\ archive.copy \in Transfer!Copy
      /\ archive.copy.device \in 0 .. MaxMessages /\ archive.copy.held \in 0 .. MaxMessages
      /\ archive.copy.messages \in SUBSET Transfer!Messages
      /\ archive.copy.device # None /\ archive.copy.messages # None
    BY <1>1 DEF ImportInv, TransferBase, Archives, Transfer!Copy, Transfer!Whole
<1>3. m \notin serving /\ import \in Imports
    BY DEF ServingInv, TransferBase
<1>4. export.step = "messages" => export.at \in Machines /\ export.at # m
    BY <1>3 DEF ExportInv, TransferBase
<1>5. CASE /\ import.step = "device"
           /\ identity' = [identity EXCEPT ![import.at] = archive.copy.device]
           /\ import' = [import EXCEPT !.step = "messages"]
           /\ lost' = lost \cup ({archive.copy.held} \ {0})
           /\ UNCHANGED <<history, retired, half>>
    <2>1. /\ import' \in Imports /\ import'.step = "messages" /\ import'.at = m
          /\ import' # Transfer!NoImport
        BY <1>3, <1>5 DEF Imports, ImportSteps
    <2>2. \A x \in Machines : identity'[x] = IF x = m THEN archive.copy.device ELSE identity[x]
        BY <1>5 DEF TransferBase
    <2>3. lost \subseteq lost' /\ lost' \subseteq Transfer!Messages
        <3>1. {archive.copy.held} \ {0} \subseteq Transfer!Messages
            BY <1>2 DEF Transfer!Messages
        <3> QED BY <1>5, <3>1 DEF TransferBase
    <2>4. identity' \in [Machines -> 0 .. MaxMessages \cup {None}]
        BY <1>2, <1>5 DEF TransferBase
    <2>5. TransferBase'
        BY <1>1, <1>5, <2>1, <2>3, <2>4 DEF TransferBase
    <2>6. ServingInv' /\ ExportInv'
        BY <1>1, <1>3, <1>5, <2>1, <2>2 DEF ServingInv, ExportInv, TransferBase
    <2>7. ImportInv'
        BY <1>1, <1>2, <1>5, <2>1, <2>2 DEF ImportInv
    <2>8. FollowInv'
        <3>1. \A x \in Machines : ~Halfway(x)' => Follows(identity[x], inHand[x], history[x])'
            <4> SUFFICES ASSUME NEW x \in Machines, ~Halfway(x)'
                         PROVE  Follows(identity[x], inHand[x], history[x])'
                OBVIOUS
            <4>1. x # m /\ ~Halfway(x)
                BY <1>5, <2>1 DEF Halfway
            <4> QED BY <1>1, <1>5, <2>2, <2>3, <4>1 DEF FollowInv, Follows
        <3> QED BY <1>1, <1>5, <2>3, <3>1
                DEF FollowInv, Follows, Transfer!ArchivedHistoryFollowsIdentity
    <2>9. HalfInv'
        BY <1>5, <2>1, <2>2 DEF HalfInv, Halfway
    <2>10. Transfer!AccountIsNeverNowhere'
        BY <1>1, <1>2 DEF Transfer!AccountIsNeverNowhere
    <2> QED BY <2>5, <2>6, <2>7, <2>8, <2>9, <2>10
<1>6. CASE /\ import.step = "messages"
           /\ history' = [history EXCEPT ![import.at] = archive.copy.messages]
           /\ import' = [import EXCEPT !.step = "revive"]
           /\ UNCHANGED <<identity, retired, half, lost>>
    <2>1. /\ import' \in Imports /\ import'.step = "revive" /\ import'.at = m
          /\ import' # Transfer!NoImport
        BY <1>3, <1>6 DEF Imports, ImportSteps
    <2>2. \A x \in Machines : history'[x] = IF x = m THEN archive.copy.messages ELSE history[x]
        BY <1>6 DEF TransferBase
    <2>3. history' \in [Machines -> (SUBSET Transfer!Messages) \cup {None}]
        BY <1>2, <1>6 DEF TransferBase
    <2>4. TransferBase'
        BY <1>1, <1>6, <2>1, <2>3 DEF TransferBase
    <2>5. ServingInv' /\ ExportInv'
        BY <1>1, <1>3, <1>6, <2>1, <2>2 DEF ServingInv, ExportInv, TransferBase
    <2>6. ImportInv'
        BY <1>1, <1>2, <1>6, <2>1, <2>2 DEF ImportInv
    <2>7. FollowInv'
        <3>1. \A x \in Machines : Follows(identity[x], inHand[x], history[x])'
            <4> SUFFICES ASSUME NEW x \in Machines
                         PROVE  Follows(identity[x], inHand[x], history[x])'
                OBVIOUS
            <4>1. CASE x = m
                <5>1. identity[m] = archive.copy.device /\ archive.copy.held \in lost \cup {0}
                    BY <1>6 DEF ImportInv
                <5>2. 1 .. archive.copy.device \ ({archive.copy.held} \cup lost)
                          \subseteq archive.copy.messages
                    BY <1>2 DEF FollowInv, Transfer!ArchivedHistoryFollowsIdentity
                <5>3. 0 \notin 1 .. archive.copy.device
                    BY <1>2
                <5> QED BY <1>1, <1>2, <1>6, <2>2, <4>1, <5>1, <5>2, <5>3 DEF Follows
            <4>2. CASE x # m
                BY <1>1, <1>6, <2>2, <4>2 DEF FollowInv, Follows, Halfway
            <4> QED BY <4>1, <4>2
        <3> QED BY <1>1, <1>4, <1>6, <2>2, <3>1
                DEF FollowInv, Follows, Transfer!ArchivedHistoryFollowsIdentity
    <2>8. HalfInv'
        BY <1>2, <1>6, <2>1, <2>2 DEF HalfInv, Halfway
    <2>9. Transfer!AccountIsNeverNowhere'
        BY <1>1, <1>2 DEF Transfer!AccountIsNeverNowhere
    <2> QED BY <2>4, <2>5, <2>6, <2>7, <2>8, <2>9
<1>7. CASE /\ import.step = "revive"
           /\ retired' = retired \ {import.at} /\ half' = half \ {import.at}
           /\ import' = Transfer!NoImport
           /\ UNCHANGED <<identity, history, lost>>
    <2>1. import'.step = "none" /\ import'.at = None
        BY <1>7
    <2>2. TransferBase' /\ ExportInv'
        BY <1>1, <1>7 DEF TransferBase, ExportInv
    <2>3. ServingInv' /\ ImportInv'
        BY <1>1, <1>7 DEF TransferBase, ServingInv, ImportInv
    <2>4. FollowInv'
        BY <1>1, <1>7, <2>1 DEF FollowInv, Follows, Halfway, Transfer!ArchivedHistoryFollowsIdentity
    <2>5. HalfInv'
        BY <1>2, <1>7 DEF HalfInv, Halfway, ImportInv
    <2>6. Transfer!AccountIsNeverNowhere'
        BY <1>1, <1>2 DEF Transfer!AccountIsNeverNowhere
    <2> QED BY <2>2, <2>3, <2>4, <2>5, <2>6
<1> QED BY <1>5, <1>6, <1>7 DEF Transfer!Replace

LEMMA ImportFailsKeepsTransfer == ASSUME TransferInv, Transfer!ImportFails PROVE TransferInv'
<1> USE TransferConstants DEF TransferInv
<1> DEFINE m == import.at
<1>1. /\ UNCHANGED <<identity, history, retired, serving, leaving, inHand, taken, export, archive>>
      /\ import # Transfer!NoImport /\ import' = Transfer!NoImport /\ troubles' \in 0 .. MaxMishaps
      /\ half' = IF import.step = "device" THEN half ELSE half \cup {m}
      /\ lost' = IF import.step = "messages" THEN lost \cup 1 .. archive.copy.device ELSE lost
    BY DEF Transfer!ImportFails, Transfer!Trouble, TransferBase
<1>2. /\ m \in Machines /\ Transfer!Whole(archive.copy) /\ import'.step = "none"
      /\ import'.at = None
      /\ archive.copy.device \in 0 .. MaxMessages
    BY <1>1 DEF ImportInv, TransferBase, Archives, Transfer!Copy, Transfer!Whole
<1>3. lost \subseteq lost' /\ lost' \subseteq Transfer!Messages
    BY <1>1, <1>2 DEF TransferBase, Transfer!Messages
<1>4. half \subseteq half' /\ half' \subseteq Machines /\ (Halfway(m) => m \in half')
    BY <1>1, <1>2 DEF TransferBase, Halfway
<1>5. TransferBase'
    BY <1>1, <1>3, <1>4 DEF TransferBase
<1>6. ServingInv' /\ ExportInv' /\ ImportInv'
    BY <1>1, <1>2 DEF TransferBase, ServingInv, ExportInv, ImportInv
<1>7. FollowInv'
    <2>1. \A x \in Machines : Follows(identity[x], inHand[x], history[x])'
        <3> SUFFICES ASSUME NEW x \in Machines PROVE Follows(identity[x], inHand[x], history[x])'
            OBVIOUS
        <3>1. CASE Halfway(x)
            <4>1. identity[x] = archive.copy.device /\ 1 .. archive.copy.device \subseteq lost'
                BY <1>1, <3>1 DEF ImportInv, Halfway
            <4> QED BY <1>1, <4>1 DEF Follows
        <3>2. CASE ~Halfway(x)
            BY <1>1, <1>3, <3>2 DEF FollowInv, Follows
        <3> QED BY <3>1, <3>2
    <2> QED BY <1>1, <1>3, <2>1 DEF FollowInv, Follows, Transfer!ArchivedHistoryFollowsIdentity
<1>8. HalfInv'
    BY <1>1, <1>4 DEF HalfInv, Halfway
<1>9. Transfer!AccountIsNeverNowhere'
    BY <1>1 DEF Transfer!AccountIsNeverNowhere
<1> QED BY <1>5, <1>6, <1>7, <1>8, <1>9

LEMMA StepKeepsTransfer ==
    ASSUME TransferInv, Transfer!Next \/ UNCHANGED accountVars PROVE TransferInv'
<1>1. CASE UNCHANGED accountVars
    BY <1>1 DEF accountVars, TransferInv, TransferBase, ServingInv, ExportInv, ImportInv, FollowInv,
        Follows, HalfInv, Halfway, Transfer!AccountIsNeverNowhere,
        Transfer!ArchivedHistoryFollowsIdentity
<1> QED
    BY <1>1, DaemonKeepsTransfer, ImportKeepsTransfer, ExportKeepsTransfer, snapshotKeepsTransfer,
       createArchiveKeepsTransfer, writeArchiveKeepsTransfer, RetireKeepsTransfer,
       ExportFailsKeepsTransfer, DiscardKeepsTransfer, ReplaceKeepsTransfer,
       ImportFailsKeepsTransfer
    DEF Transfer!Next

LEMMA TransferIsTyped ==
    TransferInv => Transfer!TypeOK /\ Transfer!NoIdentityWithoutHistory
<1> SUFFICES ASSUME TransferInv PROVE Transfer!TypeOK /\ Transfer!NoIdentityWithoutHistory
    OBVIOUS
<1> USE DEF TransferInv
<1>1. Transfer!TypeOK
    BY DEF TransferBase, Transfer!TypeOK, Exports, ExportSteps, Archives, Imports, ImportSteps
<1>2. Transfer!NoIdentityWithoutHistory
    BY DEF HalfInv, Halfway, Transfer!NoIdentityWithoutHistory
<1> QED BY <1>1, <1>2

-----------------------------------------------------------------------------
(* A connection.                                                            *)

Items == [answers : 0 .. MaxRequests, event : 0 .. MaxEvents]
Turns == {"idle", "waiting", "answered", "failed"}

ConnectionBase ==
    /\ follows \in BOOLEAN /\ broken \in BOOLEAN /\ left \in BOOLEAN /\ reading \in BOOLEAN
    /\ cancelled \in BOOLEAN /\ subscribed \in BOOLEAN /\ pumping \in BOOLEAN
    /\ asking \in Callers \cup {Nobody} /\ spent \subseteq Callers
    /\ turn \in [Callers -> Turns]
    /\ next \in 0 .. MaxRequests /\ held \in 0 .. MaxRequests
    /\ sent \in Seq(Connection!Requests)
    /\ working \subseteq Connection!Requests /\ ready \subseteq Connection!Requests
    /\ pipe \in Seq(Items)
    /\ published \in 0 .. MaxEvents /\ pumped \in 0 .. MaxEvents
    /\ queue \in Seq(Connection!Events) /\ heard \in Seq(Connection!Events)
    /\ dropped \subseteq Connection!Events
    /\ Len(queue) <= Buffer /\ slots \in 0 .. Slots
    /\ follows => asking = Nobody

(* Every request that was given out is in one place.                        *)
PlacesInv ==
    /\ \A i \in 1 .. Len(sent) :
          /\ sent[i] <= next /\ sent[i] \notin working \cup ready /\ sent[i] # held
          /\ \A j \in 1 .. Len(sent) : sent[i] = sent[j] => i = j
    /\ held <= next /\ held \notin working \cup ready
    /\ \A r \in working \cup ready : r <= next
    /\ working \cap ready = {}
    /\ \A i \in 1 .. Len(pipe) : pipe[i].answers # 0 =>
          /\ pipe[i].answers <= next /\ pipe[i].answers \notin working \cup ready
          /\ pipe[i].answers # held
          /\ \A j \in 1 .. Len(sent) : sent[j] # pipe[i].answers
          /\ \A j \in 1 .. Len(pipe) : pipe[i].answers = pipe[j].answers => i = j

(* A slot is taken for each request a handler has.                          *)
SlotsInv == IsFiniteSet(working \cup ready) /\ slots = Cardinality(working \cup ready)

(* What was published is heard, in the pipe, in the pump's hand, queued or  *)
(* dropped, and in that order.                                              *)
SortedInv ==
    /\ \A i, j \in 1 .. Len(heard) : i < j => heard[i] < heard[j]
    /\ \A i, j \in 1 .. Len(queue) : i < j => queue[i] < queue[j]
    /\ \A i, j \in 1 .. Len(pipe) :
          i < j /\ pipe[i].event # 0 /\ pipe[j].event # 0 => pipe[i].event < pipe[j].event
HeardInv ==
    \A i \in 1 .. Len(heard) :
        /\ \A j \in 1 .. Len(pipe) : pipe[j].event # 0 => heard[i] < pipe[j].event
        /\ pumped # 0 => heard[i] < pumped
        /\ \A j \in 1 .. Len(queue) : heard[i] < queue[j]
        /\ heard[i] <= published /\ heard[i] \notin dropped
PipeInv ==
    \A i \in 1 .. Len(pipe) : pipe[i].event # 0 =>
        /\ pumped # 0 => pipe[i].event < pumped
        /\ \A j \in 1 .. Len(queue) : pipe[i].event < queue[j]
        /\ pipe[i].event <= published /\ pipe[i].event \notin dropped
QueueInv ==
    /\ pumped # 0 =>
          /\ \A j \in 1 .. Len(queue) : pumped < queue[j]
          /\ pumped <= published /\ pumped \notin dropped
    /\ \A i \in 1 .. Len(queue) : queue[i] <= published /\ queue[i] \notin dropped
    /\ \A e \in dropped : e <= published
Placed(e) ==
    \/ e = pumped
    \/ \E i \in 1 .. Len(heard) : heard[i] = e
    \/ \E i \in 1 .. Len(pipe) : pipe[i].event = e
    \/ \E i \in 1 .. Len(queue) : queue[i] = e
AccountedInv == \A e \in 1 .. published : e \notin dropped => Placed(e)

EventsInv == SortedInv /\ HeardInv /\ PipeInv /\ QueueInv /\ AccountedInv

ConnectionInv ==
    ConnectionBase /\ PlacesInv /\ SlotsInv /\ EventsInv /\ Connection!AnswersAreOwn

LEMMA ConnectionConstants ==
    /\ Nobody \notin Callers /\ Slots \in Nat \ {0} /\ Buffer \in Nat \ {0} /\ Pipe \in Nat \ {0}
    /\ MaxRequests \in Nat /\ MaxEvents \in Nat
    /\ Connection!Requests = 1 .. MaxRequests /\ Connection!Events = 1 .. MaxEvents
    /\ Connection!Torn \in Items /\ Connection!Torn.answers = 0 /\ Connection!Torn.event = 0
    /\ \A r \in 0 .. MaxRequests : /\ Connection!Answer(r) \in Items
                                   /\ Connection!Answer(r).answers = r
                                   /\ Connection!Answer(r).event = 0
    /\ \A e \in 0 .. MaxEvents : /\ Connection!Told(e) \in Items
                                 /\ Connection!Told(e).answers = 0
                                 /\ Connection!Told(e).event = e
BY CallsAssumption
DEF Connection!ConnectionAssumption, Connection!Requests, Connection!Events, Connection!Torn, Items,
    Connection!Answer, Connection!Told

LEMMA TailIs ==
    ASSUME NEW S, NEW s \in Seq(S), s # <<>>
    PROVE  /\ Len(s) \in Nat \ {0} /\ Tail(s) \in Seq(S) /\ Len(Tail(s)) = Len(s) - 1
           /\ \A i \in 1 .. Len(s) - 1 : Tail(s)[i] = s[i + 1]
           /\ Head(s) = s[1] /\ Head(s) \in S
OBVIOUS

LEMMA AppendIs ==
    ASSUME NEW S, NEW s \in Seq(S), NEW x \in S
    PROVE  /\ Len(s) \in Nat /\ Append(s, x) \in Seq(S) /\ Len(Append(s, x)) = Len(s) + 1
           /\ \A i \in 1 .. Len(s) : Append(s, x)[i] = s[i]
           /\ Append(s, x)[Len(s) + 1] = x
OBVIOUS

(* The members of what is under way, one by one.                            *)
LEMMA UnderWayIs ==
    ASSUME ConnectionBase
    PROVE  \A r : r \in Connection!UnderWay <=>
               r # 0 /\ \/ \E i \in 1 .. Len(sent) : sent[i] = r
                        \/ r = held \/ r \in working \cup ready
                        \/ \E i \in 1 .. Len(pipe) : pipe[i].answers = r
<1>1. DOMAIN sent = 1 .. Len(sent) /\ DOMAIN pipe = 1 .. Len(pipe)
    BY DEF ConnectionBase
<1> QED BY <1>1 DEF Connection!UnderWay, Connection!Range

LEMMA InitConnection == Connection!Init => ConnectionInv
<1> SUFFICES ASSUME Connection!Init PROVE ConnectionInv OBVIOUS
<1> USE ConnectionConstants DEF Connection!Init
<1>1. Len(sent) = 0 /\ Len(pipe) = 0 /\ Len(queue) = 0 /\ Len(heard) = 0
    OBVIOUS
<1>2. ConnectionBase
    <2>1. /\ sent \in Seq(Connection!Requests) /\ pipe \in Seq(Items)
          /\ queue \in Seq(Connection!Events)
          /\ heard \in Seq(Connection!Events)
        OBVIOUS
    <2>2. turn \in [Callers -> Turns]
        BY DEF Turns
    <2>3. follows \in BOOLEAN /\ broken \in BOOLEAN /\ left \in BOOLEAN /\ reading \in BOOLEAN
        OBVIOUS
    <2>4. cancelled \in BOOLEAN /\ subscribed \in BOOLEAN /\ pumping \in BOOLEAN
        OBVIOUS
    <2> QED BY <1>1, <2>1, <2>2, <2>3, <2>4 DEF ConnectionBase
<1>3. PlacesInv /\ EventsInv
    BY <1>1 DEF PlacesInv, EventsInv, SortedInv, HeardInv, PipeInv, QueueInv, AccountedInv
<1>4. SlotsInv
    BY FS_EmptySet DEF SlotsInv
<1>5. Connection!AnswersAreOwn
    BY <1>1, <1>2, UnderWayIs DEF Connection!AnswersAreOwn
<1> QED BY <1>2, <1>3, <1>4, <1>5 DEF ConnectionInv

(* The client takes the first envelope of the pipe.                         *)
LEMMA HearKeepsPlaces ==
    ASSUME ConnectionInv, pipe # <<>>, pipe' = Tail(pipe),
           UNCHANGED <<next, sent, held, working, ready>>
    PROVE  PlacesInv' /\ pipe' \in Seq(Items)
<1>1. /\ Len(pipe) \in Nat \ {0} /\ pipe' \in Seq(Items) /\ Len(pipe') = Len(pipe) - 1
      /\ \A i \in 1 .. Len(pipe') : pipe'[i] = pipe[i + 1] /\ i + 1 \in 1 .. Len(pipe)
    BY TailIs DEF ConnectionInv, ConnectionBase
<1>2. PlacesInv
    BY DEF ConnectionInv
<1>3. \A i \in 1 .. Len(pipe') : pipe'[i].answers # 0 =>
          /\ pipe'[i].answers <= next /\ pipe'[i].answers \notin working \cup ready
          /\ pipe'[i].answers # held
          /\ \A j \in 1 .. Len(sent) : sent[j] # pipe'[i].answers
    BY <1>1, <1>2 DEF PlacesInv
<1>4. \A i, j \in 1 .. Len(pipe') :
          pipe'[i].answers # 0 /\ pipe'[i].answers = pipe'[j].answers => i = j
    <2> SUFFICES ASSUME NEW i \in 1 .. Len(pipe'), NEW j \in 1 .. Len(pipe'),
                        pipe'[i].answers # 0, pipe'[i].answers = pipe'[j].answers
                 PROVE  i = j
        OBVIOUS
    <2>1. pipe[i + 1].answers # 0 /\ pipe[i + 1].answers = pipe[j + 1].answers
        BY <1>1
    <2>2. i + 1 = j + 1
        BY <1>1, <1>2, <2>1 DEF PlacesInv
    <2> QED BY <2>2
<1> QED BY <1>1, <1>2, <1>3, <1>4 DEF PlacesInv

LEMMA HearKeepsEvents ==
    ASSUME ConnectionInv, pipe # <<>>, pipe' = Tail(pipe), Connection!Hear,
           UNCHANGED <<pumped, queue, published, dropped>>
    PROVE  EventsInv' /\ heard' \in Seq(Connection!Events)
<1> DEFINE e == Head(pipe).event
<1>1. /\ Len(pipe) \in Nat \ {0} /\ Len(pipe') = Len(pipe) - 1
      /\ \A i \in 1 .. Len(pipe') : pipe'[i] = pipe[i + 1] /\ i + 1 \in 2 .. Len(pipe)
      /\ \A i \in 2 .. Len(pipe) : i - 1 \in 1 .. Len(pipe') /\ pipe[i] = pipe'[i - 1]
      /\ e = pipe[1].event /\ e \in 0 .. MaxEvents
    <2>1. /\ Len(pipe) \in Nat \ {0} /\ Len(pipe') = Len(pipe) - 1
          /\ \A i \in 1 .. Len(pipe) - 1 : pipe'[i] = pipe[i + 1]
          /\ Head(pipe) = pipe[1] /\ Head(pipe) \in Items
        BY TailIs DEF ConnectionInv, ConnectionBase
    <2>2. \A i \in 2 .. Len(pipe) : i - 1 \in 1 .. Len(pipe) - 1 /\ (i - 1) + 1 = i
        BY <2>1
    <2> QED BY <2>1, <2>2 DEF Items
<1>2. EventsInv /\ heard \in Seq(Connection!Events) /\ Len(heard) \in Nat
    BY DEF ConnectionInv, ConnectionBase
<1> HIDE DEF e
<1>u. UNCHANGED <<pumped, queue, published, dropped>> /\ published \in Nat
    BY DEF ConnectionInv, ConnectionBase
<1>3. CASE e = 0
    <2>1. heard' = heard
        BY <1>3 DEF Connection!Hear, e
    <2>2. \A x \in 1 .. published : x \notin dropped =>
              \/ x = pumped
              \/ \E i \in 1 .. Len(heard) : heard[i] = x
              \/ \E i \in 1 .. Len(pipe') : pipe'[i].event = x
              \/ \E i \in 1 .. Len(queue) : queue[i] = x
        <3> SUFFICES ASSUME NEW x \in 1 .. published, NEW i \in 1 .. Len(pipe), pipe[i].event = x
                     PROVE  \E j \in 1 .. Len(pipe') : pipe'[j].event = x
            BY <1>2 DEF EventsInv, SortedInv, HeardInv, PipeInv, QueueInv, AccountedInv, Placed
        <3>0. pipe[1].event = 0 /\ x \in Nat \ {0}
            BY <1>1, <1>3, <1>u
        <3>1. i # 1
            BY <3>0
        <3>2. i \in 2 .. Len(pipe)
            BY <1>1, <3>1
        <3> QED BY <1>1, <3>2
    <2>3. \A i, j \in 1 .. Len(pipe') : i < j => i + 1 < j + 1
        OBVIOUS
    <2>4. \A i, j \in 1 .. Len(pipe') :
              i < j /\ pipe'[i].event # 0 /\ pipe'[j].event # 0 => pipe'[i].event < pipe'[j].event
        <3> SUFFICES ASSUME NEW i \in 1 .. Len(pipe'), NEW j \in 1 .. Len(pipe'), i < j,
                            pipe'[i].event # 0, pipe'[j].event # 0
                     PROVE  pipe'[i].event < pipe'[j].event
            OBVIOUS
        <3>1. i + 1 \in 1 .. Len(pipe) /\ j + 1 \in 1 .. Len(pipe) /\ i + 1 < j + 1
            BY <1>1
        <3> QED
            BY <1>1, <1>2, <3>1 DEF EventsInv, SortedInv, HeardInv, PipeInv, QueueInv,
                                    AccountedInv, Placed
    <2>5. \A i \in 1 .. Len(pipe') : pipe'[i] = pipe[i + 1] /\ i + 1 \in 1 .. Len(pipe)
        BY <1>1
    <2>6. SortedInv'
        BY <1>2, <1>u, <2>1, <2>4 DEF EventsInv, SortedInv
    <2>7. HeardInv' /\ PipeInv'
        BY <1>2, <1>u, <2>1, <2>5 DEF EventsInv, HeardInv, PipeInv
    <2>8. QueueInv' /\ AccountedInv'
        BY <1>2, <1>u, <2>1, <2>2 DEF EventsInv, QueueInv, AccountedInv, Placed
    <2> QED BY <1>2, <2>1, <2>6, <2>7, <2>8 DEF EventsInv
<1>4. CASE e # 0
    <2>1. heard' = Append(heard, e) /\ e \in Connection!Events
        BY <1>1, <1>4, ConnectionConstants DEF Connection!Hear, e
    <2>2. /\ heard' \in Seq(Connection!Events) /\ Len(heard') = Len(heard) + 1
          /\ \A i \in 1 .. Len(heard) : heard'[i] = heard[i]
          /\ heard'[Len(heard) + 1] = e
        BY <1>2, <2>1, AppendIs
    <2>3. 1 \in 1 .. Len(pipe) /\ pipe[1].event = e
        BY <1>1
    <2>4. /\ \A i \in 1 .. Len(heard) : heard[i] < e
          /\ pumped # 0 => e < pumped
          /\ \A j \in 1 .. Len(queue) : e < queue[j]
          /\ e <= published /\ e \notin dropped
          /\ \A j \in 2 .. Len(pipe) : pipe[j].event # 0 => e < pipe[j].event
        <3>1. \A j \in 2 .. Len(pipe) : j \in 1 .. Len(pipe) /\ 1 < j
            BY <1>1
        <3> QED
            BY <1>2, <1>4, <2>3, <3>1 DEF EventsInv, SortedInv, HeardInv, PipeInv, QueueInv,
                                          AccountedInv, Placed
    <2>5. \A i \in 1 .. Len(heard') : i \in 1 .. Len(heard) \/ i = Len(heard) + 1
        BY <1>2, <2>2
    <2>6. \A i, j \in 1 .. Len(heard') : i < j => heard'[i] < heard'[j]
        <3> SUFFICES ASSUME NEW i \in 1 .. Len(heard'), NEW j \in 1 .. Len(heard'), i < j
                     PROVE  heard'[i] < heard'[j]
            OBVIOUS
        <3>1. i \in 1 .. Len(heard)
            BY <1>2, <2>2
        <3> QED
            BY <1>2, <2>2, <2>4, <2>5, <3>1 DEF EventsInv, SortedInv, HeardInv, PipeInv, QueueInv,
                                                AccountedInv, Placed
    <2>7. \A i \in 1 .. Len(pipe') :
              pipe'[i] = pipe[i + 1] /\ i + 1 \in 2 .. Len(pipe) /\ i + 1 \in 1 .. Len(pipe)
        BY <1>1
    <2>8. \A i \in 1 .. Len(heard') :
              /\ \A j \in 1 .. Len(pipe') : pipe'[j].event # 0 => heard'[i] < pipe'[j].event
              /\ pumped # 0 => heard'[i] < pumped
              /\ \A j \in 1 .. Len(queue) : heard'[i] < queue[j]
              /\ heard'[i] <= published /\ heard'[i] \notin dropped
        <3> SUFFICES ASSUME NEW i \in 1 .. Len(heard')
                     PROVE  /\ \A j \in 1 .. Len(pipe') :
                                   pipe'[j].event # 0 => heard'[i] < pipe'[j].event
                            /\ pumped # 0 => heard'[i] < pumped
                            /\ \A j \in 1 .. Len(queue) : heard'[i] < queue[j]
                            /\ heard'[i] <= published /\ heard'[i] \notin dropped
            OBVIOUS
        <3>1. CASE i \in 1 .. Len(heard)
            <4>1. /\ \A j \in 1 .. Len(pipe) : pipe[j].event # 0 => heard[i] < pipe[j].event
                  /\ pumped # 0 => heard[i] < pumped
                  /\ \A j \in 1 .. Len(queue) : heard[i] < queue[j]
                  /\ heard[i] <= published /\ heard[i] \notin dropped
                BY <1>2, <3>1 DEF EventsInv, HeardInv
            <4>2. heard'[i] = heard[i]
                BY <2>2, <3>1
            <4> QED BY <2>7, <4>1, <4>2
        <3>2. CASE i = Len(heard) + 1
            BY <2>2, <2>4, <2>7, <3>2
        <3> QED BY <2>5, <3>1, <3>2
    <2>9. \A i, j \in 1 .. Len(pipe') :
              i < j /\ pipe'[i].event # 0 /\ pipe'[j].event # 0 => pipe'[i].event < pipe'[j].event
        <3> SUFFICES ASSUME NEW i \in 1 .. Len(pipe'), NEW j \in 1 .. Len(pipe'), i < j,
                            pipe'[i].event # 0, pipe'[j].event # 0
                     PROVE  pipe'[i].event < pipe'[j].event
            OBVIOUS
        <3>1. i + 1 \in 1 .. Len(pipe) /\ j + 1 \in 1 .. Len(pipe) /\ i + 1 < j + 1
            BY <1>1
        <3> QED
            BY <1>1, <1>2, <3>1 DEF EventsInv, SortedInv, HeardInv, PipeInv, QueueInv,
                                    AccountedInv, Placed
    <2>10. \A x \in 1 .. published : x \notin dropped =>
              \/ x = pumped
              \/ \E i \in 1 .. Len(heard') : heard'[i] = x
              \/ \E i \in 1 .. Len(pipe') : pipe'[i].event = x
              \/ \E i \in 1 .. Len(queue) : queue[i] = x
        <3> SUFFICES ASSUME NEW x \in 1 .. published, x \notin dropped, x # pumped,
                            \A i \in 1 .. Len(queue) : queue[i] # x
                     PROVE  \/ \E i \in 1 .. Len(heard') : heard'[i] = x
                            \/ \E i \in 1 .. Len(pipe') : pipe'[i].event = x
            OBVIOUS
        <3>1. CASE \E i \in 1 .. Len(heard) : heard[i] = x
            BY <1>2, <2>2, <3>1
        <3>2. ASSUME NEW i \in 1 .. Len(pipe), pipe[i].event = x
              PROVE  \/ \E j \in 1 .. Len(heard') : heard'[j] = x
                     \/ \E j \in 1 .. Len(pipe') : pipe'[j].event = x
            <4>1. CASE i = 1
                <5>1. Len(heard) + 1 \in 1 .. Len(heard')
                    BY <1>2, <2>2
                <5> QED BY <2>2, <2>3, <3>2, <4>1, <5>1
            <4>2. CASE i # 1
                <5>1. i \in 2 .. Len(pipe)
                    BY <1>1, <4>2
                <5> QED BY <1>1, <3>2, <5>1
            <4> QED BY <4>1, <4>2
        <3> QED
            BY <1>2, <3>1, <3>2 DEF EventsInv, SortedInv, HeardInv, PipeInv, QueueInv,
                                    AccountedInv, Placed
    <2>11. SortedInv'
        BY <1>2, <1>u, <2>6, <2>9 DEF EventsInv, SortedInv
    <2>12. HeardInv'
        BY <1>u, <2>8 DEF HeardInv
    <2>13. PipeInv'
        BY <1>2, <1>u, <2>7 DEF EventsInv, PipeInv
    <2>14. QueueInv' /\ AccountedInv'
        BY <1>2, <1>u, <2>10 DEF EventsInv, QueueInv, AccountedInv, Placed
    <2> QED BY <2>2, <2>11, <2>12, <2>13, <2>14 DEF EventsInv
<1> QED BY <1>3, <1>4

(* What the server writes that is no event.                                 *)
Quiet == \/ pipe' = pipe
         \/ \E x \in Items : x.event = 0 /\ pipe' = Append(pipe, x)

LEMMA QuietIs ==
    ASSUME ConnectionBase, Quiet
    PROVE  /\ pipe' \in Seq(Items) /\ Len(pipe) \in Nat /\ Len(pipe') \in Nat
           /\ Len(pipe) <= Len(pipe')
           /\ \A i \in 1 .. Len(pipe) : i \in 1 .. Len(pipe') /\ pipe'[i] = pipe[i]
           /\ \A i \in 1 .. Len(pipe') : pipe'[i].event # 0 => i \in 1 .. Len(pipe)
<1>1. pipe \in Seq(Items)
    BY DEF ConnectionBase
<1>2. CASE pipe' = pipe
    BY <1>1, <1>2
<1>3. ASSUME NEW x \in Items, x.event = 0, pipe' = Append(pipe, x)
      PROVE  /\ pipe' \in Seq(Items) /\ Len(pipe) \in Nat /\ Len(pipe') \in Nat
             /\ Len(pipe) <= Len(pipe')
             /\ \A i \in 1 .. Len(pipe) : i \in 1 .. Len(pipe') /\ pipe'[i] = pipe[i]
             /\ \A i \in 1 .. Len(pipe') : pipe'[i].event # 0 => i \in 1 .. Len(pipe)
    <2>1. /\ Len(pipe) \in Nat /\ pipe' \in Seq(Items) /\ Len(pipe') = Len(pipe) + 1
          /\ \A i \in 1 .. Len(pipe) : pipe'[i] = pipe[i]
          /\ pipe'[Len(pipe) + 1] = x
        BY <1>1, <1>3, AppendIs
    <2>2. \A i \in 1 .. Len(pipe') : i \in 1 .. Len(pipe) \/ i = Len(pipe) + 1
        BY <2>1
    <2> QED BY <1>3, <2>1, <2>2
<1> QED BY <1>2, <1>3 DEF Quiet

LEMMA QuietKeepsEvents ==
    ASSUME ConnectionInv, Quiet, UNCHANGED <<heard, pumped, queue, published, dropped>>
    PROVE  EventsInv'
<1>1. /\ Len(pipe) <= Len(pipe')
      /\ \A i \in 1 .. Len(pipe) : i \in 1 .. Len(pipe') /\ pipe'[i] = pipe[i]
      /\ \A i \in 1 .. Len(pipe') : pipe'[i].event # 0 => i \in 1 .. Len(pipe) /\ pipe'[i] = pipe[i]
    BY QuietIs DEF ConnectionInv
<1> USE DEF ConnectionInv, EventsInv
<1>2. SortedInv' BY <1>1 DEF SortedInv
<1>3. HeardInv' BY <1>1 DEF HeardInv
<1>4. PipeInv' BY <1>1 DEF PipeInv
<1>5. QueueInv' BY DEF QueueInv
<1>6. AccountedInv' BY <1>1 DEF AccountedInv, Placed
<1> QED BY <1>2, <1>3, <1>4, <1>5, <1>6

LEMMA TellKeepsEvents ==
    ASSUME ConnectionInv, pumped # 0, pumped' = 0, UNCHANGED <<heard, queue, published>>,
           \/ pipe' = Append(pipe, Connection!Told(pumped)) /\ dropped' = dropped
           \/ Quiet /\ dropped' = dropped \cup {pumped}
    PROVE  EventsInv' /\ pipe' \in Seq(Items) /\ dropped' \subseteq Connection!Events
<1>1. /\ pumped \in Nat /\ pumped \in Connection!Events /\ published \in Nat
      /\ dropped \subseteq Connection!Events /\ pumped <= published /\ pumped \notin dropped
      /\ Connection!Events \subseteq Nat
    BY ConnectionConstants DEF ConnectionInv, ConnectionBase, EventsInv, QueueInv
<1> USE DEF ConnectionInv, EventsInv
<1>2. CASE pipe' = Append(pipe, Connection!Told(pumped)) /\ dropped' = dropped
    <2>1. /\ Len(pipe) \in Nat /\ pipe' \in Seq(Items) /\ Len(pipe') = Len(pipe) + 1
          /\ \A i \in 1 .. Len(pipe) : pipe'[i] = pipe[i]
          /\ pipe'[Len(pipe) + 1].event = pumped
        BY <1>2, AppendIs, ConnectionConstants DEF ConnectionBase
    <2>2. /\ \A i \in 1 .. Len(pipe') : i \in 1 .. Len(pipe) \/ i = Len(pipe) + 1
          /\ \A i, j \in 1 .. Len(pipe') : i < j => i \in 1 .. Len(pipe)
          /\ \A i \in 1 .. Len(pipe) : i \in 1 .. Len(pipe')
          /\ Len(pipe) + 1 \in 1 .. Len(pipe')
        BY <2>1
    <2>3. SortedInv'
        <3>1. \A i \in 1 .. Len(pipe) : pipe[i].event # 0 => pipe[i].event < pumped
            BY DEF PipeInv
        <3>2. \A i, j \in 1 .. Len(pipe') :
                  i < j /\ pipe'[i].event # 0 /\ pipe'[j].event # 0
                      => pipe'[i].event < pipe'[j].event
            BY <2>1, <2>2, <3>1 DEF SortedInv
        <3> QED BY <3>2 DEF SortedInv
    <2>4. HeardInv' /\ PipeInv'
        BY <1>1, <1>2, <2>1, <2>2 DEF HeardInv, PipeInv, QueueInv
    <2>5. QueueInv' /\ AccountedInv'
        BY <1>2, <2>1, <2>2 DEF QueueInv, AccountedInv, Placed
    <2> QED BY <1>1, <1>2, <2>1, <2>3, <2>4, <2>5
<1>3. CASE Quiet /\ dropped' = dropped \cup {pumped}
    <2>1. /\ Len(pipe) <= Len(pipe') /\ pipe' \in Seq(Items)
          /\ \A i \in 1 .. Len(pipe) : i \in 1 .. Len(pipe') /\ pipe'[i] = pipe[i]
          /\ \A i \in 1 .. Len(pipe') :
                pipe'[i].event # 0 => i \in 1 .. Len(pipe) /\ pipe'[i] = pipe[i]
        BY <1>3, QuietIs
    <2>2. SortedInv' BY <2>1 DEF SortedInv
    <2>3. HeardInv'
        <3>1. \A i \in 1 .. Len(heard) : heard[i] # pumped
            BY <1>1 DEF HeardInv
        <3> QED BY <1>3, <2>1, <3>1 DEF HeardInv
    <2>4. PipeInv'
        <3>1. \A i \in 1 .. Len(pipe) : pipe[i].event # 0 => pipe[i].event # pumped
            BY <1>1 DEF PipeInv
        <3> QED BY <1>3, <2>1, <3>1 DEF PipeInv
    <2>5. QueueInv'
        <3>1. \A i \in 1 .. Len(queue) : queue[i] # pumped
            BY <1>1 DEF QueueInv
        <3> QED BY <1>1, <1>3, <3>1 DEF QueueInv
    <2>6. AccountedInv' BY <1>3, <2>1 DEF AccountedInv, Placed
    <2> QED BY <1>1, <1>3, <2>1, <2>2, <2>3, <2>4, <2>5, <2>6
<1> QED BY <1>2, <1>3

LEMMA PumpKeepsEvents ==
    ASSUME ConnectionInv, pumped = 0, queue # <<>>, pumped' = Head(queue), queue' = Tail(queue),
           UNCHANGED <<heard, pipe, published, dropped>>
    PROVE  EventsInv' /\ queue' \in Seq(Connection!Events) /\ Len(queue') <= Buffer
           /\ pumped' \in 1 .. MaxEvents
<1>1. /\ Len(queue) \in Nat \ {0} /\ queue' \in Seq(Connection!Events)
      /\ Len(queue') = Len(queue) - 1
      /\ \A i \in 1 .. Len(queue') :
             queue'[i] = queue[i + 1] /\ i + 1 \in 1 .. Len(queue) /\ 1 < i + 1
      /\ pumped' = queue[1] /\ pumped' \in Connection!Events /\ 1 \in 1 .. Len(queue)
      /\ \A i \in 1 .. Len(queue) : i = 1 \/ i - 1 \in 1 .. Len(queue')
      /\ \A i \in 1 .. Len(queue) : i # 1 => queue[i] = queue'[i - 1]
    <2>1. /\ Len(queue) \in Nat \ {0} /\ queue' \in Seq(Connection!Events)
          /\ Len(queue') = Len(queue) - 1
          /\ \A i \in 1 .. Len(queue) - 1 : queue'[i] = queue[i + 1]
          /\ Head(queue) = queue[1] /\ Head(queue) \in Connection!Events
        BY TailIs DEF ConnectionInv, ConnectionBase
    <2>2. \A i \in 1 .. Len(queue) : i # 1 => i - 1 \in 1 .. Len(queue) - 1 /\ (i - 1) + 1 = i
        BY <2>1
    <2>3. \A i \in 1 .. Len(queue) : i # 1 => queue[i] = queue'[i - 1]
        BY <2>1, <2>2
    <2> QED BY <2>1, <2>2, <2>3
<1> USE DEF ConnectionInv, EventsInv
<1>2. \A i, j \in 1 .. Len(queue') : i < j => i + 1 < j + 1
    OBVIOUS
<1>3. \A i \in 1 .. Len(queue') : pumped' < queue'[i]
    BY <1>1 DEF SortedInv
<1>4. \A i, j \in 1 .. Len(queue') : i < j => queue'[i] < queue'[j]
    BY <1>1, <1>2 DEF SortedInv
<1>5. SortedInv' BY <1>4 DEF SortedInv
<1>6. HeardInv' BY <1>1 DEF HeardInv
<1>7. PipeInv' BY <1>1 DEF PipeInv
<1>8. QueueInv' BY <1>1, <1>3 DEF QueueInv
<1>9. AccountedInv'
    <2> SUFFICES ASSUME NEW e \in 1 .. published, e \notin dropped PROVE Placed(e)'
        BY DEF AccountedInv
    <2>1. Placed(e) /\ e # 0
        BY DEF AccountedInv
    <2>2. ASSUME NEW i \in 1 .. Len(queue), queue[i] = e PROVE Placed(e)'
        <3>1. CASE i = 1
            BY <1>1, <2>2, <3>1 DEF Placed
        <3>2. CASE i # 1
            BY <1>1, <2>2, <3>2 DEF Placed
        <3> QED BY <3>1, <3>2
    <2> QED BY <2>1, <2>2 DEF Placed
<1>10. Len(queue') <= Buffer
    BY <1>1, ConnectionConstants DEF ConnectionBase
<1> QED BY <1>1, <1>5, <1>6, <1>7, <1>8, <1>9, <1>10, ConnectionConstants

LEMMA PublishKeepsEvents ==
    ASSUME ConnectionInv, Connection!Publish
    PROVE  EventsInv' /\ queue' \in Seq(Connection!Events) /\ Len(queue') <= Buffer
           /\ published' \in 0 .. MaxEvents /\ dropped' \subseteq Connection!Events
<1> DEFINE new == published + 1
<1>a. /\ published \in 0 .. MaxEvents /\ MaxEvents \in Nat /\ dropped \subseteq Connection!Events
      /\ Connection!Events = 1 .. MaxEvents
    BY ConnectionConstants DEF ConnectionInv, ConnectionBase
<1>b. published < MaxEvents /\ published' = new /\ UNCHANGED <<heard, pipe, pumped>>
    BY DEF Connection!Publish, Connection!client
<1>1. /\ published \in Nat /\ published < MaxEvents /\ published' = new /\ new \in Connection!Events
      /\ new \in Nat /\ published < new /\ dropped \subseteq Connection!Events
      /\ UNCHANGED <<heard, pipe, pumped>> /\ published' \in 0 .. MaxEvents
    BY <1>a, <1>b
<1>c. \A e \in 1 .. new : e \in 1 .. published \/ e = new
    BY <1>a
<1>t. /\ \A i \in 1 .. Len(heard) : heard[i] \in Nat
      /\ \A i \in 1 .. Len(pipe) : pipe[i].event \in Nat
      /\ \A i \in 1 .. Len(queue) : queue[i] \in Nat /\ queue[i] # 0
      /\ \A e \in dropped : e \in Nat
      /\ pumped \in Nat /\ Len(queue) \in Nat
    <2>1. /\ heard \in Seq(Connection!Events) /\ queue \in Seq(Connection!Events)
          /\ pipe \in Seq(Items) /\ pumped \in 0 .. MaxEvents
        BY DEF ConnectionInv, ConnectionBase
    <2>2. \A i \in 1 .. Len(heard) : heard[i] \in Connection!Events
        BY <2>1
    <2>3. \A i \in 1 .. Len(queue) : queue[i] \in Connection!Events
        BY <2>1
    <2>4. \A i \in 1 .. Len(pipe) : pipe[i] \in Items
        BY <2>1
    <2>5. \A i \in 1 .. Len(pipe) : pipe[i].event \in Nat
        BY <2>4 DEF Items
    <2>6. Len(queue) \in Nat
        BY <2>1
    <2> QED BY <1>a, <2>1, <2>2, <2>3, <2>5, <2>6
<1> HIDE DEF new
<1> USE DEF ConnectionInv, EventsInv
<1>2. /\ \A i \in 1 .. Len(heard) : heard[i] < new /\ heard[i] <= new
      /\ \A i \in 1 .. Len(pipe) : pipe[i].event # 0 => pipe[i].event < new /\ pipe[i].event <= new
      /\ pumped # 0 => pumped < new /\ pumped <= new
      /\ \A i \in 1 .. Len(queue) : queue[i] < new /\ queue[i] <= new
      /\ \A e \in dropped : e < new /\ e <= new
    BY <1>1, <1>t DEF HeardInv, PipeInv, QueueInv
<1>3. CASE queue' = Append(queue, new) /\ dropped' = dropped /\ Len(queue) < Buffer
    <2>1. /\ queue' \in Seq(Connection!Events) /\ Len(queue') = Len(queue) + 1
          /\ \A i \in 1 .. Len(queue) : queue'[i] = queue[i]
          /\ queue'[Len(queue) + 1] = new
        BY <1>1, <1>3, AppendIs DEF ConnectionBase
    <2>2. /\ \A i \in 1 .. Len(queue') : i \in 1 .. Len(queue) \/ i = Len(queue) + 1
          /\ \A i, j \in 1 .. Len(queue') : i < j => i \in 1 .. Len(queue)
          /\ \A i \in 1 .. Len(queue) : i \in 1 .. Len(queue')
          /\ Len(queue) + 1 \in 1 .. Len(queue') /\ Len(queue') <= Buffer
        BY <1>3, <1>t, <2>1, ConnectionConstants
    <2>3. \A i, j \in 1 .. Len(queue') : i < j => queue'[i] < queue'[j]
        BY <1>2, <2>1, <2>2 DEF SortedInv
    <2>4. SortedInv' BY <1>1, <2>3 DEF SortedInv
    <2>5. HeardInv' BY <1>1, <1>2, <1>3, <2>1, <2>2 DEF HeardInv
    <2>6. PipeInv' BY <1>1, <1>2, <1>3, <2>1, <2>2 DEF PipeInv
    <2>7. QueueInv'
        <3>1. new \notin dropped BY <1>1, <1>2
        <3> QED BY <1>1, <1>2, <1>3, <2>1, <2>2, <3>1 DEF QueueInv
    <2>8. AccountedInv'
        <3> SUFFICES ASSUME NEW e \in 1 .. published', e \notin dropped' PROVE Placed(e)'
            BY DEF AccountedInv
        <3>1. CASE e = new
            BY <2>1, <2>2, <3>1 DEF Placed
        <3>2. CASE e # new
            <4>1. Placed(e)
                BY <1>1, <1>c, <1>3, <3>2 DEF AccountedInv
            <4> QED BY <1>1, <2>1, <2>2, <4>1 DEF Placed
        <3> QED BY <3>1, <3>2
    <2> QED BY <1>1, <1>3, <2>1, <2>2, <2>4, <2>5, <2>6, <2>7, <2>8
<1>4. CASE queue' = queue /\ dropped' = dropped \cup {new}
    <2>1. SortedInv' BY <1>1, <1>4 DEF SortedInv
    <2>2. HeardInv'
        <3>1. \A i \in 1 .. Len(heard) : heard[i] # new BY <1>1, <1>2, <1>t
        <3> QED BY <1>1, <1>2, <1>4, <3>1 DEF HeardInv
    <2>3. PipeInv'
        <3>1. \A i \in 1 .. Len(pipe) : pipe[i].event # 0 => pipe[i].event # new BY <1>1, <1>2, <1>t
        <3> QED BY <1>1, <1>2, <1>4, <3>1 DEF PipeInv
    <2>4. QueueInv'
        <3>1. \A i \in 1 .. Len(queue) : queue[i] # new BY <1>1, <1>2, <1>t
        <3>2. pumped # 0 => pumped # new BY <1>1, <1>2, <1>t
        <3> QED BY <1>1, <1>2, <1>4, <3>1, <3>2 DEF QueueInv
    <2>5. AccountedInv' BY <1>1, <1>c, <1>4 DEF AccountedInv, Placed
    <2> QED BY <1>1, <1>4, <2>1, <2>2, <2>3, <2>4, <2>5 DEF ConnectionBase
<1> QED BY <1>3, <1>4 DEF Connection!Publish, new

LEMMA UnderWayIsNext ==
    ASSUME ConnectionBase'
    PROVE  \A r : r \in Connection!UnderWay' <=>
               r # 0 /\ \/ \E i \in 1 .. Len(sent') : sent'[i] = r
                        \/ r = held' \/ r \in working' \cup ready'
                        \/ \E i \in 1 .. Len(pipe') : pipe'[i].answers = r
<1>1. DOMAIN sent' = 1 .. Len(sent') /\ DOMAIN pipe' = 1 .. Len(pipe')
    BY DEF ConnectionBase
<1> QED BY <1>1 DEF Connection!UnderWay, Connection!Range

(* What keeps the answers where they are when no request comes to the       *)
(* connection and no call begins or ends.                                   *)
LEMMA AnswersStayOwn ==
    ASSUME ConnectionInv, ConnectionBase', UNCHANGED <<asking, next>>, broken => broken',
           reading' => reading, cancelled => cancelled',
           \A r : r \in Connection!UnderWay' => r \in Connection!UnderWay,
           reading' /\ ~cancelled' => \A r : r \in Connection!UnderWay => r \in Connection!UnderWay'
    PROVE  Connection!AnswersAreOwn'
<1>1. Connection!AnswersAreOwn
    BY DEF ConnectionInv
<1> QED BY <1>1 DEF Connection!AnswersAreOwn

LEMMA AskKeepsConnection ==
    ASSUME ConnectionInv, NEW c \in Callers, Connection!Ask(c)
    PROVE  ConnectionInv'
<1>1. /\ ~follows /\ ~left /\ asking = Nobody /\ next < MaxRequests
      /\ asking' = c /\ next' = next + 1 /\ turn' = [turn EXCEPT ![c] = "waiting"]
      /\ sent' = IF reading THEN Append(sent, next + 1) ELSE sent
      /\ UNCHANGED <<follows, broken, left, heard, spent>>
      /\ UNCHANGED <<held, slots, working, ready, reading, cancelled, pipe>>
      /\ UNCHANGED <<subscribed, pumping, queue, pumped, published, dropped>>
    BY DEF Connection!Ask, Connection!client, Connection!server, Connection!pump
<1>2. ConnectionBase /\ PlacesInv /\ SlotsInv /\ Connection!AnswersAreOwn
    BY DEF ConnectionInv
<1>3. next \in Nat /\ next + 1 \in 1 .. MaxRequests /\ next + 1 \in Connection!Requests
    BY <1>1, <1>2, ConnectionConstants DEF ConnectionBase
<1>4. sent \in Seq(Connection!Requests) /\ Len(sent) \in Nat
      /\ \A i \in 1 .. Len(sent) : sent[i] \in Connection!Requests
    BY <1>2 DEF ConnectionBase
<1>5. /\ sent' \in Seq(Connection!Requests)
      /\ \/ sent' = sent /\ ~reading
         \/ /\ reading /\ Len(sent') = Len(sent) + 1 /\ sent'[Len(sent) + 1] = next + 1
            /\ \A i \in 1 .. Len(sent) : sent'[i] = sent[i]
    BY <1>1, <1>3, <1>4, AppendIs
<1>6. ConnectionBase'
    <2>1. turn' \in [Callers -> Turns]
        BY <1>1, <1>2 DEF ConnectionBase, Turns
    <2>2. /\ asking' \in Callers \cup {Nobody} /\ next' \in 0 .. MaxRequests
          /\ follows => asking' = Nobody
        BY <1>1, <1>3
    <2> QED BY <1>1, <1>2, <1>5, <2>1, <2>2 DEF ConnectionBase
<1>7. /\ \A i \in 1 .. Len(sent) : sent[i] < next + 1
      /\ held < next + 1 /\ \A r \in working \cup ready : r < next + 1
      /\ \A i \in 1 .. Len(pipe) : pipe[i].answers < next + 1
      /\ \A i \in 1 .. Len(sent) : sent[i] <= next + 1
      /\ held <= next + 1 /\ \A r \in working \cup ready : r <= next + 1
      /\ \A i \in 1 .. Len(pipe) : pipe[i].answers <= next + 1
    <2>1. \A r \in working \cup ready \cup {held} : r \in Nat
        BY <1>2, ConnectionConstants DEF ConnectionBase
    <2>2. \A i \in 1 .. Len(pipe) : pipe[i] \in Items
        BY <1>2 DEF ConnectionBase
    <2>3. \A i \in 1 .. Len(pipe) : pipe[i].answers \in Nat
        BY <2>2, ConnectionConstants DEF Items
    <2>4. \A i \in 1 .. Len(sent) : sent[i] \in Nat
        BY <1>4, ConnectionConstants
    <2>5. /\ \A i \in 1 .. Len(sent) : sent[i] <= next
          /\ held <= next /\ \A r \in working \cup ready : r <= next
        BY <1>2 DEF PlacesInv
    <2>6. \A i \in 1 .. Len(pipe) : pipe[i].answers <= next
        <3> SUFFICES ASSUME NEW i \in 1 .. Len(pipe) PROVE pipe[i].answers <= next
            OBVIOUS
        <3>1. pipe[i].answers # 0 => pipe[i].answers <= next
            BY <1>2 DEF PlacesInv
        <3> QED BY <1>3, <3>1
    <2>7. \A a \in Nat : a <= next => a < next + 1 /\ a <= next + 1
        BY <1>3
    <2>8. held \in Nat /\ \A r \in working \cup ready : r \in Nat
        BY <2>1
    <2>9. /\ \A i \in 1 .. Len(sent) : sent[i] < next + 1 /\ sent[i] <= next + 1
          /\ held < next + 1 /\ held <= next + 1
        BY <2>4, <2>5, <2>7, <2>8
    <2>10. \A r \in working \cup ready : r < next + 1 /\ r <= next + 1
        BY <2>5, <2>7, <2>8
    <2>11. \A i \in 1 .. Len(pipe) : pipe[i].answers < next + 1 /\ pipe[i].answers <= next + 1
        BY <2>3, <2>6, <2>7
    <2> QED BY <2>9, <2>10, <2>11
<1>8. PlacesInv'
    <2>1. \A i \in 1 .. Len(sent') :
              /\ sent'[i] <= next + 1 /\ sent'[i] \notin working \cup ready /\ sent'[i] # held
              /\ \A j \in 1 .. Len(pipe) : pipe[j].answers # sent'[i]
              /\ \A j \in 1 .. Len(sent') : sent'[i] = sent'[j] => i = j
        <3>1. CASE sent' = sent
            <4>1. \A i \in 1 .. Len(sent) : sent[i] # 0
                BY <1>4, ConnectionConstants
            <4>2. \A i \in 1 .. Len(sent) : \A j \in 1 .. Len(pipe) : pipe[j].answers # sent[i]
                BY <1>2, <4>1 DEF PlacesInv
            <4> QED BY <1>2, <1>7, <3>1, <4>2 DEF PlacesInv
        <3>2. CASE /\ Len(sent') = Len(sent) + 1 /\ sent'[Len(sent) + 1] = next + 1
                   /\ \A i \in 1 .. Len(sent) : sent'[i] = sent[i]
            <4>1. \A i \in 1 .. Len(sent') : i \in 1 .. Len(sent) \/ i = Len(sent) + 1
                BY <1>4, <3>2
            <4>2. /\ next + 1 \notin working \cup ready /\ next + 1 # held
                  /\ \A j \in 1 .. Len(pipe) : pipe[j].answers # next + 1
                  /\ \A j \in 1 .. Len(sent) : sent[j] # next + 1
                BY <1>3, <1>7
            <4>4. next + 1 <= next + 1
                BY <1>3
            <4>3. \A i \in 1 .. Len(sent) :
                      /\ sent[i] \notin working \cup ready /\ sent[i] # held /\ sent[i] # 0
                      /\ \A j \in 1 .. Len(pipe) : pipe[j].answers # sent[i]
                      /\ \A j \in 1 .. Len(sent) : sent[i] = sent[j] => i = j
                <5>1. \A i \in 1 .. Len(sent) : sent[i] # 0
                    BY <1>4, ConnectionConstants
                <5> QED BY <1>2, <5>1 DEF PlacesInv
            <4>5. \A i \in 1 .. Len(sent) :
                      sent'[i] = sent[i] /\ sent[i] <= next + 1 /\ sent[i] # next + 1
                <5>1. \A i \in 1 .. Len(sent) : sent'[i] = sent[i]
                    BY <3>2
                <5>2. \A i \in 1 .. Len(sent) : sent[i] <= next + 1
                    BY <1>7
                <5>3. \A i \in 1 .. Len(sent) : sent[i] # next + 1
                    BY <4>2
                <5> QED BY <5>1, <5>2, <5>3
            <4>6. ASSUME NEW i \in 1 .. Len(sent'), NEW j \in 1 .. Len(sent'), sent'[i] = sent'[j]
                  PROVE  i = j
                BY <3>2, <4>1, <4>3, <4>5, <4>6
            <4>7. ASSUME NEW i \in 1 .. Len(sent')
                  PROVE  /\ sent'[i] <= next + 1 /\ sent'[i] \notin working \cup ready
                         /\ sent'[i] # held
                         /\ \A j \in 1 .. Len(pipe) : pipe[j].answers # sent'[i]
                BY <3>2, <4>1, <4>2, <4>3, <4>4, <4>5
            <4> QED BY <4>6, <4>7
        <3> QED BY <1>5, <3>1, <3>2
    <2>2. \A i, j \in 1 .. Len(pipe) :
              pipe[i].answers # 0 /\ pipe[i].answers = pipe[j].answers => i = j
        BY <1>2 DEF PlacesInv
    <2>3. \A i \in 1 .. Len(pipe) : pipe[i].answers # 0 =>
              pipe[i].answers \notin working \cup ready /\ pipe[i].answers # held
        BY <1>2 DEF PlacesInv
    <2>4. /\ held <= next + 1 /\ \A r \in working \cup ready : r <= next + 1
          /\ \A i \in 1 .. Len(pipe) : pipe[i].answers <= next + 1
        BY <1>7
    <2>5. held \notin working \cup ready /\ working \cap ready = {}
        BY <1>2 DEF PlacesInv
    <2> QED BY <1>1, <2>1, <2>2, <2>3, <2>4, <2>5 DEF PlacesInv
<1>9. SlotsInv'
    BY <1>1, <1>2 DEF SlotsInv
<1>10. EventsInv'
    BY <1>1, QuietKeepsEvents DEF Quiet
<1>11. Connection!AnswersAreOwn'
    <2> SUFFICES ASSUME ~broken
                 PROVE  /\ Connection!UnderWay' \subseteq {next'}
                        /\ reading => next' \in Connection!UnderWay'
        <3>1. asking' # Nobody
            BY <1>1, ConnectionConstants
        <3> QED BY <1>1, <3>1 DEF Connection!AnswersAreOwn
    <2>1. \A r : r \notin Connection!UnderWay
        BY <1>1, <1>2 DEF Connection!AnswersAreOwn
    <2>2. \A r : r # 0 => /\ \A i \in 1 .. Len(sent) : sent[i] # r
                          /\ r # held /\ r \notin working \cup ready
                          /\ \A i \in 1 .. Len(pipe) : pipe[i].answers # r
        BY <1>2, <2>1, UnderWayIs
    <2>3. \A r : r \in Connection!UnderWay' <=> r # 0 /\ \E i \in 1 .. Len(sent') : sent'[i] = r
        BY <1>1, <1>6, <2>2, UnderWayIsNext
    <2>4. \A i \in 1 .. Len(sent) : FALSE
        <3>1. \A i \in 1 .. Len(sent) : sent[i] # 0
            BY <1>4, ConnectionConstants
        <3> QED BY <2>2, <3>1
    <2>5. CASE sent' = sent /\ ~reading
        BY <2>3, <2>4, <2>5
    <2>6. CASE /\ Len(sent') = Len(sent) + 1 /\ sent'[Len(sent) + 1] = next + 1
        <3>1. \A i \in 1 .. Len(sent') : i = Len(sent) + 1
            BY <1>4, <2>4, <2>6
        <3>2. Len(sent) + 1 \in 1 .. Len(sent')
            BY <1>4, <2>6
        <3> QED BY <1>1, <1>3, <2>3, <2>6, <3>1, <3>2
    <2> QED BY <1>5, <2>5, <2>6
<1> QED BY <1>6, <1>8, <1>9, <1>10, <1>11 DEF ConnectionInv
(* What the client reads is an event, or the answer to the call.            *)
LEMMA ReadsKeepConnection ==
    ASSUME ConnectionInv, Connection!Reading, Connection!Hear,
           UNCHANGED <<follows, next, broken, left, spent, sent>>,
           UNCHANGED <<Connection!server, Connection!pump>>,
           turn' \in [Callers -> Turns],
           \/ asking' = asking /\ (asking # Nobody => Head(pipe).answers # next)
           \/ asking' = Nobody /\ asking # Nobody /\ Head(pipe).answers = next
    PROVE  ConnectionInv'
<1>1. /\ ~broken /\ pipe # <<>> /\ pipe' = Tail(pipe)
      /\ UNCHANGED <<held, slots, working, ready, reading, cancelled>>
      /\ UNCHANGED <<subscribed, pumping, queue, pumped, published, dropped>>
    BY DEF Connection!Reading, Connection!Readable, Connection!server, Connection!pump
<1>2. ConnectionBase /\ PlacesInv /\ SlotsInv /\ Connection!AnswersAreOwn
    BY DEF ConnectionInv
<1>3. PlacesInv' /\ pipe' \in Seq(Items)
    BY <1>1, HearKeepsPlaces
<1>4. EventsInv' /\ heard' \in Seq(Connection!Events)
    BY <1>1, HearKeepsEvents
<1>5. ConnectionBase'
    BY <1>1, <1>2, <1>3, <1>4 DEF ConnectionBase
<1>6. SlotsInv'
    BY <1>1, <1>2 DEF SlotsInv
<1>7. /\ Len(pipe) \in Nat \ {0} /\ Len(pipe') = Len(pipe) - 1 /\ Head(pipe) = pipe[1]
      /\ \A i \in 1 .. Len(pipe') : pipe'[i] = pipe[i + 1] /\ i + 1 \in 1 .. Len(pipe) /\ i + 1 # 1
      /\ \A i \in 1 .. Len(pipe) :
             i # 1 => i - 1 \in 1 .. Len(pipe') /\ pipe[i] = pipe'[i - 1]
    <2>1. /\ Len(pipe) \in Nat \ {0} /\ Len(pipe') = Len(pipe) - 1 /\ Head(pipe) = pipe[1]
          /\ \A i \in 1 .. Len(pipe) - 1 : pipe'[i] = pipe[i + 1]
        BY <1>1, <1>2, TailIs DEF ConnectionBase
    <2>2. \A i \in 1 .. Len(pipe) : i # 1 => i - 1 \in 1 .. Len(pipe) - 1 /\ (i - 1) + 1 = i
        BY <2>1
    <2>3. \A i \in 1 .. Len(pipe) : i # 1 => pipe[i] = pipe'[i - 1]
        BY <2>1, <2>2
    <2>4. \A i \in 1 .. Len(pipe') :
              i \in 1 .. Len(pipe) - 1 /\ i + 1 \in 1 .. Len(pipe) /\ i + 1 # 1
        BY <2>1
    <2>5. \A i \in 1 .. Len(pipe') : pipe'[i] = pipe[i + 1]
        BY <2>1, <2>4
    <2>6. \A i \in 1 .. Len(pipe) : i # 1 => i - 1 \in 1 .. Len(pipe')
        BY <2>1, <2>2
    <2> QED BY <2>1, <2>3, <2>4, <2>5, <2>6
<1> DEFINE read == pipe[1].answers
<1>8. read # 0 => read \in Connection!UnderWay
    <2>1. 1 \in 1 .. Len(pipe)
        BY <1>7
    <2> QED BY <1>2, <2>1, UnderWayIs
<1>9. \A r : r # read => (r \in Connection!UnderWay' <=> r \in Connection!UnderWay)
    <2>1. \A r : r # read =>
              ((\E i \in 1 .. Len(pipe') : pipe'[i].answers = r) <=>
                   \E i \in 1 .. Len(pipe) : pipe[i].answers = r)
        BY <1>7
    <2> QED BY <1>1, <1>2, <1>5, <2>1, UnderWayIs, UnderWayIsNext
<1>10. read # 0 => read \notin Connection!UnderWay'
    <2> SUFFICES ASSUME read # 0, read \in Connection!UnderWay' PROVE FALSE
        OBVIOUS
    <2>1. 1 \in 1 .. Len(pipe)
        BY <1>7
    <2>2. /\ \A j \in 1 .. Len(sent) : sent[j] # read
          /\ read \notin working \cup ready /\ read # held
          /\ \A j \in 1 .. Len(pipe) : pipe[j].answers = read => j = 1
        BY <1>2, <2>1 DEF PlacesInv
    <2>3. \A i \in 1 .. Len(pipe') : pipe'[i].answers # read
        BY <1>7, <2>2
    <2> QED BY <1>1, <1>5, <2>2, <2>3, UnderWayIsNext
<1> HIDE DEF read
<1>11. 0 \notin Connection!UnderWay /\ 0 \notin Connection!UnderWay'
    BY <1>2, <1>5, UnderWayIs, UnderWayIsNext
<1>12. /\ Connection!UnderWay \subseteq (IF asking = Nobody THEN {} ELSE {next})
       /\ asking # Nobody /\ reading /\ ~cancelled => next \in Connection!UnderWay
    BY <1>1, <1>2 DEF Connection!AnswersAreOwn
<1>13. Connection!AnswersAreOwn'
    <2>1. CASE asking' = asking /\ (asking # Nobody => read # next)
        <3>1. read = 0
            BY <1>8, <1>12, <2>1
        <3>2. \A r : r \in Connection!UnderWay' <=> r \in Connection!UnderWay
            BY <1>9, <1>11, <3>1
        <3> QED BY <1>1, <1>12, <2>1, <3>2 DEF Connection!AnswersAreOwn
    <2>2. CASE asking' = Nobody /\ asking # Nobody /\ read = next
        <3>1. \A r : r \notin Connection!UnderWay'
            BY <1>9, <1>10, <1>11, <1>12, <2>2
        <3> QED BY <2>2, <3>1 DEF Connection!AnswersAreOwn
    <2> QED BY <1>7, <2>1, <2>2 DEF read
<1> QED BY <1>3, <1>4, <1>5, <1>6, <1>13 DEF ConnectionInv

LEMMA ReceiveKeepsConnection ==
    ASSUME ConnectionInv, Connection!Receive \/ Connection!Follow
    PROVE  ConnectionInv'
<1>1. ConnectionBase
    BY DEF ConnectionInv
<1>2. CASE Connection!Receive
    <2>1. turn' \in [Callers -> Turns]
        BY <1>1, <1>2 DEF Connection!Receive, Connection!EndCall, ConnectionBase, Turns
    <2> QED BY <1>2, <2>1, ReadsKeepConnection DEF Connection!Receive, Connection!EndCall
<1>3. CASE Connection!Follow
    <2>1. asking = Nobody /\ turn' \in [Callers -> Turns] /\ asking' = asking
        BY <1>1, <1>3 DEF Connection!Follow, ConnectionBase
    <2> QED BY <1>3, <2>1, ReadsKeepConnection DEF Connection!Follow
<1> QED BY <1>2, <1>3

(* What touches nothing but the client's own books.                         *)
LEMMA ClientKeepsConnection ==
    ASSUME ConnectionInv, UNCHANGED <<follows, next, heard, sent, pipe>>,
           UNCHANGED <<Connection!server, Connection!pump>>,
           left' \in BOOLEAN, spent' \subseteq Callers, turn' \in [Callers -> Turns],
           \/ broken' = broken /\ asking' = asking
           \/ broken' = TRUE /\ (asking' = asking \/ asking' = Nobody)
    PROVE  ConnectionInv'
<1>1. /\ UNCHANGED <<held, slots, working, ready, reading, cancelled>>
      /\ UNCHANGED <<subscribed, pumping, queue, pumped, published, dropped>>
    BY DEF Connection!server, Connection!pump
<1>2. ConnectionBase /\ PlacesInv /\ SlotsInv /\ Connection!AnswersAreOwn
    BY DEF ConnectionInv
<1>3. ConnectionBase'
    <2>1. broken' \in BOOLEAN
        BY <1>2 DEF ConnectionBase
    <2>2. asking' \in Callers \cup {Nobody} /\ (follows' => asking' = Nobody)
        BY <1>2 DEF ConnectionBase
    <2> QED BY <1>1, <1>2, <2>1, <2>2 DEF ConnectionBase
<1>4. PlacesInv'
    BY <1>1, <1>2 DEF PlacesInv
<1>5. SlotsInv'
    BY <1>1, <1>2 DEF SlotsInv
<1>6. EventsInv'
    BY <1>1, QuietKeepsEvents DEF Quiet
<1>7. Connection!UnderWay' = Connection!UnderWay
    BY <1>1 DEF Connection!UnderWay, Connection!Range
<1>8. Connection!AnswersAreOwn'
    BY <1>1, <1>2, <1>7 DEF Connection!AnswersAreOwn
<1> QED BY <1>3, <1>4, <1>5, <1>6, <1>8 DEF ConnectionInv

LEMMA OwnStepsKeepConnection ==
    ASSUME ConnectionInv,
           \/ Connection!TimeOut \/ Connection!Fail \/ Connection!Leave
           \/ \E c \in Callers : Connection!Again(c)
    PROVE  ConnectionInv'
<1>1. ConnectionBase
    BY DEF ConnectionInv
<1>2. CASE Connection!TimeOut
    <2>1. turn' \in [Callers -> Turns] /\ spent' \subseteq Callers /\ left' \in BOOLEAN
        BY <1>1, <1>2 DEF Connection!TimeOut, Connection!EndCall, ConnectionBase, Turns
    <2> QED BY <1>2, <2>1, ClientKeepsConnection DEF Connection!TimeOut, Connection!EndCall
<1>3. CASE Connection!Fail
    <2>1. turn' \in [Callers -> Turns] /\ spent' \subseteq Callers /\ left' \in BOOLEAN
        BY <1>1, <1>3 DEF Connection!Fail, Connection!EndCall, ConnectionBase, Turns
    <2> QED BY <1>3, <2>1, ClientKeepsConnection DEF Connection!Fail, Connection!EndCall
<1>4. CASE Connection!Leave
    <2>1. turn' \in [Callers -> Turns] /\ spent' \subseteq Callers /\ left' \in BOOLEAN
        BY <1>1, <1>4 DEF Connection!Leave, ConnectionBase
    <2> QED BY <1>4, <2>1, ClientKeepsConnection DEF Connection!Leave
<1>5. ASSUME NEW c \in Callers, Connection!Again(c) PROVE ConnectionInv'
    <2>1. turn' \in [Callers -> Turns] /\ spent' \subseteq Callers /\ left' \in BOOLEAN
        BY <1>1, <1>5 DEF Connection!Again, ConnectionBase, Turns
    <2> QED BY <1>5, <2>1, ClientKeepsConnection DEF Connection!Again
<1> QED BY <1>2, <1>3, <1>4, <1>5

LEMMA DecodeKeepsConnection ==
    ASSUME ConnectionInv, Connection!Decode
    PROVE  ConnectionInv'
<1>1. /\ held = 0 /\ reading
      /\ UNCHANGED <<follows, asking, turn, next, broken, left, heard, spent>>
      /\ UNCHANGED <<slots, working, ready, cancelled, pipe>>
      /\ UNCHANGED <<subscribed, pumping, queue, pumped, published, dropped>>
    BY DEF Connection!Decode, Connection!client, Connection!pump
<1>2. ConnectionBase /\ PlacesInv /\ SlotsInv
    BY DEF ConnectionInv
<1>3. EventsInv'
    BY <1>1, QuietKeepsEvents DEF Quiet
<1>4. SlotsInv'
    BY <1>1, <1>2 DEF SlotsInv
<1>5. CASE sent # <<>> /\ held' = Head(sent) /\ sent' = Tail(sent) /\ reading' = reading
    <2>1. /\ Len(sent) \in Nat \ {0} /\ sent' \in Seq(Connection!Requests)
          /\ Len(sent') = Len(sent) - 1 /\ held' = sent[1] /\ held' \in Connection!Requests
          /\ \A i \in 1 .. Len(sent) - 1 : sent'[i] = sent[i + 1]
        BY <1>2, <1>5, TailIs DEF ConnectionBase
    <2>2. /\ \A i \in 1 .. Len(sent) : i # 1 => i - 1 \in 1 .. Len(sent) - 1 /\ (i - 1) + 1 = i
          /\ \A i \in 1 .. Len(sent') : i + 1 \in 1 .. Len(sent) /\ i + 1 # 1
          /\ 1 \in 1 .. Len(sent)
        BY <2>1
    <2>3. \A i \in 1 .. Len(sent) : i # 1 => i - 1 \in 1 .. Len(sent') /\ sent[i] = sent'[i - 1]
        BY <2>1, <2>2
    <2>4. \A i \in 1 .. Len(sent') : sent'[i] = sent[i + 1]
        BY <2>1
    <2>5. ConnectionBase'
        <3>1. held' \in 0 .. MaxRequests
            BY <2>1, ConnectionConstants
        <3> QED BY <1>1, <1>2, <1>5, <2>1, <3>1 DEF ConnectionBase
    <2>6. \A i \in 1 .. Len(sent) : sent[i] # 0
        BY <1>2, ConnectionConstants DEF ConnectionBase
    <2>7. PlacesInv'
        <3>1. \A i, j \in 1 .. Len(sent') : sent'[i] = sent'[j] => i = j
            <4> SUFFICES ASSUME NEW i \in 1 .. Len(sent'), NEW j \in 1 .. Len(sent'),
                                sent'[i] = sent'[j]
                         PROVE  i = j
                OBVIOUS
            <4>1. i + 1 \in 1 .. Len(sent) /\ j + 1 \in 1 .. Len(sent) /\ sent[i + 1] = sent[j + 1]
                BY <2>2, <2>4
            <4>2. i + 1 = j + 1
                BY <1>2, <4>1 DEF PlacesInv
            <4> QED BY <4>2
        <3>2. \A i \in 1 .. Len(sent') :
                  sent'[i] <= next /\ sent'[i] \notin working \cup ready /\ sent'[i] # held'
            <4>1. \A i \in 1 .. Len(sent) : i # 1 => sent[i] # sent[1]
                BY <1>2, <2>2 DEF PlacesInv
            <4> SUFFICES ASSUME NEW i \in 1 .. Len(sent')
                         PROVE  /\ sent'[i] <= next /\ sent'[i] \notin working \cup ready
                                /\ sent'[i] # held'
                OBVIOUS
            <4>2. i + 1 \in 1 .. Len(sent) /\ i + 1 # 1 /\ sent'[i] = sent[i + 1]
                BY <2>2, <2>4
            <4>3. sent[i + 1] <= next /\ sent[i + 1] \notin working \cup ready
                BY <1>2, <4>2 DEF PlacesInv
            <4> QED BY <2>1, <4>1, <4>2, <4>3
        <3>3. held' <= next /\ held' \notin working \cup ready
            BY <1>2, <2>1, <2>2 DEF PlacesInv
        <3>4. \A i \in 1 .. Len(pipe) : pipe[i].answers # 0 =>
                  /\ pipe[i].answers # held'
                  /\ \A j \in 1 .. Len(sent') : sent'[j] # pipe[i].answers
            BY <1>2, <2>1, <2>2, <2>4 DEF PlacesInv
        <3> QED BY <1>1, <1>2, <3>1, <3>2, <3>3, <3>4 DEF PlacesInv
    <2>8. \A r : r \in Connection!UnderWay' <=> r \in Connection!UnderWay
        <3>1. \A r : (\E i \in 1 .. Len(sent) : sent[i] = r) <=>
                         r = held' \/ \E i \in 1 .. Len(sent') : sent'[i] = r
            BY <2>1, <2>2, <2>3, <2>4
        <3> QED BY <1>1, <1>2, <2>5, <2>6, <3>1, UnderWayIs, UnderWayIsNext
    <2>9. Connection!AnswersAreOwn'
        BY <1>1, <1>5, <2>5, <2>8, AnswersStayOwn
    <2> QED BY <1>3, <1>4, <2>5, <2>7, <2>9 DEF ConnectionInv
<1>6. CASE reading' = FALSE /\ held' = held /\ sent' = sent
    <2>1. ConnectionBase'
        BY <1>1, <1>2, <1>6 DEF ConnectionBase
    <2>2. PlacesInv'
        BY <1>1, <1>2, <1>6 DEF PlacesInv
    <2>3. Connection!UnderWay' = Connection!UnderWay
        BY <1>1, <1>6 DEF Connection!UnderWay, Connection!Range
    <2>4. Connection!AnswersAreOwn'
        BY <1>1, <1>6, <2>1, <2>3, AnswersStayOwn
    <2> QED BY <1>3, <1>4, <2>1, <2>2, <2>4 DEF ConnectionInv
<1> QED BY <1>5, <1>6 DEF Connection!Decode

LEMMA TakeSlotKeepsConnection ==
    ASSUME ConnectionInv, Connection!TakeSlot
    PROVE  ConnectionInv'
<1>1. /\ held # 0 /\ held' = 0
      /\ UNCHANGED <<follows, asking, turn, next, broken, left, heard, spent>>
      /\ UNCHANGED <<ready, cancelled, sent, pipe>>
      /\ UNCHANGED <<subscribed, pumping, queue, pumped, published, dropped>>
      /\ \/ /\ slots < Slots /\ slots' = slots + 1 /\ working' = working \cup {held}
            /\ reading' = reading
         \/ cancelled /\ reading' = FALSE /\ slots' = slots /\ working' = working
    BY DEF Connection!TakeSlot, Connection!client, Connection!pump
<1>2. ConnectionBase /\ PlacesInv /\ SlotsInv
    BY DEF ConnectionInv
<1>3. held \in Connection!Requests /\ held \notin working \cup ready /\ 0 \notin Connection!Requests
    BY <1>1, <1>2, ConnectionConstants DEF ConnectionBase, PlacesInv
<1>4. EventsInv'
    BY <1>1, QuietKeepsEvents DEF Quiet
<1>5. SlotsInv' /\ slots' \in 0 .. Slots
    <2>1. (working \cup {held}) \cup ready = (working \cup ready) \cup {held}
        OBVIOUS
    <2>2. /\ IsFiniteSet((working \cup ready) \cup {held})
          /\ Cardinality((working \cup ready) \cup {held}) = Cardinality(working \cup ready) + 1
        BY <1>2, <1>3, FS_AddElement DEF SlotsInv
    <2>3. slots \in 0 .. Slots /\ Slots \in Nat
        BY <1>2, ConnectionConstants DEF ConnectionBase
    <2> QED BY <1>1, <1>2, <2>1, <2>2, <2>3 DEF SlotsInv
<1>6. ConnectionBase'
    <2>1. working' \subseteq Connection!Requests
        BY <1>1, <1>2, <1>3 DEF ConnectionBase
    <2>2. reading' \in BOOLEAN
        BY <1>1, <1>2 DEF ConnectionBase
    <2>3. held' \in 0 .. MaxRequests
        BY <1>1, ConnectionConstants
    <2> QED BY <1>1, <1>2, <1>5, <2>1, <2>2, <2>3 DEF ConnectionBase
<1>7. PlacesInv'
    <2>1. /\ \A i \in 1 .. Len(sent) : sent[i] # 0 /\ sent[i] # held
          /\ \A i \in 1 .. Len(pipe) : pipe[i].answers # 0 => pipe[i].answers # held
          /\ held <= next /\ 0 <= next
        <3>1. \A i \in 1 .. Len(sent) : sent[i] \in Connection!Requests
            BY <1>2 DEF ConnectionBase
        <3>2. 0 <= next
            BY <1>2, ConnectionConstants DEF ConnectionBase
        <3> QED BY <1>2, <1>3, <3>1, <3>2 DEF PlacesInv
    <2>2. 0 \notin working' \cup ready
        BY <1>2, <1>6, <1>3 DEF ConnectionBase
    <2>3. \A r \in working' \cup ready : r \in working \cup ready \/ r = held
        BY <1>1
    <2>4. working' \cap ready = {}
        BY <1>1, <1>2, <1>3 DEF PlacesInv
    <2> QED BY <1>1, <1>2, <2>1, <2>2, <2>3, <2>4 DEF PlacesInv
<1>8. \A r : r \in Connection!UnderWay' => r \in Connection!UnderWay
    BY <1>1, <1>2, <1>6, UnderWayIs, UnderWayIsNext
<1>9. reading' => \A r : r \in Connection!UnderWay => r \in Connection!UnderWay'
    BY <1>1, <1>2, <1>6, UnderWayIs, UnderWayIsNext
<1>10. Connection!AnswersAreOwn'
    <2>1. reading' => reading
        BY <1>1
    <2> QED BY <1>1, <1>6, <1>8, <1>9, <2>1, AnswersStayOwn
<1> QED BY <1>4, <1>5, <1>6, <1>7, <1>10 DEF ConnectionInv

LEMMA HandleKeepsConnection ==
    ASSUME ConnectionInv, NEW r \in Connection!Requests, Connection!Handle(r)
    PROVE  ConnectionInv'
<1>1. /\ r \in working /\ working' = working \ {r} /\ ready' = ready \cup {r}
      /\ UNCHANGED <<follows, asking, turn, next, broken, left, heard, spent>>
      /\ UNCHANGED <<held, slots, reading, cancelled, sent, pipe>>
      /\ UNCHANGED <<subscribed, pumping, queue, pumped, published, dropped>>
    BY DEF Connection!Handle, Connection!client, Connection!pump
<1>2. ConnectionBase /\ PlacesInv /\ SlotsInv
    BY DEF ConnectionInv
<1>3. EventsInv'
    BY <1>1, QuietKeepsEvents DEF Quiet
<1>4. working' \cup ready' = working \cup ready
    BY <1>1
<1>5. SlotsInv'
    BY <1>1, <1>2, <1>4 DEF SlotsInv
<1>6. ConnectionBase'
    BY <1>1, <1>2 DEF ConnectionBase
<1>7. PlacesInv'
    <2>1. working' \cap ready' = {}
        BY <1>1, <1>2 DEF PlacesInv
    <2> QED BY <1>1, <1>2, <1>4, <2>1 DEF PlacesInv
<1>8. \A q : q \in Connection!UnderWay' <=> q \in Connection!UnderWay
    BY <1>1, <1>2, <1>4, <1>6, UnderWayIs, UnderWayIsNext
<1>9. Connection!AnswersAreOwn'
    BY <1>1, <1>6, <1>8, AnswersStayOwn
<1> QED BY <1>3, <1>5, <1>6, <1>7, <1>9 DEF ConnectionInv
(* What a write leaves in the pipe.                                         *)
LEMMA WrittenIs ==
    ASSUME ConnectionBase, NEW x \in Items, pipe' = Append(pipe, x)
    PROVE  /\ pipe' \in Seq(Items) /\ Len(pipe) \in Nat
           /\ \A i \in 1 .. Len(pipe) : i \in 1 .. Len(pipe') /\ pipe'[i] = pipe[i]
           /\ \A i \in 1 .. Len(pipe') : i \in 1 .. Len(pipe) \/ i = Len(pipe) + 1
           /\ Len(pipe) + 1 \in 1 .. Len(pipe') /\ pipe'[Len(pipe) + 1] = x
<1>1. pipe \in Seq(Items)
    BY DEF ConnectionBase
<1>2. /\ Len(pipe) \in Nat /\ pipe' \in Seq(Items) /\ Len(pipe') = Len(pipe) + 1
      /\ \A i \in 1 .. Len(pipe) : pipe'[i] = pipe[i]
      /\ pipe'[Len(pipe) + 1] = x
    BY <1>1, AppendIs
<1> QED BY <1>2

(* No answer is written: the pipe is as it was, or has an event or the rest *)
(* of a broken write more.                                                  *)
Unanswering == \/ pipe' = pipe
               \/ \E x \in Items : x.answers = 0 /\ pipe' = Append(pipe, x)

LEMMA UnansweringIs ==
    ASSUME ConnectionBase, Unanswering
    PROVE  /\ \A i \in 1 .. Len(pipe) : i \in 1 .. Len(pipe') /\ pipe'[i] = pipe[i]
           /\ \A i \in 1 .. Len(pipe') :
                 pipe'[i].answers # 0 => i \in 1 .. Len(pipe) /\ pipe'[i] = pipe[i]
<1>1. ASSUME NEW x \in Items, x.answers = 0, pipe' = Append(pipe, x)
      PROVE  /\ \A i \in 1 .. Len(pipe) : i \in 1 .. Len(pipe') /\ pipe'[i] = pipe[i]
             /\ \A i \in 1 .. Len(pipe') :
                   pipe'[i].answers # 0 => i \in 1 .. Len(pipe) /\ pipe'[i] = pipe[i]
    BY <1>1, WrittenIs
<1> QED BY <1>1 DEF Unanswering

LEMMA UnansweringKeepsConnection ==
    ASSUME ConnectionInv, ConnectionBase', EventsInv', Unanswering,
           UNCHANGED <<asking, next, broken, held, slots, working, ready, reading, sent>>,
           cancelled => cancelled'
    PROVE  ConnectionInv'
<1>1. ConnectionBase /\ PlacesInv /\ SlotsInv
    BY DEF ConnectionInv
<1>2. /\ \A i \in 1 .. Len(pipe) : i \in 1 .. Len(pipe') /\ pipe'[i] = pipe[i]
      /\ \A i \in 1 .. Len(pipe') :
            pipe'[i].answers # 0 => i \in 1 .. Len(pipe) /\ pipe'[i] = pipe[i]
    BY <1>1, UnansweringIs
<1>3. PlacesInv'
    <2>1. \A i \in 1 .. Len(pipe') : pipe'[i].answers # 0 =>
              /\ pipe'[i].answers <= next /\ pipe'[i].answers \notin working \cup ready
              /\ pipe'[i].answers # held
              /\ \A j \in 1 .. Len(sent) : sent[j] # pipe'[i].answers
              /\ \A j \in 1 .. Len(pipe') : pipe'[i].answers = pipe'[j].answers => i = j
        BY <1>1, <1>2 DEF PlacesInv
    <2> QED BY <1>1, <2>1 DEF PlacesInv
<1>4. SlotsInv'
    BY <1>1 DEF SlotsInv
<1>5. \A q : q \in Connection!UnderWay' <=> q \in Connection!UnderWay
    BY <1>1, <1>2, UnderWayIs, UnderWayIsNext
<1>6. Connection!AnswersAreOwn'
    BY <1>5, AnswersStayOwn
<1> QED BY <1>3, <1>4, <1>6 DEF ConnectionInv

LEMMA EventStepsKeepConnection ==
    ASSUME ConnectionInv,
           \/ Connection!End \/ Connection!PumpStops \/ Connection!Publish \/ Connection!Pump
           \/ Connection!Tell
    PROVE  ConnectionInv'
<1> USE DEF Connection!client, Connection!server, Connection!pump
<1>1. ConnectionBase
    BY DEF ConnectionInv
<1>2. CASE Connection!End
    <2>1. ConnectionBase'
        BY <1>1, <1>2 DEF Connection!End, ConnectionBase
    <2>2. EventsInv'
        BY <1>2, QuietKeepsEvents DEF Connection!End, Quiet
    <2> QED BY <1>2, <2>1, <2>2, UnansweringKeepsConnection DEF Connection!End, Unanswering
<1>3. CASE Connection!PumpStops
    <2>1. ConnectionBase'
        BY <1>1, <1>3 DEF Connection!PumpStops, ConnectionBase
    <2>2. EventsInv'
        BY <1>3, QuietKeepsEvents DEF Connection!PumpStops, Quiet
    <2> QED BY <1>3, <2>1, <2>2, UnansweringKeepsConnection DEF Connection!PumpStops, Unanswering
<1>4. CASE Connection!Publish
    <2>1. /\ EventsInv' /\ queue' \in Seq(Connection!Events) /\ Len(queue') <= Buffer
          /\ published' \in 0 .. MaxEvents /\ dropped' \subseteq Connection!Events
        BY <1>4, PublishKeepsEvents
    <2>2. ConnectionBase'
        BY <1>1, <1>4, <2>1 DEF Connection!Publish, ConnectionBase
    <2> QED BY <1>4, <2>1, <2>2, UnansweringKeepsConnection DEF Connection!Publish, Unanswering
<1>5. CASE Connection!Pump
    <2>1. /\ EventsInv' /\ queue' \in Seq(Connection!Events) /\ Len(queue') <= Buffer
          /\ pumped' \in 1 .. MaxEvents
        BY <1>5, PumpKeepsEvents DEF Connection!Pump
    <2>2. pumped' \in 0 .. MaxEvents
        BY <2>1, ConnectionConstants
    <2>3. ConnectionBase'
        BY <1>1, <1>5, <2>1, <2>2 DEF Connection!Pump, ConnectionBase
    <2> QED BY <1>5, <2>1, <2>3, UnansweringKeepsConnection DEF Connection!Pump, Unanswering
<1>6. CASE Connection!Tell
    <2>1. /\ pumped # 0 /\ pumped' = 0
          /\ UNCHANGED <<follows, asking, turn, next, broken, left, heard, spent>>
          /\ UNCHANGED <<held, slots, working, ready, reading, subscribed, queue, published, sent>>
          /\ cancelled' \in {cancelled, TRUE} /\ pumping' \in {pumping, FALSE}
          /\ \/ /\ pipe' = Append(pipe, Connection!Told(pumped)) /\ dropped' = dropped
             \/ /\ pipe' \in {pipe, Append(pipe, Connection!Torn)}
                /\ dropped' = dropped \cup {pumped}
        BY <1>6 DEF Connection!Tell, Connection!Write, Connection!WriteFails
    <2>2. /\ Connection!Told(pumped) \in Items /\ Connection!Told(pumped).answers = 0
          /\ Connection!Torn \in Items /\ Connection!Torn.answers = 0 /\ Connection!Torn.event = 0
          /\ pumped' \in 0 .. MaxEvents
        BY <1>1, <2>1, ConnectionConstants DEF ConnectionBase
    <2>3. \/ pipe' = Append(pipe, Connection!Told(pumped)) /\ dropped' = dropped
          \/ Quiet /\ dropped' = dropped \cup {pumped}
        BY <2>1, <2>2 DEF Quiet
    <2>4. EventsInv' /\ pipe' \in Seq(Items) /\ dropped' \subseteq Connection!Events
        BY <2>1, <2>3, TellKeepsEvents
    <2>5. cancelled' \in BOOLEAN /\ pumping' \in BOOLEAN
        BY <1>1, <2>1 DEF ConnectionBase
    <2>6. ConnectionBase'
        BY <1>1, <2>1, <2>2, <2>4, <2>5 DEF ConnectionBase
    <2>7. Unanswering
        BY <2>1, <2>2 DEF Unanswering
    <2>8. cancelled => cancelled'
        BY <2>1
    <2> QED BY <2>1, <2>4, <2>6, <2>7, <2>8, UnansweringKeepsConnection
<1> QED BY <1>2, <1>3, <1>4, <1>5, <1>6

LEMMA RespondKeepsConnection ==
    ASSUME ConnectionInv, NEW r \in Connection!Requests, Connection!Respond(r)
    PROVE  ConnectionInv'
<1>1. /\ r \in ready /\ ready' = ready \ {r} /\ slots' = slots - 1
      /\ UNCHANGED <<follows, asking, turn, next, broken, left, heard, spent>>
      /\ UNCHANGED <<held, working, reading, sent>>
      /\ UNCHANGED <<subscribed, pumping, queue, pumped, published, dropped>>
      /\ \/ pipe' = Append(pipe, Connection!Answer(r)) /\ cancelled' = cancelled
         \/ pipe' \in {pipe, Append(pipe, Connection!Torn)} /\ cancelled' = TRUE
    BY DEF Connection!Respond, Connection!Write, Connection!WriteFails, Connection!client,
           Connection!pump
<1>2. ConnectionBase /\ PlacesInv /\ SlotsInv
    BY DEF ConnectionInv
<1>3. /\ Connection!Answer(r) \in Items /\ Connection!Answer(r).answers = r
      /\ Connection!Answer(r).event = 0 /\ r \in Nat \ {0}
      /\ Connection!Torn \in Items /\ Connection!Torn.answers = 0 /\ Connection!Torn.event = 0
    BY ConnectionConstants
<1>4. Quiet
    BY <1>1, <1>3 DEF Quiet
<1>5. EventsInv' /\ pipe' \in Seq(Items)
    BY <1>1, <1>2, <1>4, QuietIs, QuietKeepsEvents
<1>6. r \notin working
    BY <1>1, <1>2 DEF PlacesInv
<1>7. SlotsInv' /\ slots' \in 0 .. Slots
    <2>1. working' \cup ready' = (working \cup ready) \ {r} /\ r \in working \cup ready
        BY <1>1, <1>6
    <2>2. /\ IsFiniteSet((working \cup ready) \ {r})
          /\ Cardinality((working \cup ready) \ {r}) = Cardinality(working \cup ready) - 1
        BY <1>2, <2>1, FS_RemoveElement DEF SlotsInv
    <2>3. Cardinality((working \cup ready) \ {r}) \in Nat
        BY <2>2, FS_CardinalityType
    <2>4. slots \in 0 .. Slots /\ Slots \in Nat
        BY <1>2, ConnectionConstants DEF ConnectionBase
    <2>5. slots = Cardinality(working \cup ready)
        BY <1>2 DEF SlotsInv
    <2>6. slots' = Cardinality((working \cup ready) \ {r})
        BY <1>1, <2>2, <2>5
    <2>7. slots' \in 0 .. Slots
        BY <1>1, <2>3, <2>4, <2>6
    <2> QED BY <2>1, <2>2, <2>6, <2>7 DEF SlotsInv
<1>8. ConnectionBase'
    <2>1. cancelled' \in BOOLEAN /\ ready' \subseteq Connection!Requests
        BY <1>1, <1>2 DEF ConnectionBase
    <2> QED BY <1>1, <1>2, <1>5, <1>7, <2>1 DEF ConnectionBase
<1>9. /\ r <= next /\ r # held /\ \A j \in 1 .. Len(sent) : sent[j] # r
      /\ \A i \in 1 .. Len(pipe) : pipe[i].answers # r
    BY <1>1, <1>2, <1>3 DEF PlacesInv
<1>10. CASE pipe' = Append(pipe, Connection!Answer(r)) /\ cancelled' = cancelled
    <2>1. /\ \A i \in 1 .. Len(pipe) : i \in 1 .. Len(pipe') /\ pipe'[i].answers = pipe[i].answers
          /\ \A i \in 1 .. Len(pipe') : i \in 1 .. Len(pipe) \/ i = Len(pipe) + 1
          /\ Len(pipe) + 1 \in 1 .. Len(pipe') /\ pipe'[Len(pipe) + 1].answers = r
        BY <1>2, <1>3, <1>10, WrittenIs
    <2>2. PlacesInv'
        <3>1. \A i \in 1 .. Len(pipe') : pipe'[i].answers # 0 =>
                  /\ pipe'[i].answers <= next /\ pipe'[i].answers \notin working \cup ready'
                  /\ pipe'[i].answers # held
                  /\ \A j \in 1 .. Len(sent) : sent[j] # pipe'[i].answers
            BY <1>1, <1>2, <1>6, <1>9, <2>1 DEF PlacesInv
        <3>2. \A i, j \in 1 .. Len(pipe') :
                  pipe'[i].answers # 0 /\ pipe'[i].answers = pipe'[j].answers => i = j
            BY <1>2, <1>9, <2>1 DEF PlacesInv
        <3> QED BY <1>1, <1>2, <3>1, <3>2 DEF PlacesInv
    <2>3. \A q : q \in Connection!UnderWay' <=> q \in Connection!UnderWay
        <3>1. \A q : (\E i \in 1 .. Len(pipe') : pipe'[i].answers = q) <=>
                         q = r \/ \E i \in 1 .. Len(pipe) : pipe[i].answers = q
            BY <2>1
        <3>2. \A q : q \in working' \cup ready' \/ q = r <=> q \in working \cup ready
            BY <1>1
        <3> QED BY <1>1, <1>2, <1>8, <3>1, <3>2, UnderWayIs, UnderWayIsNext
    <2>4. Connection!AnswersAreOwn'
        BY <1>1, <1>8, <1>10, <2>3, AnswersStayOwn
    <2> QED BY <1>5, <1>7, <1>8, <2>2, <2>4 DEF ConnectionInv
<1>11. CASE pipe' \in {pipe, Append(pipe, Connection!Torn)} /\ cancelled' = TRUE
    <2>1. /\ \A i \in 1 .. Len(pipe) : i \in 1 .. Len(pipe') /\ pipe'[i] = pipe[i]
          /\ \A i \in 1 .. Len(pipe') :
                pipe'[i].answers # 0 => i \in 1 .. Len(pipe) /\ pipe'[i] = pipe[i]
        <3>1. Unanswering
            BY <1>3, <1>11 DEF Unanswering
        <3> QED BY <1>2, <3>1, UnansweringIs
    <2>2. PlacesInv'
        <3>1. \A i \in 1 .. Len(pipe') : pipe'[i].answers # 0 =>
                  /\ pipe'[i].answers <= next /\ pipe'[i].answers \notin working \cup ready'
                  /\ pipe'[i].answers # held
                  /\ \A j \in 1 .. Len(sent) : sent[j] # pipe'[i].answers
                  /\ \A j \in 1 .. Len(pipe') : pipe'[i].answers = pipe'[j].answers => i = j
            BY <1>1, <1>2, <2>1 DEF PlacesInv
        <3> QED BY <1>1, <1>2, <3>1 DEF PlacesInv
    <2>3. \A q : q \in Connection!UnderWay' => q \in Connection!UnderWay
        BY <1>1, <1>2, <1>8, <2>1, UnderWayIs, UnderWayIsNext
    <2>4. Connection!AnswersAreOwn'
        BY <1>1, <1>8, <1>11, <2>3, AnswersStayOwn
    <2> QED BY <1>5, <1>7, <1>8, <2>2, <2>4 DEF ConnectionInv
<1> QED BY <1>1, <1>10, <1>11

LEMMA StepKeepsConnection ==
    ASSUME ConnectionInv, [Connection!Next]_(Connection!connVars)
    PROVE  ConnectionInv'
<1>1. ASSUME UNCHANGED Connection!connVars PROVE ConnectionInv'
    <2>1. /\ UNCHANGED <<follows, asking, turn, next, broken, left, heard, spent, sent, pipe>>
          /\ UNCHANGED <<Connection!server, Connection!pump>>
        BY <1>1 DEF Connection!connVars, Connection!client
    <2>2. left \in BOOLEAN /\ spent \subseteq Callers /\ turn \in [Callers -> Turns]
        BY DEF ConnectionInv, ConnectionBase
    <2> QED BY <2>1, <2>2, ClientKeepsConnection
<1>2. ASSUME Connection!Next PROVE ConnectionInv'
    <2>1. CASE Connection!ServerStep
        BY <2>1, DecodeKeepsConnection, TakeSlotKeepsConnection, EventStepsKeepConnection
        DEF Connection!ServerStep
    <2>2. CASE Connection!ClientStep \/ Connection!TimeOut \/ Connection!Leave
        BY <2>2, ReceiveKeepsConnection, OwnStepsKeepConnection DEF Connection!ClientStep
    <2>3. CASE Connection!Publish
        BY <2>3, EventStepsKeepConnection
    <2>4. ASSUME NEW c \in Callers, Connection!Ask(c) \/ Connection!Again(c) PROVE ConnectionInv'
        BY <2>4, AskKeepsConnection, OwnStepsKeepConnection
    <2>5. ASSUME NEW r \in Connection!Requests, Connection!Handle(r) \/ Connection!Respond(r)
          PROVE  ConnectionInv'
        BY <2>5, HandleKeepsConnection, RespondKeepsConnection
    <2> QED BY <1>2, <2>1, <2>2, <2>3, <2>4, <2>5 DEF Connection!Next
<1> QED BY <1>1, <1>2

LEMMA ConcatIs ==
    ASSUME NEW S, NEW s \in Seq(S), NEW t \in Seq(S)
    PROVE  /\ s \o t \in Seq(S) /\ Len(s) \in Nat /\ Len(t) \in Nat
           /\ Len(s \o t) = Len(s) + Len(t)
           /\ \A i \in 1 .. Len(s) : (s \o t)[i] = s[i]
           /\ \A i \in 1 .. Len(t) : (s \o t)[Len(s) + i] = t[i]
OBVIOUS

(* The events of a connection, in one sequence.                             *)
Told == [i \in DOMAIN pipe |-> pipe[i].event] \o <<pumped>> \o queue
All  == heard \o Told

LEMMA AllIs ==
    ASSUME ConnectionBase
    PROVE  /\ Len(heard) \in Nat /\ Len(pipe) \in Nat /\ Len(queue) \in Nat
           /\ DOMAIN All = 1 .. Len(heard) + Len(pipe) + 1 + Len(queue)
           /\ \A i \in 1 .. Len(heard) : All[i] = heard[i]
           /\ \A i \in 1 .. Len(pipe) : All[Len(heard) + i] = pipe[i].event
           /\ All[Len(heard) + Len(pipe) + 1] = pumped
           /\ \A i \in 1 .. Len(queue) : All[Len(heard) + Len(pipe) + 1 + i] = queue[i]
           /\ \A i \in DOMAIN All : All[i] \in Nat
<1> DEFINE a == [i \in DOMAIN pipe |-> pipe[i].event]
           b == a \o <<pumped>>
<1>1. /\ pipe \in Seq(Items) /\ pumped \in Nat /\ MaxEvents \in Nat
      /\ Connection!Events \subseteq Nat
    BY ConnectionConstants DEF ConnectionBase
<1>2. heard \in Seq(Nat) /\ queue \in Seq(Nat)
    BY <1>1, SeqMonotonic DEF ConnectionBase
<1>3. /\ a \in Seq(Nat) /\ Len(a) = Len(pipe) /\ Len(pipe) \in Nat
      /\ \A i \in 1 .. Len(pipe) : a[i] = pipe[i].event
    <2>1. DOMAIN pipe = 1 .. Len(pipe) /\ Len(pipe) \in Nat
        BY <1>1
    <2>2. \A i \in 1 .. Len(pipe) : pipe[i] \in Items
        BY <1>1
    <2>3. a \in [1 .. Len(pipe) -> Nat]
        BY <1>1, <2>1, <2>2 DEF Items
    <2> QED BY <2>1, <2>3
<1> HIDE DEF a
<1>4. <<pumped>> \in Seq(Nat) /\ Len(<<pumped>>) = 1 /\ <<pumped>>[1] = pumped
    BY <1>1
<1>5. /\ b \in Seq(Nat) /\ Len(b) = Len(pipe) + 1
      /\ \A i \in 1 .. Len(pipe) : b[i] = pipe[i].event
      /\ b[Len(pipe) + 1] = pumped
    <2>1. /\ b \in Seq(Nat) /\ Len(b) = Len(a) + 1
          /\ \A i \in 1 .. Len(a) : b[i] = a[i]
          /\ \A i \in 1 .. 1 : b[Len(a) + i] = <<pumped>>[i]
        BY <1>3, <1>4, ConcatIs
    <2>2. b[Len(a) + 1] = pumped
        BY <1>4, <2>1
    <2> QED BY <1>3, <2>1, <2>2
<1> HIDE DEF b
<1>6. Told = b \o queue
    BY DEF Told, b, a
<1>7. /\ Told \in Seq(Nat) /\ Len(Told) = Len(pipe) + 1 + Len(queue) /\ Len(queue) \in Nat
      /\ \A i \in 1 .. Len(pipe) : Told[i] = pipe[i].event
      /\ Told[Len(pipe) + 1] = pumped
      /\ \A i \in 1 .. Len(queue) : Told[Len(pipe) + 1 + i] = queue[i]
    <2>1. /\ Told \in Seq(Nat) /\ Len(Told) = Len(b) + Len(queue) /\ Len(queue) \in Nat
          /\ \A i \in 1 .. Len(b) : Told[i] = b[i]
          /\ \A i \in 1 .. Len(queue) : Told[Len(b) + i] = queue[i]
        <3>1. /\ b \o queue \in Seq(Nat) /\ Len(queue) \in Nat
              /\ Len(b \o queue) = Len(b) + Len(queue)
              /\ \A i \in 1 .. Len(b) : (b \o queue)[i] = b[i]
              /\ \A i \in 1 .. Len(queue) : (b \o queue)[Len(b) + i] = queue[i]
            <4>1. b \in Seq(Nat) /\ queue \in Seq(Nat)
                BY <1>2, <1>5
            <4> QED BY <4>1, ConcatIs
        <3> QED BY <1>6, <3>1
    <2>2. \A i \in 1 .. Len(pipe) : i \in 1 .. Len(b) /\ Len(pipe) + 1 \in 1 .. Len(b)
        BY <1>3, <1>5
    <2>3. Len(pipe) + 1 \in 1 .. Len(b)
        BY <1>3, <1>5
    <2> QED BY <1>5, <2>1, <2>2, <2>3
<1> HIDE DEF Told
<1>8. /\ All \in Seq(Nat) /\ Len(All) = Len(heard) + Len(Told) /\ Len(heard) \in Nat
      /\ \A i \in 1 .. Len(heard) : All[i] = heard[i]
      /\ \A i \in 1 .. Len(Told) : All[Len(heard) + i] = Told[i]
    <2>1. heard \in Seq(Nat) /\ Told \in Seq(Nat)
        BY <1>2, <1>7
    <2>2. /\ heard \o Told \in Seq(Nat) /\ Len(heard) \in Nat
          /\ Len(heard \o Told) = Len(heard) + Len(Told)
          /\ \A i \in 1 .. Len(heard) : (heard \o Told)[i] = heard[i]
          /\ \A i \in 1 .. Len(Told) : (heard \o Told)[Len(heard) + i] = Told[i]
        BY <2>1, ConcatIs
    <2> QED BY <2>2 DEF All
<1> HIDE DEF All
<1>9. /\ \A i \in 1 .. Len(pipe) : i \in 1 .. Len(Told) /\ All[Len(heard) + i] = pipe[i].event
      /\ Len(pipe) + 1 \in 1 .. Len(Told)
      /\ \A i \in 1 .. Len(queue) : Len(pipe) + 1 + i \in 1 .. Len(Told)
    <2>1. /\ \A i \in 1 .. Len(pipe) : i \in 1 .. Len(Told)
          /\ Len(pipe) + 1 \in 1 .. Len(Told)
        BY <1>3, <1>7
    <2>2. \A i \in 1 .. Len(queue) : Len(pipe) + 1 + i \in 1 .. Len(Told)
        BY <1>3, <1>7
    <2>3. \A i \in 1 .. Len(pipe) : All[Len(heard) + i] = pipe[i].event
        BY <1>7, <1>8, <2>1
    <2> QED BY <2>1, <2>2, <2>3
<1>10. All[Len(heard) + Len(pipe) + 1] = pumped
    <2>1. All[Len(heard) + (Len(pipe) + 1)] = pumped
        BY <1>7, <1>8, <1>9
    <2>2. Len(heard) + (Len(pipe) + 1) = Len(heard) + Len(pipe) + 1
        BY <1>3, <1>8
    <2> QED BY <2>1, <2>2
<1>11. \A i \in 1 .. Len(queue) : All[Len(heard) + Len(pipe) + 1 + i] = queue[i]
    <2> SUFFICES ASSUME NEW i \in 1 .. Len(queue)
                 PROVE  All[Len(heard) + Len(pipe) + 1 + i] = queue[i]
        OBVIOUS
    <2>1. All[Len(heard) + (Len(pipe) + 1 + i)] = queue[i]
        BY <1>7, <1>8, <1>9
    <2>2. Len(heard) + (Len(pipe) + 1 + i) = Len(heard) + Len(pipe) + 1 + i
        BY <1>3, <1>7, <1>8
    <2> QED BY <2>1, <2>2
<1>12. DOMAIN All = 1 .. Len(heard) + Len(pipe) + 1 + Len(queue)
    <2>1. DOMAIN All = 1 .. Len(All)
        BY <1>8
    <2>2. Len(All) = Len(heard) + Len(pipe) + 1 + Len(queue)
        BY <1>3, <1>7, <1>8
    <2> QED BY <2>1, <2>2
<1>13. \A i \in DOMAIN All : All[i] \in Nat
    BY <1>8
<1> QED BY <1>3, <1>7, <1>8, <1>9, <1>10, <1>11, <1>12, <1>13

LEMMA EventsAreInOrder ==
    ASSUME ConnectionInv
    PROVE  Connection!EventsAreAccounted
<1> DEFINE h == Len(heard)
           p == Len(heard) + Len(pipe) + 1
<1>1. /\ Len(heard) \in Nat /\ Len(pipe) \in Nat /\ Len(queue) \in Nat
      /\ DOMAIN All = 1 .. p + Len(queue)
      /\ \A i \in 1 .. Len(heard) : All[i] = heard[i]
      /\ \A i \in 1 .. Len(pipe) : All[h + i] = pipe[i].event
      /\ All[p] = pumped
      /\ \A i \in 1 .. Len(queue) : All[p + i] = queue[i]
      /\ \A i \in DOMAIN All : All[i] \in Nat
    BY AllIs DEF ConnectionInv
<1>2. ConnectionBase /\ SortedInv /\ HeardInv /\ PipeInv /\ QueueInv /\ AccountedInv
    BY DEF ConnectionInv, EventsInv
<1>3. \A i \in DOMAIN All :
          \/ i \in 1 .. Len(heard) /\ All[i] = heard[i]
          \/ i - h \in 1 .. Len(pipe) /\ All[i] = pipe[i - h].event
          \/ i = p /\ All[i] = pumped
          \/ i - p \in 1 .. Len(queue) /\ All[i] = queue[i - p]
    <2> SUFFICES ASSUME NEW i \in DOMAIN All
                 PROVE  \/ i \in 1 .. Len(heard) /\ All[i] = heard[i]
                        \/ i - h \in 1 .. Len(pipe) /\ All[i] = pipe[i - h].event
                        \/ i = p /\ All[i] = pumped
                        \/ i - p \in 1 .. Len(queue) /\ All[i] = queue[i - p]
        OBVIOUS
    <2>1. i \in Nat /\ h + (i - h) = i /\ p + (i - p) = i
        BY <1>1
    <2>2. \/ i \in 1 .. Len(heard) \/ i - h \in 1 .. Len(pipe) \/ i = p \/ i - p \in 1 .. Len(queue)
        BY <1>1, <2>1
    <2> QED BY <1>1, <2>1, <2>2
<1>4. \A i, j \in DOMAIN All : i < j /\ 0 \notin {All[i], All[j]} => All[i] < All[j]
    <2> SUFFICES ASSUME NEW i \in DOMAIN All, NEW j \in DOMAIN All, i < j, All[i] # 0, All[j] # 0
                 PROVE  All[i] < All[j]
        OBVIOUS
    <2>0. i \in Nat /\ j \in Nat
        BY <1>1
    <2>1. CASE i \in 1 .. Len(heard) /\ All[i] = heard[i]
        BY <1>2, <1>3, <2>0, <2>1 DEF SortedInv, HeardInv
    <2>2. CASE i - h \in 1 .. Len(pipe) /\ All[i] = pipe[i - h].event
        <3>1. j \notin 1 .. Len(heard)
            BY <1>1, <2>0, <2>2
        <3>2. CASE j - h \in 1 .. Len(pipe) /\ All[j] = pipe[j - h].event
            <4>1. i - h < j - h
                BY <1>1, <2>0
            <4> QED BY <1>2, <2>2, <3>2, <4>1 DEF SortedInv
        <3> QED BY <1>2, <1>3, <2>2, <3>1, <3>2 DEF PipeInv
    <2>3. CASE i = p /\ All[i] = pumped
        <3>1. j \notin 1 .. Len(heard) /\ j - h \notin 1 .. Len(pipe) /\ j # p
            BY <1>1, <2>0, <2>3
        <3> QED BY <1>2, <1>3, <2>3, <3>1 DEF QueueInv
    <2>4. CASE i - p \in 1 .. Len(queue) /\ All[i] = queue[i - p]
        <3>1. j \notin 1 .. Len(heard) /\ j - h \notin 1 .. Len(pipe) /\ j # p
            BY <1>1, <2>0, <2>4
        <3>2. j - p \in 1 .. Len(queue) /\ All[j] = queue[j - p]
            BY <1>3, <3>1
        <3>3. i - p < j - p
            BY <1>1, <2>0
        <3> QED BY <1>2, <2>4, <3>2, <3>3 DEF SortedInv
    <2> QED BY <1>3, <2>1, <2>2, <2>3, <2>4
<1>5. \A e : (e # 0 /\ \E i \in DOMAIN All : All[i] = e) <=>
                 e \in 1 .. published /\ e \notin dropped
    <2>1. ASSUME NEW i \in DOMAIN All, All[i] # 0
          PROVE  All[i] \in 1 .. published /\ All[i] \notin dropped
        <3>1. All[i] <= published /\ All[i] \notin dropped
            BY <1>2, <1>3, <2>1 DEF HeardInv, PipeInv, QueueInv
        <3>2. published \in Nat
            BY <1>2, ConnectionConstants DEF ConnectionBase
        <3> QED BY <1>1, <2>1, <3>1, <3>2
    <2>2. ASSUME NEW e \in 1 .. published, e \notin dropped
          PROVE  e # 0 /\ \E i \in DOMAIN All : All[i] = e
        <3>1. Placed(e) /\ e # 0
            BY <1>2, <2>2 DEF AccountedInv
        <3>2. CASE e = pumped
            <4>1. p \in DOMAIN All
                BY <1>1
            <4> QED BY <1>1, <3>1, <3>2, <4>1
        <3>3. ASSUME NEW i \in 1 .. Len(heard), heard[i] = e PROVE \E k \in DOMAIN All : All[k] = e
            <4>1. i \in DOMAIN All
                BY <1>1
            <4> QED BY <1>1, <3>3, <4>1
        <3>4. ASSUME NEW i \in 1 .. Len(pipe), pipe[i].event = e
              PROVE  \E k \in DOMAIN All : All[k] = e
            <4>1. h + i \in DOMAIN All
                BY <1>1
            <4> QED BY <1>1, <3>4, <4>1
        <3>5. ASSUME NEW i \in 1 .. Len(queue), queue[i] = e PROVE \E k \in DOMAIN All : All[k] = e
            <4>1. p + i \in DOMAIN All
                BY <1>1
            <4> QED BY <1>1, <3>5, <4>1
        <3> QED BY <3>1, <3>2, <3>3, <3>4, <3>5 DEF Placed
    <2> QED BY <2>1, <2>2
<1>6. Connection!Range(All) \ {0} = 1 .. published \ dropped
    BY <1>5 DEF Connection!Range
<1> HIDE DEF h, p
<1> QED BY <1>4, <1>6 DEF Connection!EventsAreAccounted, All, Told

LEMMA ConnectionIsTyped ==
    ASSUME ConnectionInv
    PROVE  Connection!TypeOK
<1> USE DEF ConnectionInv, ConnectionBase
<1>1. /\ Connection!Range(sent) \subseteq Connection!Requests
      /\ Connection!Range(queue) \subseteq Connection!Events
      /\ Connection!Range(heard) \subseteq Connection!Events
    <2>1. /\ DOMAIN sent = 1 .. Len(sent) /\ DOMAIN queue = 1 .. Len(queue)
          /\ DOMAIN heard = 1 .. Len(heard)
        OBVIOUS
    <2>2. /\ \A i \in 1 .. Len(sent) : sent[i] \in Connection!Requests
          /\ \A i \in 1 .. Len(queue) : queue[i] \in Connection!Events
          /\ \A i \in 1 .. Len(heard) : heard[i] \in Connection!Events
        OBVIOUS
    <2> QED BY <2>1, <2>2 DEF Connection!Range
<1> QED BY <1>1 DEF Connection!TypeOK, Turns

-----------------------------------------------------------------------------
(* The conversation on screen (TerminalChat).                               *)

(* A non-empty set of numbers has a least one.                              *)
LEMMA LeastOf ==
    ASSUME NEW T \in SUBSET Nat, T # {}
    PROVE  \E n \in T : \A m \in T : n <= m
<1> DEFINE R == OpToRel(<, Nat)
<1>1. PICK n \in T : \A m \in T : <<m, n>> \notin R
    <2> HIDE DEF R
    <2> QED BY NatLessThanWellFounded, WFMin DEF R
<1>2. \A m \in T : ~(m < n)
    BY <1>1 DEF OpToRel
<1>3. \A m \in T : n <= m
    BY <1>2
<1> QED BY <1>3

(* What of a page is not on screen: messages of the page, none of them on   *)
(* screen, and none twice if the page has none twice.                       *)
OnceEach(s) == \A i, j \in 1 .. Len(s) : s[i] = s[j] => i = j

LEMMA UnseenIs ==
    ASSUME NEW u, NEW S, NEW older \in Seq(S)
    PROVE  /\ Terminal!Unseen(u, older) \in Seq(S)
           /\ \A i \in 1 .. Len(Terminal!Unseen(u, older)) :
                 /\ ~Terminal!Has(u, Terminal!Unseen(u, older)[i])
                 /\ \E k \in 1 .. Len(older) : Terminal!Unseen(u, older)[i] = older[k]
           /\ OnceEach(older) => OnceEach(Terminal!Unseen(u, older))
<1> DEFINE L == Len(older)
           Grow(h, i) == IF i = 0 THEN <<>>
                         ELSE IF Terminal!Has(u, older[i]) THEN h[i - 1]
                              ELSE Append(h[i - 1], older[i])
           g == CHOOSE g : g = [i \in 0 .. L |-> Grow(g, i)]
<1>1. Terminal!Unseen(u, older) = g[L]
    BY DEF Terminal!Unseen
<1>2. L \in Nat
    OBVIOUS
<1>3. \E h : h = [i \in 0 .. L |-> Grow(h, i)]
    <2> DEFINE Good(n) == \E h : h = [i \in 0 .. n |-> Grow(h, i)]
               Bad == {n \in Nat : ~Good(n)}
    <2> SUFFICES ASSUME ~Good(L) PROVE FALSE
        OBVIOUS
    <2>1. L \in Bad
        BY <1>2
    <2>2. PICK n \in Bad : \A m \in Bad : n <= m
        <3> HIDE DEF Good
        <3>1. Bad \in SUBSET Nat /\ Bad # {}
            BY <2>1
        <3> HIDE DEF Bad
        <3> QED BY <3>1, LeastOf
    <2>3. n \in Nat /\ ~Good(n)
        OBVIOUS
    <2>4. Good(0)
        <3> DEFINE h == [i \in 0 .. 0 |-> <<>>]
        <3>1. h = [i \in 0 .. 0 |-> Grow(h, i)]
            <4>1. \A i \in 0 .. 0 : Grow(h, i) = <<>>
                OBVIOUS
            <4> QED BY <4>1
        <3> QED BY <3>1
    <2>5. n # 0 /\ n - 1 \in Nat /\ Good(n - 1)
        <3>1. n # 0
            BY <2>3, <2>4
        <3>2. n - 1 \in Nat /\ ~(n <= n - 1)
            BY <2>3, <3>1
        <3>3. n - 1 \notin Bad
            <4> HIDE DEF Bad
            <4> QED BY <2>2, <3>2
        <3>4. Good(n - 1)
            <4> HIDE DEF Good
            <4> QED BY <3>2, <3>3
        <3> QED BY <3>1, <3>2, <3>4
    <2>6. PICK h : h = [i \in 0 .. n - 1 |-> Grow(h, i)]
        BY <2>5
    <2> DEFINE f == [i \in 0 .. n |-> IF i = n THEN Grow(h, n) ELSE h[i]]
    <2>7. \A i \in 0 .. n : f[i] = Grow(f, i)
        <3> HIDE DEF Good, Bad
        <3> SUFFICES ASSUME NEW i \in 0 .. n PROVE f[i] = Grow(f, i)
            OBVIOUS
        <3>1. i # 0 => f[i - 1] = h[i - 1]
            <4>1. i # 0 => i - 1 \in 0 .. n /\ i - 1 # n
                BY <2>3
            <4> QED BY <4>1
        <3>2. Grow(f, i) = Grow(h, i)
            BY <3>1
        <3>3. CASE i = n
            BY <3>2, <3>3
        <3>4. CASE i # n
            <4>1. i \in 0 .. n - 1
                BY <2>3, <3>4
            <4>2. h[i] = Grow(h, i)
                <5> HIDE DEF Grow
                <5> QED BY <2>6, <4>1
            <4> QED BY <3>2, <3>4, <4>2
        <3> QED BY <3>3, <3>4
    <2>8. f = [i \in 0 .. n |-> Grow(f, i)]
        <3> DEFINE e == [i \in 0 .. n |-> Grow(f, i)]
        <3>1. \A i \in 0 .. n : f[i] = e[i]
            <4> HIDE DEF f, Grow
            <4> QED BY <2>7
        <3> HIDE DEF Grow
        <3> QED BY <3>1
    <2> QED
        <3> HIDE DEF f, Grow
        <3> QED BY <2>3, <2>8
<1>4. g = [i \in 0 .. L |-> Grow(g, i)]
    <2> HIDE DEF Grow, L
    <2> QED BY <1>3
<1> HIDE DEF g
<1>5. \A i \in 0 .. L : g[i] = Grow(g, i)
    <2> HIDE DEF Grow, L
    <2> QED BY <1>4
<1> DEFINE From(s, n) ==
               /\ s \in Seq(S)
               /\ \A i \in 1 .. Len(s) :
                     ~Terminal!Has(u, s[i]) /\ \E k \in 1 .. n : s[i] = older[k]
               /\ OnceEach(older) => OnceEach(s)
<1>6. ASSUME NEW n \in 1 .. L, From(g[n - 1], n - 1) PROVE From(g[n], n)
    <2> DEFINE s == g[n - 1]
    <2>1. g[n] = IF Terminal!Has(u, older[n]) THEN s ELSE Append(s, older[n])
        BY <1>2, <1>5
    <2>2. /\ n \in Nat \ {0} /\ older[n] \in S /\ n - 1 \in Nat /\ n - 1 < n /\ n \in 1 .. n
          /\ \A k \in 1 .. n - 1 : k \in 1 .. n /\ k \in 1 .. L /\ k # n
          /\ n \in 1 .. L
        BY <1>2
    <2> HIDE DEF s
    <2>3. /\ s \in Seq(S)
          /\ \A i \in 1 .. Len(s) :
                ~Terminal!Has(u, s[i]) /\ \E k \in 1 .. n - 1 : s[i] = older[k]
          /\ OnceEach(older) => OnceEach(s)
        BY <1>6 DEF s
    <2>4. CASE Terminal!Has(u, older[n])
        BY <2>1, <2>2, <2>3, <2>4
    <2>5. CASE ~Terminal!Has(u, older[n])
        <3> DEFINE t == Append(s, older[n])
        <3>1. /\ Len(s) \in Nat /\ t \in Seq(S) /\ Len(t) = Len(s) + 1
              /\ \A i \in 1 .. Len(s) : t[i] = s[i]
              /\ t[Len(s) + 1] = older[n]
            BY <2>2, <2>3, AppendIs
        <3> HIDE DEF t
        <3>2. \A i \in 1 .. Len(t) : i \in 1 .. Len(s) \/ i = Len(s) + 1
            BY <3>1
        <3>3. \A i \in 1 .. Len(t) : ~Terminal!Has(u, t[i]) /\ \E k \in 1 .. n : t[i] = older[k]
            BY <2>2, <2>3, <2>5, <3>1, <3>2
        <3>4. ASSUME OnceEach(older) PROVE OnceEach(t)
            <4>1. \A i \in 1 .. Len(s) : s[i] # older[n]
                BY <2>2, <2>3, <3>4 DEF OnceEach
            <4> QED BY <2>3, <3>1, <3>2, <3>4, <4>1 DEF OnceEach
        <3>5. g[n] = t
            BY <2>1, <2>5 DEF t
        <3> QED BY <3>1, <3>3, <3>4, <3>5
    <2> QED BY <2>4, <2>5
<1>7. From(g[0], 0)
    <2>1. g[0] = <<>>
        BY <1>2, <1>5
    <2> QED BY <2>1 DEF OnceEach
<1>8. From(g[L], L)
    <2> HIDE DEF From
    <2> DEFINE Bad == {n \in 0 .. L : ~From(g[n], n)}
    <2> SUFFICES ASSUME L \in Bad PROVE FALSE
        BY <1>2
    <2>1. PICK n \in Bad : \A m \in Bad : n <= m
        <3>1. Bad \in SUBSET Nat /\ Bad # {}
            BY <1>2
        <3> HIDE DEF Bad
        <3> QED BY <3>1, LeastOf
    <2>2. n \in 1 .. L
        BY <1>2, <1>7
    <2>3. n - 1 \in 0 .. L /\ ~(n <= n - 1)
        BY <1>2, <2>2
    <2>4. n - 1 \notin Bad
        <3> HIDE DEF Bad
        <3> QED BY <2>1, <2>3
    <2>5. From(g[n - 1], n - 1)
        BY <2>3, <2>4
    <2>6. From(g[n], n)
        BY <1>6, <2>2, <2>5
    <2> QED BY <2>6
<1> QED BY <1>1, <1>8

(* What the interface holds: the messages of the open conversation, each    *)
(* once, and in the box an answer to one of them.                           *)
UiInv(u) ==
    /\ u \in Terminal!Interface
    /\ \A i \in 1 .. Len(u.shown) : u.shown[i].room = u.open
    /\ OnceEach(u.shown)
    /\ u.open # None => /\ u.replyTo # None => u.replyTo.room = u.open
                        /\ u.editing # None => u.editing.room = u.open

(* A call is about one conversation, and so is its answer, which names no   *)
(* message twice.                                                           *)
Modes == {"open", "older", "reset", "one", "history", "send", "edit"}
Pages == [messages : Seq(Terminal!Messages), hasMore : BOOLEAN, nextBefore : 0 .. MaxNumber]
Asked == [mode : Modes, room : Rooms, generation : 0 .. MaxOpens, before : 0 .. MaxNumber,
          limit : Nat, about : Terminal!Messages \cup {None},
          answer : Pages \cup Terminal!Messages \cup {None}]
CallInv(c) ==
    /\ c \in Asked
    /\ c.mode \in {"one", "edit"} => c.about \in Terminal!Messages
    /\ c.mode = "one" => c.about.room = c.room
    /\ c.answer # None =>
          \/ /\ c.mode \in {"open", "older", "reset"} /\ c.answer \in Pages
             /\ \A i \in 1 .. Len(c.answer.messages) : c.answer.messages[i].room = c.room
             /\ OnceEach(c.answer.messages)
          \/ /\ c.mode \in {"one", "send"} /\ c.answer \in Terminal!Messages
             /\ c.answer.room = c.room

DoneInv(done) == UiInv(done.ui) /\ \A c \in done.asks : CallInv(c)

LEMMA TerminalConstants ==
    /\ Page \in Nat \ {0} /\ Most \in Nat /\ SeekPages \in Nat /\ MaxNumber \in Nat \ {0}
    /\ MaxOpens \in Nat /\ MaxActs \in Nat /\ FirstHeld \in 1 .. MaxNumber
    /\ LastHeld \in 1 .. MaxNumber /\ None \notin Rooms /\ Busy \subseteq Rooms
    /\ Terminal!Messages = [room : Rooms, n : 1 .. MaxNumber]
<1>1. /\ Page \in Nat \ {0} /\ Most \in Nat /\ SeekPages \in Nat /\ MaxNumber \in Nat
      /\ MaxOpens \in Nat /\ MaxActs \in Nat
    BY ScreenAssumption DEF Terminal!TerminalAssumption
<1>2. FirstHeld \in Nat /\ LastHeld \in Nat
    BY ScreenAssumption DEF Terminal!TerminalAssumption
<1> QED BY <1>1, <1>2, ScreenAssumption DEF Terminal!TerminalAssumption, Terminal!Messages

(* The interface and the calls it may make, handler by handler.             *)

LEMMA UiFields ==
    ASSUME NEW u, UiInv(u)
    PROVE  /\ u.open \in Rooms \cup {None} /\ u.generation \in 0 .. MaxOpens
           /\ u.shown \in Seq(Terminal!Messages) /\ u.cursor \in Nat /\ u.hasMore \in BOOLEAN
           /\ u.nextBefore \in 0 .. MaxNumber /\ u.loadingOlder \in BOOLEAN
           /\ u.waitingHistory \in BOOLEAN /\ u.asked \in SUBSET Terminal!Messages
           /\ u.seeking \in Terminal!Messages \cup {None} /\ u.seekingPages \in 0 .. SeekPages
           /\ u.replyTo \in Terminal!Messages \cup {None}
           /\ u.editing \in Terminal!Messages \cup {None}
           /\ Len(u.shown) \in Nat /\ DOMAIN u.shown = 1 .. Len(u.shown)
           /\ \A i \in 1 .. Len(u.shown) : u.shown[i] \in Terminal!Messages
BY DEF UiInv, Terminal!Interface

LEMMA CallIs ==
    ASSUME NEW u, UiInv(u), u.open # None, NEW mode \in Modes, NEW edge \in 0 .. MaxNumber,
           NEW limit \in Nat, NEW about \in Terminal!Messages \cup {None},
           mode \in {"one", "edit"} => about \in Terminal!Messages,
           mode = "one" => about.room = u.open
    PROVE  CallInv(Terminal!Call(u, mode, edge, limit, about))
<1>1. u.open \in Rooms /\ u.generation \in 0 .. MaxOpens
    BY UiFields
<1> QED BY <1>1 DEF Terminal!Call, CallInv, Asked

LEMMA PageCallIs ==
    ASSUME NEW u, UiInv(u), u.open # None, NEW mode \in Modes \ {"one", "edit"},
           NEW edge \in 0 .. MaxNumber, NEW limit \in Nat
    PROVE  CallInv(Terminal!Call(u, mode, edge, limit, None))
BY CallIs

(* A change of what is no message leaves the interface as it should be.     *)
LEMMA FlagsKeepUi ==
    ASSUME NEW u, UiInv(u), NEW marked \in SUBSET Terminal!Messages, NEW wait \in BOOLEAN,
           NEW load \in BOOLEAN, NEW seek \in Terminal!Messages \cup {None},
           NEW pages \in 0 .. SeekPages, NEW place \in Nat
    PROVE  /\ UiInv([u EXCEPT !.asked = marked, !.waitingHistory = wait])
           /\ UiInv([u EXCEPT !.loadingOlder = load])
           /\ UiInv([u EXCEPT !.waitingHistory = wait, !.loadingOlder = load])
           /\ UiInv([u EXCEPT !.cursor = place, !.seeking = seek, !.seekingPages = pages])
           /\ UiInv([u EXCEPT !.seeking = seek, !.seekingPages = pages])
           /\ UiInv([u EXCEPT !.cursor = place])
<1> USE DEF UiInv, Terminal!Interface
<1>1. UiInv([u EXCEPT !.asked = marked, !.waitingHistory = wait])
    OBVIOUS
<1>2. UiInv([u EXCEPT !.loadingOlder = load])
    OBVIOUS
<1>3. UiInv([u EXCEPT !.waitingHistory = wait, !.loadingOlder = load])
    OBVIOUS
<1>4. UiInv([u EXCEPT !.cursor = place, !.seeking = seek, !.seekingPages = pages])
    OBVIOUS
<1>5. UiInv([u EXCEPT !.seeking = seek, !.seekingPages = pages])
    OBVIOUS
<1>6. UiInv([u EXCEPT !.cursor = place])
    OBVIOUS
<1> QED BY <1>1, <1>2, <1>3, <1>4, <1>5, <1>6

LEMMA RequestHistoryIs ==
    ASSUME NEW u, UiInv(u) PROVE DoneInv(Terminal!RequestHistory(u))
<1>1. CASE u.waitingHistory \/ u.open = None \/ u.shown = <<>> \/ u.shown[1] \in u.asked
    BY <1>1 DEF Terminal!RequestHistory, Terminal!Does, DoneInv
<1>2. CASE ~(u.waitingHistory \/ u.open = None \/ u.shown = <<>> \/ u.shown[1] \in u.asked)
    <2>1. u.shown[1] \in Terminal!Messages
        BY <1>2, UiFields
    <2>2. u.asked \cup {u.shown[1]} \in SUBSET Terminal!Messages
        BY <2>1, UiFields
    <2>3. UiInv([u EXCEPT !.asked = @ \cup {u.shown[1]}, !.waitingHistory = TRUE])
        BY <2>2, UiFields, FlagsKeepUi
    <2>4. CallInv(Terminal!Call(u, "history", 0, Page, None))
        BY <1>2, PageCallIs, TerminalConstants DEF Modes
    <2> QED BY <1>2, <2>3, <2>4 DEF Terminal!RequestHistory, Terminal!Does, DoneInv
<1> QED BY <1>1, <1>2

LEMMA LoadOlderIs ==
    ASSUME NEW u, UiInv(u) PROVE DoneInv(Terminal!LoadOlder(u))
<1>1. CASE u.loadingOlder \/ u.open = None
    BY <1>1 DEF Terminal!LoadOlder, Terminal!Does, DoneInv
<1>2. CASE ~(u.loadingOlder \/ u.open = None) /\ ~u.hasMore
    BY <1>2, RequestHistoryIs DEF Terminal!LoadOlder
<1>3. CASE ~(u.loadingOlder \/ u.open = None) /\ u.hasMore
    <2>1. UiInv([u EXCEPT !.loadingOlder = TRUE])
        BY UiFields, FlagsKeepUi
    <2>2. CallInv(Terminal!Call(u, "older", u.nextBefore, Page, None))
        BY <1>3, UiFields, PageCallIs, TerminalConstants DEF Modes
    <2> QED
        BY <1>3, <2>1, <2>2 DEF Terminal!LoadOlder, Terminal!LoadPage, Terminal!Does, DoneInv
<1> QED BY <1>1, <1>2, <1>3

LEMMA RefreshesAre ==
    ASSUME NEW u, UiInv(u)
    PROVE  /\ \A c \in Terminal!RefreshOpen(u) : CallInv(c)
           /\ \A m \in Terminal!Messages : m.room = u.open =>
                 \A c \in Terminal!RefreshOne(u, m) : CallInv(c)
<1>1. CASE u.open = None
    BY <1>1 DEF Terminal!RefreshOpen, Terminal!RefreshOne
<1>2. CASE u.open # None
    <2>1. Terminal!Smaller(Terminal!Larger(Len(u.shown), Page), Most) \in Nat
        BY UiFields, TerminalConstants DEF Terminal!Smaller, Terminal!Larger
    <2>2. CallInv(Terminal!Call(u, "reset", 0,
                      Terminal!Smaller(Terminal!Larger(Len(u.shown), Page), Most), None))
        BY <1>2, <2>1, PageCallIs, TerminalConstants DEF Modes
    <2>3. ASSUME NEW m \in Terminal!Messages, m.room = u.open
          PROVE  CallInv(Terminal!Call(u, "one", 0, 0, m))
        BY <1>2, <2>3, CallIs, TerminalConstants DEF Modes
    <2> QED
        BY <1>2, <2>2, <2>3
        DEF Terminal!RefreshOpen, Terminal!RefreshOne, Terminal!LoadPage
<1> QED BY <1>1, <1>2

LEMMA UpsertIs ==
    ASSUME NEW u, UiInv(u), NEW m \in Terminal!Messages, m.room = u.open
    PROVE  /\ UiInv(Terminal!Upsert(u, m))
           /\ \E i \in 1 .. Len(Terminal!Upsert(u, m).shown) : Terminal!Upsert(u, m).shown[i] = m
<1>1. CASE Terminal!Has(u, m)
    BY <1>1, UiFields DEF Terminal!Upsert, Terminal!Has
<1>2. CASE ~Terminal!Has(u, m)
    <2> DEFINE s == Append(u.shown, m)
               v == [u EXCEPT !.shown = s]
    <2>1. /\ Len(u.shown) \in Nat /\ s \in Seq(Terminal!Messages) /\ Len(s) = Len(u.shown) + 1
          /\ \A i \in 1 .. Len(u.shown) : s[i] = u.shown[i]
          /\ s[Len(u.shown) + 1] = m
        BY UiFields, AppendIs
    <2> HIDE DEF s
    <2>2. \A i \in 1 .. Len(s) : i \in 1 .. Len(u.shown) \/ i = Len(u.shown) + 1
        BY <2>1
    <2>3. \A i \in 1 .. Len(u.shown) : u.shown[i] # m
        BY <1>2, UiFields DEF Terminal!Has
    <2>4. OnceEach(s)
        BY <2>1, <2>2, <2>3 DEF UiInv, OnceEach
    <2>5. \A i \in 1 .. Len(s) : s[i].room = u.open
        BY <2>1, <2>2 DEF UiInv
    <2>6. Terminal!Upsert(u, m) = v
        BY <1>2 DEF Terminal!Upsert, s
    <2>7. UiInv(v) /\ v.shown = s
        BY <2>1, <2>4, <2>5 DEF UiInv, Terminal!Interface
    <2>8. Len(u.shown) + 1 \in 1 .. Len(s)
        BY <2>1
    <2> HIDE DEF v
    <2> QED BY <2>1, <2>6, <2>7, <2>8
<1> QED BY <1>1, <1>2

(* A page above what is shown leaves each message once and the cursor on    *)
(* its own.                                                                 *)
LEMMA PrependIs ==
    ASSUME NEW u, UiInv(u), NEW older \in Seq(Terminal!Messages), OnceEach(older),
           \A i \in 1 .. Len(older) : older[i].room = u.open
    PROVE  /\ UiInv(Terminal!Prepend(u, older))
           /\ Terminal!SelectedMessage(Terminal!Prepend(u, older)) = Terminal!SelectedMessage(u)
           /\ Terminal!Prepend(u, older).open = u.open
           /\ Terminal!Prepend(u, older).seeking = u.seeking
           /\ Terminal!Prepend(u, older).hasMore = u.hasMore
<1> DEFINE g == Terminal!Unseen(u, older)
           s == g \o u.shown
           v == [u EXCEPT !.shown = s, !.cursor = @ + Len(g)]
<1>1. /\ g \in Seq(Terminal!Messages) /\ OnceEach(g)
      /\ \A i \in 1 .. Len(g) :
            ~Terminal!Has(u, g[i]) /\ \E k \in 1 .. Len(older) : g[i] = older[k]
    BY UnseenIs
<1> HIDE DEF g
<1>2. /\ s \in Seq(Terminal!Messages) /\ Len(g) \in Nat /\ Len(u.shown) \in Nat
      /\ Len(s) = Len(g) + Len(u.shown)
      /\ \A i \in 1 .. Len(g) : s[i] = g[i]
      /\ \A i \in 1 .. Len(u.shown) : s[Len(g) + i] = u.shown[i]
    BY <1>1, UiFields, ConcatIs
<1> HIDE DEF s
<1>3. \A i \in 1 .. Len(s) :
          \/ i \in 1 .. Len(g) /\ s[i] = g[i]
          \/ i - Len(g) \in 1 .. Len(u.shown) /\ s[i] = u.shown[i - Len(g)]
    <2> SUFFICES ASSUME NEW i \in 1 .. Len(s), i \notin 1 .. Len(g)
                 PROVE  i - Len(g) \in 1 .. Len(u.shown) /\ s[i] = u.shown[i - Len(g)]
        BY <1>2
    <2>1. i - Len(g) \in 1 .. Len(u.shown) /\ Len(g) + (i - Len(g)) = i
        BY <1>2
    <2> QED BY <1>2, <2>1
<1>4. \A i \in 1 .. Len(s) : s[i].room = u.open
    <2>1. \A i \in 1 .. Len(g) : g[i].room = u.open
        <3> SUFFICES ASSUME NEW i \in 1 .. Len(g) PROVE g[i].room = u.open
            OBVIOUS
        <3>1. PICK k \in 1 .. Len(older) : g[i] = older[k]
            BY <1>1
        <3> QED BY <3>1
    <2>2. \A i \in 1 .. Len(u.shown) : u.shown[i].room = u.open
        BY DEF UiInv
    <2> SUFFICES ASSUME NEW i \in 1 .. Len(s) PROVE s[i].room = u.open
        OBVIOUS
    <2>3. CASE i \in 1 .. Len(g) /\ s[i] = g[i]
        BY <2>1, <2>3
    <2>4. CASE i - Len(g) \in 1 .. Len(u.shown) /\ s[i] = u.shown[i - Len(g)]
        BY <2>2, <2>4
    <2> QED BY <1>3, <2>3, <2>4
<1>5. OnceEach(s)
    <2> SUFFICES ASSUME NEW i \in 1 .. Len(s), NEW j \in 1 .. Len(s), s[i] = s[j] PROVE i = j
        BY DEF OnceEach
    <2>1. \A k \in 1 .. Len(g) : \A l \in 1 .. Len(u.shown) : g[k] # u.shown[l]
        BY <1>1, UiFields DEF Terminal!Has
    <2>2. CASE i \in 1 .. Len(g) /\ j \in 1 .. Len(g)
        BY <1>1, <1>2, <2>2 DEF OnceEach
    <2>3. CASE i - Len(g) \in 1 .. Len(u.shown) /\ j - Len(g) \in 1 .. Len(u.shown)
        <3>1. s[i] = u.shown[i - Len(g)] /\ s[j] = u.shown[j - Len(g)]
            BY <1>2, <1>3, <2>3
        <3>2. i - Len(g) = j - Len(g)
            BY <2>3, <3>1 DEF UiInv, OnceEach
        <3> QED BY <1>2, <3>2
    <2> QED BY <1>3, <2>1, <2>2, <2>3
<1>6. u.cursor \in Nat /\ u.cursor + Len(g) \in Nat
    BY <1>2, UiFields
<1>7. /\ UiInv(v) /\ v.shown = s /\ v.cursor = u.cursor + Len(g) /\ v.open = u.open
      /\ v.seeking = u.seeking /\ v.hasMore = u.hasMore
    BY <1>2, <1>4, <1>5, <1>6 DEF UiInv, Terminal!Interface
<1>8. Terminal!Prepend(u, older) = v
    BY DEF Terminal!Prepend, v, s, g
<1> HIDE DEF v
<1>9. Terminal!SelectedMessage(v) = Terminal!SelectedMessage(u)
    <2>1. v.cursor < Len(s) <=> u.cursor < Len(u.shown)
        BY <1>2, <1>6, <1>7
    <2>2. u.cursor < Len(u.shown) => s[v.cursor + 1] = u.shown[u.cursor + 1]
        <3> SUFFICES ASSUME u.cursor < Len(u.shown) PROVE s[v.cursor + 1] = u.shown[u.cursor + 1]
            OBVIOUS
        <3>1. u.cursor + 1 \in 1 .. Len(u.shown) /\ v.cursor + 1 = Len(g) + (u.cursor + 1)
            BY <1>2, <1>6, <1>7
        <3> QED BY <1>2, <3>1
    <2> QED BY <1>7, <2>1, <2>2 DEF Terminal!SelectedMessage
<1> QED BY <1>7, <1>8, <1>9

LEMMA SeekIs ==
    ASSUME NEW u, UiInv(u), NEW m \in Terminal!Messages
    PROVE  DoneInv(Terminal!Seek(u, m))
<1>1. CASE Terminal!Has(u, m)
    <2>1. Terminal!At(u, m) - 1 \in Nat
        <3>1. Terminal!At(u, m) \in 1 .. Len(u.shown)
            BY <1>1, UiFields DEF Terminal!At, Terminal!Has
        <3> QED BY <3>1, UiFields
    <2>2. UiInv([u EXCEPT !.cursor = Terminal!At(u, m) - 1, !.seeking = None, !.seekingPages = 0])
        <3>1. 0 \in 0 .. SeekPages
            BY TerminalConstants
        <3> QED BY <2>1, <3>1, FlagsKeepUi
    <2> QED BY <1>1, <2>2 DEF Terminal!Seek, Terminal!Does, DoneInv
<1>2. CASE ~Terminal!Has(u, m) /\ (~u.hasMore \/ u.seekingPages >= SeekPages)
    <2>1. 0 \in 0 .. SeekPages
        BY TerminalConstants
    <2>2. UiInv([u EXCEPT !.seeking = None, !.seekingPages = 0])
        BY <2>1, FlagsKeepUi
    <2> QED BY <1>2, <2>2 DEF Terminal!Seek, Terminal!Does, DoneInv
<1>3. CASE ~Terminal!Has(u, m) /\ ~(~u.hasMore \/ u.seekingPages >= SeekPages)
    <2>1. u.seekingPages + 1 \in 0 .. SeekPages
        BY <1>3, UiFields, TerminalConstants
    <2>2. UiInv([u EXCEPT !.seeking = m, !.seekingPages = @ + 1])
        BY <2>1, FlagsKeepUi
    <2> QED BY <1>3, <2>2, LoadOlderIs DEF Terminal!Seek
<1> QED BY <1>1, <1>2, <1>3

LEMMA OpenChatIs ==
    ASSUME NEW u, UiInv(u), NEW r \in Rooms, u.generation < MaxOpens
    PROVE  DoneInv(Terminal!OpenChat(u, r))
<1> DEFINE v == [u EXCEPT !.generation = @ + 1, !.open = r, !.shown = <<>>,
                          !.hasMore = FALSE, !.nextBefore = 0, !.cursor = 0,
                          !.loadingOlder = FALSE, !.waitingHistory = FALSE,
                          !.replyTo = None, !.editing = None]
<1>1. u.generation + 1 \in 0 .. MaxOpens /\ 0 \in 0 .. MaxNumber /\ <<>> \in Seq(Terminal!Messages)
    BY UiFields, TerminalConstants
<1>2. UiInv(v) /\ v.open = r
    <2>1. v \in Terminal!Interface
        BY <1>1 DEF UiInv, Terminal!Interface
    <2>2. /\ v.open = r /\ v.shown = <<>> /\ v.replyTo = None /\ v.editing = None
        BY DEF UiInv, Terminal!Interface
    <2> HIDE DEF v
    <2>3. 1 .. Len(v.shown) = {}
        BY <2>2
    <2> QED BY <2>1, <2>2, <2>3 DEF UiInv, OnceEach
<1> HIDE DEF v
<1>3. CallInv(Terminal!Call(v, "open", 0, Page, None))
    BY <1>1, <1>2, PageCallIs, TerminalConstants DEF Modes
<1> QED BY <1>2, <1>3 DEF Terminal!OpenChat, Terminal!Does, Terminal!LoadPage, DoneInv, v

LEMMA PlacedIs ==
    ASSUME NEW u, UiInv(u), NEW c, CallInv(c), c.answer # None,
           c.mode \in {"open", "older", "reset"}, Terminal!Current(u, c)
    PROVE  /\ UiInv(Terminal!Placed(u, c))
           /\ c.mode = "older" =>
                 Terminal!SelectedMessage(Terminal!Placed(u, c)) = Terminal!SelectedMessage(u)
           /\ Terminal!Placed(u, c).seeking = u.seeking
<1>1. /\ c.answer.messages \in Seq(Terminal!Messages) /\ c.answer.hasMore \in BOOLEAN
      /\ c.answer.nextBefore \in 0 .. MaxNumber /\ OnceEach(c.answer.messages)
      /\ \A i \in 1 .. Len(c.answer.messages) : c.answer.messages[i].room = u.open
    BY DEF CallInv, Pages, Terminal!Current
<1> DEFINE read == [u EXCEPT !.hasMore = c.answer.hasMore, !.nextBefore = c.answer.nextBefore]
           idle == [read EXCEPT !.loadingOlder = FALSE, !.waitingHistory = FALSE]
<1>2. /\ UiInv(read) /\ read.open = u.open /\ read.seeking = u.seeking /\ read.shown = u.shown
      /\ read.cursor = u.cursor
    BY <1>1 DEF UiInv, Terminal!Interface
<1>3. CASE c.mode = "older"
    <2> HIDE DEF read
    <2>1. /\ UiInv(idle) /\ idle.open = u.open /\ idle.seeking = u.seeking
          /\ idle.shown = u.shown /\ idle.cursor = u.cursor
        <3>1. UiInv(idle)
            BY <1>2 DEF UiInv, Terminal!Interface
        <3>2. read \in Terminal!Interface
            BY <1>2 DEF UiInv
        <3>3. /\ idle.open = read.open /\ idle.seeking = read.seeking
              /\ idle.shown = read.shown /\ idle.cursor = read.cursor
            BY <3>2 DEF Terminal!Interface
        <3> QED BY <1>2, <3>1, <3>3
    <2> HIDE DEF idle
    <2>2. Terminal!SelectedMessage(idle) = Terminal!SelectedMessage(u)
        BY <2>1 DEF Terminal!SelectedMessage
    <2>3. Terminal!Placed(u, c) = Terminal!Prepend(idle, c.answer.messages)
        BY <1>3 DEF Terminal!Placed, idle, read
    <2> QED BY <1>1, <2>1, <2>2, <2>3, PrependIs
<1>4. CASE c.mode # "older"
    <2> DEFINE place == Terminal!Larger(0, Len(c.answer.messages) - 1)
               v == [read EXCEPT !.shown = c.answer.messages, !.cursor = place]
    <2>1. place \in Nat
        BY <1>1 DEF Terminal!Larger
    <2> HIDE DEF read, place
    <2>2. UiInv(v) /\ v.seeking = u.seeking
        BY <1>1, <1>2, <2>1 DEF UiInv, Terminal!Interface
    <2>3. Terminal!Placed(u, c) = v
        BY <1>4 DEF Terminal!Placed, read, place
    <2> QED BY <1>4, <2>2, <2>3
<1> QED BY <1>3, <1>4

LEMMA TakePageIs ==
    ASSUME NEW u, UiInv(u), NEW c, CallInv(c), c.answer # None,
           c.mode \in {"open", "older", "reset"}
    PROVE  /\ DoneInv(Terminal!TakePage(u, c))
           /\ c.mode = "older" /\ u.seeking = None =>
                 Terminal!SelectedMessage(Terminal!TakePage(u, c).ui) = Terminal!SelectedMessage(u)
<1> DEFINE placed == Terminal!Placed(u, c)
<1>1. CASE ~Terminal!Current(u, c)
    BY <1>1 DEF Terminal!TakePage, Terminal!Does, DoneInv
<1>2. CASE Terminal!Current(u, c)
    <2>1. /\ UiInv(placed) /\ placed.seeking = u.seeking
          /\ c.mode = "older" => Terminal!SelectedMessage(placed) = Terminal!SelectedMessage(u)
        BY <1>2, PlacedIs
    <2> HIDE DEF placed
    <2>2. CASE c.mode = "open"
        BY <1>2, <2>1, <2>2 DEF Terminal!TakePage, Terminal!Does, DoneInv, placed
    <2>3. CASE c.mode # "open" /\ placed.seeking # None
        <3>1. placed.seeking \in Terminal!Messages
            BY <2>1, <2>3, UiFields
        <3> QED BY <1>2, <2>1, <2>3, <3>1, SeekIs DEF Terminal!TakePage, placed
    <2>4. CASE c.mode # "open" /\ placed.seeking = None /\ ~placed.hasMore
        <3>1. Terminal!TakePage(u, c) = Terminal!RequestHistory(placed)
            BY <1>2, <2>4 DEF Terminal!TakePage, placed
        <3>2. /\ Terminal!RequestHistory(placed).ui.shown = placed.shown
              /\ Terminal!RequestHistory(placed).ui.cursor = placed.cursor
            BY <2>1 DEF Terminal!RequestHistory, Terminal!Does, UiInv, Terminal!Interface
        <3>3. Terminal!SelectedMessage(Terminal!RequestHistory(placed).ui) =
                  Terminal!SelectedMessage(placed)
            BY <3>2 DEF Terminal!SelectedMessage
        <3> QED BY <2>1, <3>1, <3>3, RequestHistoryIs
    <2>5. CASE c.mode # "open" /\ placed.seeking = None /\ placed.hasMore
        BY <1>2, <2>1, <2>5 DEF Terminal!TakePage, Terminal!Does, DoneInv, placed
    <2> QED BY <2>2, <2>3, <2>4, <2>5
<1> QED BY <1>1, <1>2

LEMMA TakeOneIs ==
    ASSUME NEW u, UiInv(u), NEW c, CallInv(c), c.answer # None,
           c.mode \notin {"open", "older", "reset"}
    PROVE  DoneInv(Terminal!TakeOne(u, c))
<1>1. c.answer \in Terminal!Messages /\ c.answer.room = c.room
    BY DEF CallInv
<1>2. Terminal!Current(u, c) => UiInv(Terminal!Upsert(u, c.answer))
    BY <1>1, UpsertIs DEF Terminal!Current
<1> QED BY <1>2 DEF Terminal!TakeOne, Terminal!Does, DoneInv

LEMMA ArrivedIs ==
    ASSUME NEW u, UiInv(u), NEW m \in Terminal!Messages
    PROVE  /\ DoneInv(Terminal!Arrived(u, m))
           /\ m.room = u.open =>
                 \E i \in DOMAIN Terminal!Arrived(u, m).ui.shown :
                    Terminal!Arrived(u, m).ui.shown[i] = m
<1>1. CASE m.room # u.open
    BY <1>1 DEF Terminal!Arrived, Terminal!Does, DoneInv
<1>2. CASE m.room = u.open
    <2> DEFINE g == Terminal!Upsert(u, m)
               v == [g EXCEPT !.cursor = Terminal!Newest(g)]
    <2>1. UiInv(g) /\ \E i \in 1 .. Len(g.shown) : g.shown[i] = m
        BY <1>2, UpsertIs
    <2> HIDE DEF g
    <2>2. Terminal!Newest(g) \in Nat
        BY <2>1, UiFields DEF Terminal!Newest, Terminal!Larger
    <2>3. UiInv(v) /\ v.shown = g.shown
        BY <2>1, <2>2 DEF UiInv, Terminal!Interface
    <2>4. DOMAIN g.shown = 1 .. Len(g.shown)
        BY <2>1, UiFields
    <2> HIDE DEF v
    <2>5. \/ Terminal!Arrived(u, m) = Terminal!Does(v, {})
          \/ Terminal!Arrived(u, m) = Terminal!Does(g, {})
        BY <1>2 DEF Terminal!Arrived, v, g
    <2> QED BY <2>1, <2>3, <2>4, <2>5 DEF Terminal!Does, DoneInv
<1> QED BY <1>1, <1>2

LEMMA TouchedIs ==
    ASSUME NEW u, UiInv(u), NEW m \in Terminal!Messages
    PROVE  DoneInv(Terminal!Touched(u, m))
BY RefreshesAre DEF Terminal!Touched, Terminal!Does, DoneInv

LEMMA SyncedIs ==
    ASSUME NEW u, UiInv(u), NEW r \in Rooms
    PROVE  DoneInv(Terminal!Synced(u, r))
<1> DEFINE again == IF r = u.open THEN Terminal!RefreshOpen(u) ELSE {}
<1>1. \A c \in again : CallInv(c)
    BY RefreshesAre
<1> HIDE DEF again
<1>2. CASE u.waitingHistory /\ u.open # None /\ ~u.loadingOlder
    <2> DEFINE v == [u EXCEPT !.waitingHistory = FALSE, !.loadingOlder = TRUE]
    <2>1. UiInv(v)
        BY DEF UiInv, Terminal!Interface
    <2> HIDE DEF v
    <2>2. CallInv(Terminal!Call(u, "older", u.nextBefore, Page, None))
        BY <1>2, UiFields, PageCallIs, TerminalConstants DEF Modes
    <2>3. Terminal!Synced(u, r) =
              Terminal!Does(v, again \cup {Terminal!LoadPage(u, u.nextBefore, Page, "older")})
        BY <1>2 DEF Terminal!Synced, again, v
    <2> QED BY <1>1, <2>1, <2>2, <2>3 DEF Terminal!Does, Terminal!LoadPage, DoneInv
<1>3. CASE ~(u.waitingHistory /\ u.open # None /\ ~u.loadingOlder)
    <2>1. Terminal!Synced(u, r) = Terminal!Does(u, again)
        BY <1>3 DEF Terminal!Synced, again
    <2> QED BY <1>1, <2>1 DEF Terminal!Does, DoneInv
<1> QED BY <1>2, <1>3

(* An announcement of the daemon, and what the interface makes of it.       *)
Announcements ==
    [event : {"message.upsert", "message.edited", "history.synced"}, message : Terminal!Messages]

LEMMA AnnouncementIs ==
    ASSUME NEW u, UiInv(u), NEW e \in Announcements
    PROVE  /\ DoneInv(Terminal!Announcement(u, e))
           /\ e.event = "message.upsert" /\ e.message.room = u.open =>
                 \E i \in DOMAIN Terminal!Announcement(u, e).ui.shown :
                    Terminal!Announcement(u, e).ui.shown[i] = e.message
<1>1. e.message \in Terminal!Messages /\ e.message.room \in Rooms
    BY TerminalConstants DEF Announcements
<1>2. CASE e.event = "message.upsert"
    <2>1. Terminal!Announcement(u, e) = Terminal!Arrived(u, e.message)
        BY <1>2 DEF Terminal!Announcement
    <2> QED BY <1>1, <2>1, ArrivedIs
<1>3. CASE e.event = "message.edited"
    <2>1. Terminal!Announcement(u, e) = Terminal!Touched(u, e.message)
        BY <1>3 DEF Terminal!Announcement
    <2> QED BY <1>1, <1>3, <2>1, TouchedIs
<1>4. CASE e.event = "history.synced"
    <2>1. Terminal!Announcement(u, e) = Terminal!Synced(u, e.message.room)
        BY <1>4 DEF Terminal!Announcement
    <2> QED BY <1>1, <1>4, <2>1, SyncedIs
<1> QED BY <1>2, <1>3, <1>4 DEF Announcements

LEMMA ClosedIs ==
    ASSUME NEW u, UiInv(u)
    PROVE  UiInv([u EXCEPT !.open = None, !.shown = <<>>, !.cursor = 0])
<1> DEFINE v == [u EXCEPT !.open = None, !.shown = <<>>, !.cursor = 0]
<1>1. v \in Terminal!Interface /\ v.open = None /\ v.shown = <<>>
    <2>1. <<>> \in Seq(Terminal!Messages)
        OBVIOUS
    <2> QED BY <2>1 DEF UiInv, Terminal!Interface
<1> HIDE DEF v
<1>2. 1 .. Len(v.shown) = {}
    BY <1>1
<1>3. UiInv(v)
    BY <1>1, <1>2 DEF UiInv, OnceEach
<1> QED BY <1>3 DEF v

(* What is selected is a message of the open conversation.                  *)
LEMMA SelectedIs ==
    ASSUME NEW u, UiInv(u), NEW m, m = Terminal!SelectedMessage(u)
    PROVE  /\ m \in Terminal!Messages \cup {None} /\ (m # None => m.room = u.open)
           /\ UiInv([u EXCEPT !.replyTo = m, !.editing = None])
           /\ UiInv([u EXCEPT !.editing = m, !.replyTo = None])
<1>1. m \in Terminal!Messages \cup {None} /\ (m # None => m.room = u.open)
    <2>1. CASE u.cursor < Len(u.shown)
        <3>1. u.cursor + 1 \in 1 .. Len(u.shown) /\ m = u.shown[u.cursor + 1]
            BY <2>1, UiFields DEF Terminal!SelectedMessage
        <3> QED BY <3>1, UiFields DEF UiInv
    <2>2. CASE ~(u.cursor < Len(u.shown))
        BY <2>2 DEF Terminal!SelectedMessage
    <2> QED BY <2>1, <2>2
<1>2. UiInv([u EXCEPT !.replyTo = m, !.editing = None])
    BY <1>1 DEF UiInv, Terminal!Interface
<1>3. UiInv([u EXCEPT !.editing = m, !.replyTo = None])
    BY <1>1 DEF UiInv, Terminal!Interface
<1> QED BY <1>1, <1>2, <1>3

LEMMA SentIs ==
    ASSUME NEW u, UiInv(u), u.open # None
    PROVE  /\ UiInv([u EXCEPT !.editing = None, !.replyTo = None])
           /\ u.editing # None => CallInv(Terminal!Call(u, "edit", 0, 0, u.editing))
           /\ u.editing = None => CallInv(Terminal!Call(u, "send", 0, 0, u.replyTo))
<1>1. UiInv([u EXCEPT !.editing = None, !.replyTo = None])
    <2> DEFINE v == [u EXCEPT !.editing = None, !.replyTo = None]
    <2>1. /\ v \in Terminal!Interface /\ v.shown = u.shown /\ v.open = u.open
          /\ v.replyTo = None /\ v.editing = None
        BY DEF UiInv, Terminal!Interface
    <2> HIDE DEF v
    <2>2. UiInv(v)
        BY <2>1 DEF UiInv
    <2> QED BY <2>2 DEF v
<1>2. u.editing # None => CallInv(Terminal!Call(u, "edit", 0, 0, u.editing))
    BY UiFields, CallIs, TerminalConstants DEF Modes
<1>3. u.editing = None => CallInv(Terminal!Call(u, "send", 0, 0, u.replyTo))
    BY UiFields, CallIs, TerminalConstants DEF Modes
<1> QED BY <1>1, <1>2, <1>3

LEMMA MovedIs ==
    ASSUME NEW u, UiInv(u)
    PROVE  /\ u.cursor > 0 => UiInv([u EXCEPT !.cursor = @ - 1])
           /\ UiInv([u EXCEPT !.cursor = @ + 1])
<1>1. (u.cursor > 0 => u.cursor - 1 \in Nat) /\ u.cursor + 1 \in Nat
    BY UiFields
<1> QED BY <1>1 DEF UiInv, Terminal!Interface

TerminalInv ==
    /\ first \in [Rooms -> 1 .. MaxNumber] /\ last \in [Rooms -> 1 .. MaxNumber]
    /\ ours \subseteq Terminal!Messages /\ acked \subseteq Terminal!Messages
    /\ stream \in Seq(Announcements)
    /\ \A c \in calls : CallInv(c)
    /\ UiInv(ui)
    /\ keys \in 0 .. MaxActs /\ failures \in 0 .. MaxActs

(* A page of the daemon is about one conversation and names each message    *)
(* once.                                                                    *)
LEMMA PageIs ==
    ASSUME TerminalInv, NEW r \in Rooms, NEW edge \in 0 .. MaxNumber, NEW limit \in Nat
    PROVE  LET page == Terminal!ListMessagesBefore(r, edge, limit)
           IN  /\ page \in Pages /\ OnceEach(page.messages)
               /\ \A i \in 1 .. Len(page.messages) : page.messages[i].room = r
<1> DEFINE top    == IF edge = 0 THEN last[r] ELSE edge - 1
           bottom == Terminal!Larger(top - limit + 1, first[r])
           size   == Terminal!Larger(0, top - bottom + 1)
           rows   == [i \in 1 .. size |-> Terminal!Message(r, bottom + i - 1)]
           page   == Terminal!ListMessagesBefore(r, edge, limit)
<1>1. top \in 0 .. MaxNumber /\ first[r] \in 1 .. MaxNumber
    BY TerminalConstants DEF TerminalInv
<1> HIDE DEF top
<1>2. bottom \in 1 .. MaxNumber + 1
    BY <1>1, TerminalConstants DEF Terminal!Larger
<1> HIDE DEF bottom
<1>3. size \in Nat /\ size <= MaxNumber /\ (size > 0 => bottom + size - 1 = top)
    BY <1>1, <1>2, TerminalConstants DEF Terminal!Larger
<1> HIDE DEF size
<1>4. \A i \in 1 .. size : Terminal!Message(r, bottom + i - 1) \in Terminal!Messages
    BY <1>1, <1>2, <1>3, TerminalConstants DEF Terminal!Message
<1>5. /\ rows \in Seq(Terminal!Messages) /\ Len(rows) = size
      /\ \A i \in 1 .. size : rows[i] = Terminal!Message(r, bottom + i - 1)
    BY <1>3, <1>4
<1> HIDE DEF rows
<1>6. OnceEach(rows)
    BY <1>1, <1>2, <1>3, <1>5, TerminalConstants DEF OnceEach, Terminal!Message
<1>7. \A i \in 1 .. Len(rows) : rows[i].room = r
    BY <1>5 DEF Terminal!Message
<1>8. page = [messages |-> rows, hasMore |-> top >= bottom /\ bottom > first[r],
              nextBefore |-> IF top < bottom THEN 0 ELSE bottom]
    BY DEF Terminal!ListMessagesBefore, rows, size, bottom, top
<1>9. (top >= bottom /\ bottom > first[r]) \in BOOLEAN
    OBVIOUS
<1>10. (IF top < bottom THEN 0 ELSE bottom) \in 0 .. MaxNumber
    BY <1>1, <1>2, TerminalConstants
<1>11. page \in Pages /\ page.messages = rows
    BY <1>5, <1>8, <1>9, <1>10 DEF Pages
<1> HIDE DEF page
<1> QED BY <1>6, <1>7, <1>11 DEF page

LEMMA InitTerminal == Terminal!Init => TerminalInv
<1> SUFFICES ASSUME Terminal!Init PROVE TerminalInv
    OBVIOUS
<1>1. /\ first \in [Rooms -> 1 .. MaxNumber] /\ last \in [Rooms -> 1 .. MaxNumber]
      /\ ours \subseteq Terminal!Messages /\ acked \subseteq Terminal!Messages
      /\ calls = {} /\ keys \in 0 .. MaxActs /\ failures \in 0 .. MaxActs
    BY TerminalConstants DEF Terminal!Init
<1>2. stream \in Seq(Announcements)
    BY DEF Terminal!Init
<1>3. UiInv(ui)
    <2>1. ui \in Terminal!Interface
        <3>1. <<>> \in Seq(Terminal!Messages) /\ 0 \in 0 .. SeekPages /\ 0 \in 0 .. MaxOpens
              /\ 0 \in 0 .. MaxNumber
            BY TerminalConstants
        <3> QED BY <3>1 DEF Terminal!Init, Terminal!Interface
    <2>2. ui.open = None /\ ui.shown = <<>>
        BY DEF Terminal!Init
    <2>3. 1 .. Len(ui.shown) = {}
        BY <2>2
    <2> QED BY <2>1, <2>2, <2>3 DEF UiInv, OnceEach
<1> QED BY <1>1, <1>2, <1>3 DEF TerminalInv

(* What the interface makes of one message keeps the interface and the      *)
(* calls as they should be.                                                 *)
LEMMA HandleKeeps ==
    ASSUME TerminalInv, NEW done, DoneInv(done), NEW stay \in SUBSET calls,
           Terminal!Handle(done, stay)
    PROVE  UiInv(ui') /\ \A c \in calls' : CallInv(c)
BY DEF TerminalInv, DoneInv, Terminal!Handle

(* A message is announced after the ones before it.                         *)
LEMMA TellsOfIt ==
    ASSUME TerminalInv, NEW r \in Rooms, NEW n \in 1 .. MaxNumber,
           NEW name \in {"message.upsert", "message.edited", "history.synced"}
    PROVE  /\ Terminal!Message(r, n) \in Terminal!Messages
           /\ Append(stream, Terminal!Event(name, Terminal!Message(r, n))) \in Seq(Announcements)
<1>1. Terminal!Message(r, n) \in Terminal!Messages
    BY TerminalConstants DEF Terminal!Message
<1>2. Terminal!Event(name, Terminal!Message(r, n)) \in Announcements
    BY <1>1 DEF Terminal!Event, Announcements
<1> QED BY <1>1, <1>2, AppendIs DEF TerminalInv

LEMMA ArriveKeepsTerminal ==
    ASSUME TerminalInv, NEW r \in Rooms, Terminal!Arrive(r) PROVE TerminalInv'
<1>1. last[r] + 1 \in 1 .. MaxNumber /\ last' = [last EXCEPT ![r] = last[r] + 1]
      /\ last' \in [Rooms -> 1 .. MaxNumber] /\ last'[r] = last[r] + 1
    BY TerminalConstants DEF TerminalInv, Terminal!Arrive
<1>2. stream' \in Seq(Announcements)
    BY <1>1, TellsOfIt DEF Terminal!Arrive
<1> QED BY <1>1, <1>2 DEF TerminalInv, Terminal!Arrive

LEMMA CollectKeepsTerminal ==
    ASSUME TerminalInv, NEW c \in calls, Terminal!Collect(c) PROVE TerminalInv'
<1>1. c.room \in Rooms /\ 1 \in 1 .. MaxNumber
    BY TerminalConstants DEF TerminalInv, CallInv, Asked
<1>2. first' \in [Rooms -> 1 .. MaxNumber]
    BY <1>1 DEF TerminalInv, Terminal!Collect
<1>3. stream' \in Seq(Announcements)
    BY <1>1, TellsOfIt DEF Terminal!Collect
<1> QED BY <1>2, <1>3 DEF TerminalInv, Terminal!Collect

LEMMA CallEndsKeepsTerminal ==
    ASSUME TerminalInv, NEW c \in calls, Terminal!GoUnanswered(c) \/ Terminal!Fail(c)
    PROVE  TerminalInv'
<1>1. failures' \in 0 .. MaxActs
    BY TerminalConstants DEF TerminalInv, Terminal!GoUnanswered, Terminal!Fail
<1> QED
    BY <1>1 DEF TerminalInv, Terminal!GoUnanswered, Terminal!Fail, Terminal!daemonVars

LEMMA AnswerKeepsTerminal ==
    ASSUME TerminalInv, NEW c \in calls, Terminal!Answer(c) PROVE TerminalInv'
<1>1. CallInv(c) /\ c \in Asked /\ c.room \in Rooms /\ c.before \in 0 .. MaxNumber
      /\ c.limit \in Nat
    BY DEF TerminalInv, CallInv, Asked
<1>2. /\ ui' = ui /\ keys' = keys /\ failures' = failures /\ acked' = {}
    BY DEF Terminal!Answer
<1>3. CASE /\ c.mode \in {"open", "older", "reset"}
           /\ Terminal!Answered(c, Terminal!ListMessagesBefore(c.room, c.before, c.limit))
           /\ UNCHANGED Terminal!daemonVars
    <2> DEFINE page == Terminal!ListMessagesBefore(c.room, c.before, c.limit)
    <2>1. /\ page \in Pages /\ OnceEach(page.messages)
          /\ \A i \in 1 .. Len(page.messages) : page.messages[i].room = c.room
        BY <1>1, PageIs
    <2> HIDE DEF page
    <2>2. CallInv([c EXCEPT !.answer = page])
        BY <1>1, <1>3, <2>1 DEF CallInv, Asked
    <2>3. calls' = (calls \ {c}) \cup {[c EXCEPT !.answer = page]}
        BY <1>3 DEF Terminal!Answered, page
    <2> QED BY <1>2, <1>3, <2>2, <2>3 DEF TerminalInv, Terminal!daemonVars
<1>4. CASE c.mode = "one" /\ Terminal!Answered(c, c.about) /\ UNCHANGED Terminal!daemonVars
    <2>1. CallInv([c EXCEPT !.answer = c.about])
        BY <1>1, <1>4 DEF CallInv, Asked
    <2>2. calls' = (calls \ {c}) \cup {[c EXCEPT !.answer = c.about]}
        BY <1>4 DEF Terminal!Answered
    <2> QED BY <1>2, <1>4, <2>1, <2>2 DEF TerminalInv, Terminal!daemonVars
<1>5. CASE /\ c.mode = "send" /\ last[c.room] < MaxNumber
           /\ last' = [last EXCEPT ![c.room] = @ + 1]
           /\ ours' = ours \cup {Terminal!Message(c.room, last'[c.room])}
           /\ stream' = Append(stream, Terminal!Event("message.upsert",
                                              Terminal!Message(c.room, last'[c.room])))
           /\ Terminal!Answered(c, Terminal!Message(c.room, last'[c.room]))
           /\ UNCHANGED first
    <2> DEFINE m == Terminal!Message(c.room, last'[c.room])
    <2>1. last' \in [Rooms -> 1 .. MaxNumber] /\ last'[c.room] \in 1 .. MaxNumber
        BY <1>1, <1>5, TerminalConstants DEF TerminalInv
    <2>2. m \in Terminal!Messages /\ m.room = c.room /\ stream' \in Seq(Announcements)
        BY <1>1, <1>5, <2>1, TellsOfIt DEF Terminal!Message
    <2>3. /\ ours' = ours \cup {m} /\ calls' = (calls \ {c}) \cup {[c EXCEPT !.answer = m]}
        BY <1>5 DEF Terminal!Answered
    <2> HIDE DEF m
    <2>4. CallInv([c EXCEPT !.answer = m])
        BY <1>1, <1>5, <2>2 DEF CallInv, Asked
    <2> QED BY <1>2, <1>5, <2>1, <2>2, <2>3, <2>4 DEF TerminalInv
<1>6. CASE /\ c.mode = "edit"
           /\ stream' = Append(stream, Terminal!Event("message.edited", c.about))
           /\ calls' = calls \ {c}
           /\ UNCHANGED <<first, last, ours>>
    <2>1. Terminal!Event("message.edited", c.about) \in Announcements
        BY <1>1, <1>6 DEF CallInv, Announcements, Terminal!Event
    <2>2. stream' \in Seq(Announcements)
        BY <1>6, <2>1, AppendIs DEF TerminalInv
    <2> QED BY <1>2, <1>6, <2>2 DEF TerminalInv
<1> QED BY <1>3, <1>4, <1>5, <1>6 DEF Terminal!Answer

LEMMA TakeKeepsTerminal ==
    ASSUME TerminalInv, NEW c \in calls, Terminal!Take(c)
    PROVE  /\ TerminalInv'
           /\ acked' \subseteq Terminal!ToSet(ui'.shown) \ ours
           /\ c.mode = "older" /\ ui.seeking = None =>
                 Terminal!SelectedMessage(ui') = Terminal!SelectedMessage(ui)
<1> DEFINE done == IF c.mode \in {"open", "older", "reset"}
                   THEN Terminal!TakePage(ui, c) ELSE Terminal!TakeOne(ui, c)
<1>1. CallInv(c) /\ c.answer # None /\ UiInv(ui)
    BY DEF TerminalInv, Terminal!Take
<1>2. /\ DoneInv(done)
      /\ c.mode = "older" /\ ui.seeking = None =>
            Terminal!SelectedMessage(done.ui) = Terminal!SelectedMessage(ui)
    BY <1>1, TakePageIs, TakeOneIs
<1>3. Terminal!Handle(done, calls \ {c})
    BY DEF Terminal!Take
<1> HIDE DEF done
<1>4. UiInv(ui') /\ (\A d \in calls' : CallInv(d)) /\ ui' = done.ui
    BY <1>2, <1>3, HandleKeeps DEF Terminal!Handle
<1>5. acked' \subseteq Terminal!ToSet(ui'.shown) \ ours
    BY DEF Terminal!Take, Terminal!Others
<1>6. Terminal!ToSet(ui'.shown) \subseteq Terminal!Messages
    BY <1>4, UiFields DEF Terminal!ToSet
<1>7. TerminalInv'
    BY <1>4, <1>5, <1>6 DEF TerminalInv, Terminal!Take, Terminal!daemonVars
<1> QED BY <1>2, <1>4, <1>5, <1>7

LEMMA NextEventKeepsTerminal ==
    ASSUME TerminalInv, Terminal!NextEvent
    PROVE  /\ TerminalInv'
           /\ acked' \subseteq Terminal!ToSet(ui'.shown) \ ours
<1> DEFINE e == Head(stream)
           done == Terminal!Announcement(ui, e)
<1>1. e \in Announcements /\ stream' \in Seq(Announcements) /\ e.message \in Terminal!Messages
    <2>1. stream \in Seq(Announcements) /\ stream # <<>> /\ stream' = Tail(stream)
        BY DEF TerminalInv, Terminal!NextEvent
    <2>2. e \in Announcements /\ Tail(stream) \in Seq(Announcements)
        BY <2>1, TailIs
    <2> HIDE DEF e
    <2> QED BY <2>1, <2>2 DEF Announcements
<1>2. /\ Terminal!Handle(done, calls)
      /\ acked' = (IF e.event = "message.upsert" /\ e.message.room = ui.open
                   THEN Terminal!Others({e.message}) ELSE {})
      /\ UNCHANGED <<first, last, ours, keys, failures>>
    BY DEF Terminal!NextEvent
<1> HIDE DEF e
<1>3. /\ DoneInv(done)
      /\ e.event = "message.upsert" /\ e.message.room = ui.open =>
            \E i \in DOMAIN done.ui.shown : done.ui.shown[i] = e.message
    BY <1>1, AnnouncementIs DEF TerminalInv
<1> HIDE DEF done
<1>4. UiInv(ui') /\ (\A d \in calls' : CallInv(d)) /\ ui' = done.ui
    BY <1>2, <1>3, HandleKeeps DEF Terminal!Handle
<1>5. acked' \subseteq Terminal!ToSet(ui'.shown) \ ours
    BY <1>2, <1>3, <1>4 DEF Terminal!Others, Terminal!ToSet
<1>6. acked' \subseteq Terminal!Messages
    BY <1>1, <1>2 DEF Terminal!Others
<1> QED BY <1>1, <1>2, <1>4, <1>5, <1>6 DEF TerminalInv

(* What the reader does: the daemon's part stays.                           *)
LEMMA ReaderKeepsTerminal ==
    ASSUME TerminalInv, NEW done, DoneInv(done), Terminal!Handle(done, calls),
           UNCHANGED <<first, last, ours, stream, failures>>, acked' = {},
           keys' = keys \/ Terminal!Pressed
    PROVE  TerminalInv'
<1>1. UiInv(ui') /\ \A c \in calls' : CallInv(c)
    BY HandleKeeps
<1>2. keys' \in 0 .. MaxActs
    BY TerminalConstants DEF TerminalInv, Terminal!Pressed
<1> QED BY <1>1, <1>2 DEF TerminalInv

LEMMA OpenKeepsTerminal ==
    ASSUME TerminalInv, NEW r \in Rooms, Terminal!Open(r) PROVE TerminalInv'
<1>1. DoneInv(Terminal!OpenChat(ui, r))
    BY OpenChatIs DEF TerminalInv, Terminal!Open
<1> QED BY <1>1, ReaderKeepsTerminal DEF Terminal!Open, Terminal!daemonVars

LEMMA WalkKeepsTerminal ==
    ASSUME TerminalInv, Terminal!CloseOpen \/ Terminal!Up \/ Terminal!Down
    PROVE  TerminalInv'
<1> UiInv(ui)
    BY DEF TerminalInv
<1>1. CASE Terminal!CloseOpen
    <2> DEFINE done ==
            Terminal!Does([ui EXCEPT !.open = None, !.shown = <<>>, !.cursor = 0], {})
    <2>1. DoneInv(done)
        BY ClosedIs DEF Terminal!Does, DoneInv
    <2>2. /\ Terminal!Handle(done, calls) /\ acked' = {} /\ keys' = keys
          /\ UNCHANGED <<first, last, ours, stream, failures>>
        BY <1>1 DEF Terminal!CloseOpen, Terminal!daemonVars
    <2> HIDE DEF done
    <2> QED BY <2>1, <2>2, ReaderKeepsTerminal
<1>2. CASE Terminal!Up
    <2> DEFINE done == IF ui.cursor > 0 THEN Terminal!Does([ui EXCEPT !.cursor = @ - 1], {})
                       ELSE Terminal!LoadOlder(ui)
    <2>1. DoneInv(done)
        BY MovedIs, LoadOlderIs DEF Terminal!Does, DoneInv
    <2>2. /\ Terminal!Handle(done, calls) /\ acked' = {} /\ keys' = keys
          /\ UNCHANGED <<first, last, ours, stream, failures>>
        BY <1>2 DEF Terminal!Up, Terminal!daemonVars
    <2> HIDE DEF done
    <2> QED BY <2>1, <2>2, ReaderKeepsTerminal
<1>3. CASE Terminal!Down
    <2> DEFINE done == Terminal!Does([ui EXCEPT !.cursor = @ + 1], {})
    <2>1. DoneInv(done)
        BY MovedIs DEF Terminal!Does, DoneInv
    <2>2. /\ Terminal!Handle(done, calls) /\ acked' = {} /\ keys' = keys
          /\ UNCHANGED <<first, last, ours, stream, failures>>
        BY <1>3 DEF Terminal!Down, Terminal!daemonVars
    <2> HIDE DEF done
    <2> QED BY <2>1, <2>2, ReaderKeepsTerminal
<1> QED BY <1>1, <1>2, <1>3

LEMMA AskKeepsTerminal ==
    ASSUME TerminalInv,
           \/ Terminal!Refresh
           \/ \E m \in Terminal!Messages : Terminal!GoBackTo(m)
    PROVE  TerminalInv'
<1> UiInv(ui)
    BY DEF TerminalInv
<1>1. CASE Terminal!Refresh
    <2>1. DoneInv(Terminal!Does(ui, Terminal!RefreshOpen(ui)))
        BY RefreshesAre DEF Terminal!Does, DoneInv
    <2> QED BY <1>1, <2>1, ReaderKeepsTerminal DEF Terminal!Refresh, Terminal!daemonVars
<1>2. CASE \E m \in Terminal!Messages : Terminal!GoBackTo(m)
    <2>1. PICK m \in Terminal!Messages : Terminal!GoBackTo(m)
        BY <1>2
    <2>2. DoneInv(Terminal!Seek(ui, m))
        BY SeekIs
    <2> QED BY <2>1, <2>2, ReaderKeepsTerminal DEF Terminal!GoBackTo, Terminal!daemonVars
<1> QED BY <1>1, <1>2

LEMMA WriteKeepsTerminal ==
    ASSUME TerminalInv,
           Terminal!ReplyToSelected \/ Terminal!EditSelected \/ Terminal!Send
    PROVE  TerminalInv'
<1> UiInv(ui)
    BY DEF TerminalInv
<1> DEFINE m == Terminal!SelectedMessage(ui)
<1>1. CASE Terminal!ReplyToSelected
    <2> DEFINE done == Terminal!Does([ui EXCEPT !.replyTo = m, !.editing = None], {})
    <2>1. DoneInv(done)
        BY SelectedIs DEF Terminal!Does, DoneInv
    <2>2. /\ Terminal!Handle(done, calls) /\ acked' = {} /\ Terminal!Pressed
          /\ UNCHANGED <<first, last, ours, stream, failures>>
        BY <1>1 DEF Terminal!ReplyToSelected, Terminal!daemonVars
    <2> HIDE DEF done
    <2> QED BY <2>1, <2>2, ReaderKeepsTerminal
<1>2. CASE Terminal!EditSelected
    <2> DEFINE done == Terminal!Does([ui EXCEPT !.editing = m, !.replyTo = None], {})
    <2>1. DoneInv(done)
        BY SelectedIs DEF Terminal!Does, DoneInv
    <2>2. /\ Terminal!Handle(done, calls) /\ acked' = {} /\ Terminal!Pressed
          /\ UNCHANGED <<first, last, ours, stream, failures>>
        BY <1>2 DEF Terminal!EditSelected, Terminal!daemonVars
    <2> HIDE DEF done
    <2> QED BY <2>1, <2>2, ReaderKeepsTerminal
<1>3. CASE Terminal!Send
    <2> DEFINE about == IF ui.editing # None THEN ui.editing ELSE ui.replyTo
               mode  == IF ui.editing # None THEN "edit" ELSE "send"
               done  == Terminal!Does([ui EXCEPT !.editing = None, !.replyTo = None],
                                      {Terminal!Call(ui, mode, 0, 0, about)})
    <2>1. ui.open # None
        BY <1>3 DEF Terminal!Send
    <2>2. DoneInv(done)
        BY <2>1, SentIs DEF Terminal!Does, DoneInv
    <2>3. /\ Terminal!Handle(done, calls) /\ acked' = {} /\ Terminal!Pressed
          /\ UNCHANGED <<first, last, ours, stream, failures>>
        BY <1>3 DEF Terminal!Send, Terminal!daemonVars
    <2> HIDE DEF done
    <2> QED BY <2>2, <2>3, ReaderKeepsTerminal
<1> QED BY <1>1, <1>2, <1>3

(* What the invariant says of the screen.                                   *)
LEMMA ScreenIsRight ==
    ASSUME TerminalInv
    PROVE  /\ Terminal!TypeOK
           /\ Terminal!OnlyTheOpenChatIsShown
           /\ Terminal!NoneShownTwice
           /\ Terminal!AnswersStayInTheirChat
<1>1. UiInv(ui) /\ DOMAIN ui.shown = 1 .. Len(ui.shown)
    BY UiFields DEF TerminalInv
<1>2. Terminal!TypeOK
    BY DEF TerminalInv, UiInv, Terminal!TypeOK
<1>3. Terminal!OnlyTheOpenChatIsShown
    BY <1>1 DEF UiInv, Terminal!OnlyTheOpenChatIsShown
<1>4. Terminal!NoneShownTwice
    BY <1>1 DEF UiInv, OnceEach, Terminal!NoneShownTwice
<1>5. Terminal!AnswersStayInTheirChat
    BY <1>1 DEF UiInv, Terminal!AnswersStayInTheirChat
<1> QED BY <1>2, <1>3, <1>4, <1>5

LEMMA StepKeepsTerminal ==
    ASSUME TerminalInv, [Terminal!Next]_(Terminal!terminalVars) PROVE TerminalInv'
<1>1. CASE UNCHANGED Terminal!terminalVars
    BY <1>1 DEF TerminalInv, Terminal!terminalVars
<1>2. ASSUME NEW r \in Rooms, Terminal!Arrive(r) \/ Terminal!Open(r) PROVE TerminalInv'
    BY <1>2, ArriveKeepsTerminal, OpenKeepsTerminal
<1>3. ASSUME NEW c \in calls,
             \/ Terminal!Collect(c) \/ Terminal!GoUnanswered(c) \/ Terminal!Answer(c)
             \/ Terminal!Fail(c) \/ Terminal!Take(c)
      PROVE  TerminalInv'
    BY <1>3, CollectKeepsTerminal, CallEndsKeepsTerminal, AnswerKeepsTerminal, TakeKeepsTerminal
<1>4. CASE Terminal!NextEvent
    BY <1>4, NextEventKeepsTerminal
<1>5. CASE Terminal!CloseOpen \/ Terminal!Up \/ Terminal!Down
    BY <1>5, WalkKeepsTerminal
<1>6. CASE Terminal!Refresh \/ \E m \in Terminal!Messages : Terminal!GoBackTo(m)
    BY <1>6, AskKeepsTerminal
<1>7. CASE Terminal!ReplyToSelected \/ Terminal!EditSelected \/ Terminal!Send
    BY <1>7, WriteKeepsTerminal
<1> QED BY <1>1, <1>2, <1>3, <1>4, <1>5, <1>6, <1>7 DEF Terminal!Next

(* Who tells that a message was read, and which answer comes in above.      *)
LEMMA StepTellsTheScreen ==
    ASSUME TerminalInv, [Terminal!Next]_(Terminal!terminalVars)
    PROVE  [acked' \subseteq Terminal!ToSet(ui'.shown) \ ours]_(Terminal!terminalVars)
<1>1. ASSUME NEW c \in calls, Terminal!Take(c)
      PROVE  acked' \subseteq Terminal!ToSet(ui'.shown) \ ours
    BY <1>1, TakeKeepsTerminal
<1>2. CASE Terminal!NextEvent
    BY <1>2, NextEventKeepsTerminal
<1>3. ASSUME NEW r \in Rooms, Terminal!Arrive(r) \/ Terminal!Open(r) PROVE acked' = {}
    BY <1>3 DEF Terminal!Arrive, Terminal!Open
<1>4. ASSUME NEW c \in calls,
             \/ Terminal!Collect(c) \/ Terminal!GoUnanswered(c) \/ Terminal!Answer(c)
             \/ Terminal!Fail(c)
      PROVE  acked' = {}
    BY <1>4 DEF Terminal!Collect, Terminal!GoUnanswered, Terminal!Answer, Terminal!Fail
<1>5. CASE Terminal!CloseOpen \/ Terminal!Up \/ Terminal!Down \/ Terminal!Refresh
    BY <1>5 DEF Terminal!CloseOpen, Terminal!Up, Terminal!Down, Terminal!Refresh
<1>6. CASE \E m \in Terminal!Messages : Terminal!GoBackTo(m)
    BY <1>6 DEF Terminal!GoBackTo
<1>7. CASE Terminal!ReplyToSelected \/ Terminal!EditSelected \/ Terminal!Send
    BY <1>7 DEF Terminal!ReplyToSelected, Terminal!EditSelected, Terminal!Send
<1>8. CASE acked' = {}
    BY <1>8
<1> QED BY <1>1, <1>2, <1>3, <1>4, <1>5, <1>6, <1>7, <1>8 DEF Terminal!Next

LEMMA StepKeepsTheCursor ==
    ASSUME TerminalInv
    PROVE  \A c \in calls :
              (Terminal!Take(c) /\ c.mode = "older" /\ ui.shown # <<>> /\ ui.seeking = None)
                 => Terminal!SelectedMessage(ui') = Terminal!SelectedMessage(ui)
BY TakeKeepsTerminal

-----------------------------------------------------------------------------
(* The parts together. Each step is a step of one of them.                  *)

DaemonInv == SocketInv /\ ConnectionInv /\ TransferInv /\ ReleasesInv /\ TerminalInv

daemonMachineVars == <<looking, vars, connectionVars, accountVars, releaseVars, screenVars>>

LEMMA InitDaemonInv == DaemonInit => DaemonInv
BY DaemonsAssumption, InitSocket, InitConnection, InitTransfer, InitReleases, InitTerminal
DEF DaemonInit, DaemonInv

LEMMA EachStepIsOfAPart ==
    ASSUME [DaemonNext]_daemonMachineVars
    PROVE  /\ [Next]_vars
           /\ [Connection!Next]_(Connection!connVars)
           /\ Transfer!Next \/ UNCHANGED accountVars
           /\ Releases!Next \/ UNCHANGED releaseVars
           /\ [Terminal!Next]_(Terminal!terminalVars)
<1>1. UNCHANGED connectionVars => UNCHANGED Connection!connVars
    BY DEF connectionVars, Connection!connVars, Connection!client, Connection!server,
           Connection!pump
<1>2. UNCHANGED screenVars => UNCHANGED Terminal!terminalVars
    BY DEF screenVars, Terminal!terminalVars
<1> QED BY <1>1, <1>2 DEF DaemonNext, daemonMachineVars

LEMMA StepKeepsDaemonInv == ASSUME DaemonInv, [DaemonNext]_daemonMachineVars PROVE DaemonInv'
<1>1. SocketInv'
    BY EachStepIsOfAPart, DaemonsAssumption, StepKeepsSocket DEF DaemonInv
<1>2. ConnectionInv'
    BY EachStepIsOfAPart, StepKeepsConnection DEF DaemonInv
<1>3. TransferInv'
    BY EachStepIsOfAPart, StepKeepsTransfer DEF DaemonInv
<1>4. ReleasesInv'
    BY EachStepIsOfAPart, StepKeepsReleases DEF DaemonInv
<1>5. TerminalInv'
    BY EachStepIsOfAPart, StepKeepsTerminal DEF DaemonInv
<1> QED BY <1>1, <1>2, <1>3, <1>4, <1>5 DEF DaemonInv

(* The variables of the five parts keep their types: above all a slot is   *)
(* taken for no more than Slots requests, the queue of a subscriber never   *)
(* outgrows its buffer, and the interface never holds a cursor, a page or a *)
(* mark that is none (serveConn, Publish of broker.go, app of whatsapptui). *)
THEOREM DaemonTypes == DaemonSpec => []DaemonTypeOK
<1>1. DaemonInit => DaemonInv BY InitDaemonInv
<1>2. DaemonInv /\ [DaemonNext]_daemonMachineVars => DaemonInv' BY StepKeepsDaemonInv
<1>3. DaemonInv => DaemonTypeOK
    BY ConnectionIsTyped, TransferIsTyped, ScreenIsRight
    DEF DaemonInv, SocketInv, ReleasesInv, DaemonTypeOK
<1> QED BY <1>1, <1>2, <1>3, PTL DEF DaemonSpec, daemonMachineVars

(* However many daemons are started and however many calls find nobody: the *)
(* launcher of the bridge has one daemon, and removeStaleSocket does not    *)
(* take the path of a daemon that answers (transport_unix.go, daemon.go).   *)
THEOREM PathIsSpared == DaemonSpec => OneDaemonServes
<1>1. DaemonInit => DaemonInv BY InitDaemonInv
<1>2. DaemonInv /\ [DaemonNext]_daemonMachineVars => DaemonInv' BY StepKeepsDaemonInv
<1>3. DaemonInv => LauncherStartsOne
    <2> SUFFICES ASSUME SocketInv PROVE LauncherStartsOne BY DEF DaemonInv
    <2>1. launched \subseteq {own} BY DEF SocketInv, LaunchedInv
    <2>2. IsFiniteSet({own}) /\ Cardinality({own}) = 1 BY FS_Singleton
    <2>3. IsFiniteSet(launched) /\ Cardinality(launched) <= Cardinality({own})
        BY <2>1, <2>2, FS_Subset
    <2> QED BY <2>2, <2>3 DEF LauncherStartsOne
<1>4. DaemonInv /\ [DaemonNext]_daemonMachineVars =>
          [\A d \in Daemons \ refused :
             step[d] = "remove" /\ Reachable /\ step'[d] # "remove" /\ socket' = None
               => <<socket, d>> \notin before]_vars
    BY EachStepIsOfAPart, DaemonsAssumption, StepSparesTheLiving DEF DaemonInv
<1> QED
    BY <1>1, <1>2, <1>3, <1>4, PTL
    DEF DaemonSpec, daemonMachineVars, OneDaemonServes, StartersSpareTheLiving

(* Whatever calls are given up, writes break and events come between: until *)
(* the decoder of a client is spoiled, only the answer of the call that     *)
(* waits can reach it; and what the client heard, what is on its way and    *)
(* what was dropped are the events that were published, each once and in    *)
(* order (Call of client.go, serveConn, the pump, Publish of broker.go).    *)
THEOREM ConnectionKeepsOrder ==
    DaemonSpec => []Connection!AnswersAreOwn /\ []Connection!EventsAreAccounted
<1>1. DaemonInit => DaemonInv BY InitDaemonInv
<1>2. DaemonInv /\ [DaemonNext]_daemonMachineVars => DaemonInv' BY StepKeepsDaemonInv
<1>3. DaemonInv => Connection!AnswersAreOwn /\ Connection!EventsAreAccounted
    BY EventsAreInOrder DEF DaemonInv, ConnectionInv
<1> QED BY <1>1, <1>2, <1>3, PTL DEF DaemonSpec, daemonMachineVars

(* However often the account is exported, imported, stopped and failed on,  *)
(* on however many machines: it is somewhere, an archive has the history of *)
(* its identity, and a profile that no import left half has one too.        *)
THEOREM AccountIsSomewhere ==
    DaemonSpec =>
        /\ []Transfer!AccountIsNeverNowhere /\ []Transfer!ArchivedHistoryFollowsIdentity
        /\ []Transfer!NoIdentityWithoutHistory
<1>1. DaemonInit => DaemonInv BY InitDaemonInv
<1>2. DaemonInv /\ [DaemonNext]_daemonMachineVars => DaemonInv' BY StepKeepsDaemonInv
<1>3. DaemonInv => /\ Transfer!AccountIsNeverNowhere /\ Transfer!ArchivedHistoryFollowsIdentity
                   /\ Transfer!NoIdentityWithoutHistory
    BY TransferIsTyped DEF DaemonInv, TransferInv, FollowInv
<1> QED BY <1>1, <1>2, <1>3, PTL DEF DaemonSpec, daemonMachineVars

(* The file on offer is that of the release on offer, whatever releases     *)
(* come out while it is fetched and whoever looks meanwhile                 *)
(* (checkForUpdate, startUpdateDownload).                                   *)
THEOREM OfferHasItsFile == DaemonSpec => []Releases!OfferedFileIsTheLatest
<1>1. DaemonInit => DaemonInv BY InitDaemonInv
<1>2. DaemonInv /\ [DaemonNext]_daemonMachineVars => DaemonInv' BY StepKeepsDaemonInv
<1>3. DaemonInv => Releases!OfferedFileIsTheLatest BY DEF DaemonInv, ReleasesInv
<1> QED BY <1>1, <1>2, <1>3, PTL DEF DaemonSpec, daemonMachineVars

(* Whatever answers and announcements come in whatever order while the      *)
(* reader scrolls, searches, writes and moves on: the screen shows the open *)
(* conversation and each message once, and the box answers a message of it; *)
(* an older page leaves the cursor on its message; and only what is on      *)
(* screen, and not our own, is told to be read (app.page, prepend,          *)
(* openChat, acknowledgeOpen and acknowledgeIncoming of whatsapptui).       *)
THEOREM ScreenIsTheReaders ==
    DaemonSpec =>
        /\ []Terminal!OnlyTheOpenChatIsShown /\ []Terminal!NoneShownTwice
        /\ []Terminal!AnswersStayInTheirChat
        /\ Terminal!CursorStaysOnItsMessage /\ Terminal!ReceiptsFollowTheScreen
<1>1. DaemonInit => DaemonInv BY InitDaemonInv
<1>2. DaemonInv /\ [DaemonNext]_daemonMachineVars => DaemonInv' BY StepKeepsDaemonInv
<1>3. DaemonInv => /\ Terminal!OnlyTheOpenChatIsShown /\ Terminal!NoneShownTwice
                   /\ Terminal!AnswersStayInTheirChat
    BY ScreenIsRight DEF DaemonInv
<1>4. DaemonInv /\ [DaemonNext]_daemonMachineVars =>
          [\A c \in calls :
             (Terminal!Take(c) /\ c.mode = "older" /\ ui.shown # <<>> /\ ui.seeking = None)
                => Terminal!SelectedMessage(ui') = Terminal!SelectedMessage(ui)
          ]_(Terminal!terminalVars)
    BY StepKeepsTheCursor DEF DaemonInv
<1>5. DaemonInv /\ [DaemonNext]_daemonMachineVars =>
          [acked' \subseteq Terminal!ToSet(ui'.shown) \ ours]_(Terminal!terminalVars)
    BY EachStepIsOfAPart, StepTellsTheScreen DEF DaemonInv
<1> QED
    BY <1>1, <1>2, <1>3, <1>4, <1>5, PTL
    DEF DaemonSpec, daemonMachineVars, Terminal!CursorStaysOnItsMessage,
        Terminal!ReceiptsFollowTheScreen

=============================================================================
