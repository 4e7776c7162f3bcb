---------------------------- MODULE DaemonSocket ----------------------------
(* The daemons of one profile and the path of its socket: how a daemon      *)
(* takes it and notices that it lost it (internal/rpc/transport_unix.go),   *)
(* how it stops (Serve and Close of internal/rpc/server.go), and how the    *)
(* MCP bridge reaches one or starts one (cmd/whatsappmcp/daemon.go).        *)
(*                                                                          *)
(* Closing a Go listener unlinks its path, whatever the path names by then. *)
EXTENDS Naturals, FiniteSets

CONSTANTS
    Daemons,      \* processes of whatsappd, each started at most once
    Calls,        \* calls of the MCP bridge, which share one launcher
    None,
    Dead,         \* in the place of a daemon: a process killed before all this
    MaxTroubles   \* bound: crashes, and probes that fail under load

SocketAssumption ==
    None \notin Daemons /\ Dead \notin Daemons /\ Dead # None /\ MaxTroubles \in Nat

VARIABLES
    socket,    \* the process whose socket the path names, or None
    step,      \* the step of each daemon
    open,      \* the daemons whose listener is open
    bound,     \* the socket each daemon's watcher compares with
    told,      \* the daemons that were told to stop and serve on
    call,      \* the step of each call of the bridge
    line,      \* the connection of each call: its daemon, and how far it is
    own,       \* the daemon the launcher started last
    misfires,  \* crashes and failed probes so far
    launched,  \* history: the daemons the launcher started that still run
    before,    \* history: who listened when a daemon that goes on probed the path
    refused,   \* history: the daemons whose probe failed under load
    late       \* history: the calls registered after their daemon hung up

daemons == <<step, open, bound, told, before, refused>>
bridge  == <<call, own, launched>>
vars    == <<socket, daemons, bridge, line, misfires, late>>

Starting == {"look", "dial", "remove", "bind", "chmod", "watch"}
Closing  == {"close", "hang up", "wait", "unlink"}
Steps    == {"off", "serve", "gone"} \cup Starting \cup Closing

NoLine == [daemon |-> None, stage |-> "none"]
Line   == [daemon : Daemons, stage : {"queued", "accepted", "served", "ending"}]

Init ==
    /\ socket \in {None, Dead}
    /\ step = [d \in Daemons |-> "off"]
    /\ open = {} /\ told = {} /\ refused = {} /\ launched = {} /\ late = {}
    /\ bound = [d \in Daemons |-> None] /\ before = {}
    /\ call = [c \in Calls |-> "out"] /\ line = [c \in Calls |-> NoLine]
    /\ own = None /\ misfires = 0

Reachable == socket \in open

Go(d, to) == step' = [step EXCEPT ![d] = to]

(* The lines of one daemon at some stages go on to another stage, or end.   *)
Lines(d, stages) == {c \in Calls : line[c].daemon = d /\ line[c].stage \in stages}
End(cs) ==
    /\ line' = [c \in Calls |-> IF c \in cs THEN NoLine ELSE line[c]]
    /\ late' = late \ cs
    /\ call' = [c \in Calls |-> IF c \in cs /\ call[c] = "in" THEN "out" ELSE call[c]]

(* The process is gone, and with it its listener and its connections.       *)
Exit(d) ==
    /\ Go(d, "gone")
    /\ open' = open \ {d} /\ told' = told \ {d}
    /\ launched' = launched \ {d} /\ refused' = refused \ {d}
    /\ bound' = [bound EXCEPT ![d] = None] /\ before' = {p \in before : p[2] # d}
    /\ End(Lines(d, {"queued", "accepted", "served", "ending"}))
    /\ UNCHANGED own

-----------------------------------------------------------------------------
(* Taking the path.                                                         *)

(* The desktop client or a shell starts a daemon.                           *)
Start(d) ==
    /\ step[d] = "off"
    /\ Go(d, "look")
    /\ UNCHANGED <<socket, open, bound, told, before, refused, bridge, line, misfires, late>>

(* Nobody answered: the path is removed next.                               *)
GoOnToRemove(d) ==
    /\ Go(d, "remove")
    /\ before' = before \cup (open \X {d})

(* Mutant: the path is cleared without asking who answers on it.            *)
LookWithoutProbe(d) ==
    /\ step[d] = "look"
    /\ \/ socket = None /\ Go(d, "bind") /\ UNCHANGED before
       \/ socket # None /\ GoOnToRemove(d)
    /\ UNCHANGED <<socket, open, bound, told, refused, bridge, line, misfires, late>>

(* What is at the path, if anything.                                        *)
Look(d) ==
    /\ step[d] = "look"
    /\ Go(d, IF socket = None THEN "bind" ELSE "dial")
    /\ UNCHANGED <<socket, open, bound, told, before, refused, bridge, line, misfires, late>>

(* Somebody answers, and this daemon exits; or nobody does; or the one that *)
(* listens is too busy to.                                                  *)
ProbeAnswered(d) ==
    /\ step[d] = "dial" /\ Reachable
    /\ Exit(d)
    /\ UNCHANGED <<socket, misfires>>

ProbeRefused(d) ==
    /\ step[d] = "dial" /\ ~Reachable
    /\ GoOnToRemove(d)
    /\ UNCHANGED <<socket, open, bound, told, refused, bridge, line, misfires, late>>

ProbeTimesOut(d) ==
    /\ step[d] = "dial" /\ Reachable /\ misfires < MaxTroubles
    /\ misfires' = misfires + 1
    /\ refused' = refused \cup {d}
    /\ GoOnToRemove(d)
    /\ UNCHANGED <<socket, open, bound, told, bridge, line, late>>

(* Whatever the path names by now is removed: another may have bound it     *)
(* since the probe. Removing a path that is not there is an error.          *)
Remove(d) ==
    /\ step[d] = "remove"
    /\ socket' = None /\ UNCHANGED misfires
    /\ \/ /\ socket # None
          /\ Go(d, "bind")
          /\ before' = {p \in before : p[2] # d} /\ refused' = refused \ {d}
          /\ UNCHANGED <<open, bound, told, bridge, line, late>>
       \/ /\ socket = None
          /\ Exit(d)

Bind(d) ==
    /\ step[d] = "bind" /\ UNCHANGED misfires
    /\ \/ /\ socket = None
          /\ socket' = d /\ open' = open \cup {d}
          /\ Go(d, "chmod")
          /\ UNCHANGED <<bound, told, before, refused, bridge, line, late>>
       \/ /\ socket # None
          /\ Exit(d) /\ UNCHANGED socket

(* The mode is set by path: of whichever socket is there, or of none, and   *)
(* then the listener is closed again.                                       *)
Chmod(d) ==
    /\ step[d] = "chmod" /\ UNCHANGED <<socket, misfires>>
    /\ \/ /\ socket # None
          /\ Go(d, "watch")
          /\ UNCHANGED <<open, bound, told, before, refused, bridge, line, late>>
       \/ /\ socket = None
          /\ Exit(d)

-----------------------------------------------------------------------------
(* Serving and stopping.                                                    *)

(* The watcher takes what the path names now for the daemon's own socket.   *)
watchListener(d) ==
    /\ step[d] = "watch"
    /\ bound' = [bound EXCEPT ![d] = socket]
    /\ Go(d, IF socket = None THEN "close" ELSE "serve")
    /\ UNCHANGED <<socket, open, told, before, refused, bridge, line, misfires, late>>

(* A signal, the account's hand-over, or a parent that is gone.             *)
Tell(d) ==
    /\ step[d] \in Starting \cup {"serve"} /\ d \notin told
    /\ told' = told \cup {d}
    /\ UNCHANGED <<socket, step, open, bound, before, refused, bridge, line, misfires, late>>

(* The context and the watcher are done with.                               *)
GoOnToClose(d) ==
    /\ Go(d, "close")
    /\ told' = told \ {d} /\ bound' = [bound EXCEPT ![d] = None]

(* Mutant: the watcher only looks whether there is a socket at all.         *)
StopWhenMissing(d) ==
    /\ step[d] = "serve" /\ (d \in told \/ socket = None)
    /\ GoOnToClose(d)
    /\ UNCHANGED <<socket, open, before, refused, bridge, line, misfires, late>>

(* The context is done, or the watcher finds the path missing or replaced.  *)
Stop(d) ==
    /\ step[d] = "serve" /\ (d \in told \/ socket # bound[d])
    /\ GoOnToClose(d)
    /\ UNCHANGED <<socket, open, before, refused, bridge, line, misfires, late>>

(* Closing the listener unlinks the path; who waits to be accepted is cut.  *)
CloseListener(d) ==
    /\ step[d] = "close"
    /\ socket' = None /\ open' = open \ {d}
    /\ Go(d, "hang up")
    /\ End(Lines(d, {"queued"}))
    /\ UNCHANGED <<bound, told, before, refused, own, launched, misfires>>

(* Mutant: Close waits for the clients to leave by themselves.              *)
WaitForClients(d) ==
    /\ step[d] = "hang up"
    /\ Go(d, "wait")
    /\ UNCHANGED <<socket, open, bound, told, before, refused, bridge, line, misfires, late>>

(* The registered connections are closed; each ends with its last request.  *)
HangUp(d) ==
    /\ step[d] = "hang up"
    /\ Go(d, "wait")
    /\ LET cut == Lines(d, {"served"})
       IN  /\ line' = [c \in Calls |-> IF c \in cut THEN [line[c] EXCEPT !.stage = "ending"]
                                       ELSE line[c]]
           /\ call' = [c \in Calls |-> IF c \in cut THEN "out" ELSE call[c]]
    /\ UNCHANGED <<socket, open, bound, told, before, refused, own, launched, misfires, late>>

Wait(d) ==
    /\ step[d] = "wait" /\ Lines(d, {"served", "ending"}) = {}
    /\ Go(d, "unlink")
    /\ UNCHANGED <<socket, open, bound, told, before, refused, bridge, line, misfires, late>>

(* Close removes the path a second time, and the process ends.              *)
Unlink(d) ==
    /\ step[d] = "unlink"
    /\ socket' = None
    /\ Exit(d)
    /\ UNCHANGED misfires

(* A process that is killed leaves its path behind.                         *)
Crash(d) ==
    /\ step[d] \notin {"off", "gone"} /\ misfires < MaxTroubles
    /\ misfires' = misfires + 1
    /\ Exit(d)
    /\ UNCHANGED socket

-----------------------------------------------------------------------------
(* The accept loop: one connection at a time, counted only once registered. *)

Accept(c) ==
    /\ line[c].stage = "queued"
    /\ step[line[c].daemon] \in {"serve", "close"}
    /\ Lines(line[c].daemon, {"accepted"}) = {}
    /\ line' = [line EXCEPT ![c].stage = "accepted"]
    /\ UNCHANGED <<socket, daemons, bridge, misfires, late>>

Register(c) ==
    /\ line[c].stage = "accepted"
    /\ line' = [line EXCEPT ![c].stage = "served"]
    /\ late' = IF step[line[c].daemon] \in {"wait", "unlink"} THEN late \cup {c} ELSE late
    /\ UNCHANGED <<socket, daemons, bridge, misfires>>

(* The requests under way on a closed connection come to their end.         *)
RequestsEnd(c) ==
    /\ line[c].stage = "ending"
    /\ End({c})
    /\ UNCHANGED <<socket, daemons, own, launched, misfires>>

-----------------------------------------------------------------------------
(* The launcher of the bridge.                                              *)

Free(c) == call[c] = "out" /\ line[c] = NoLine

Reach(c) ==
    /\ Reachable
    /\ line' = [line EXCEPT ![c] = [daemon |-> socket, stage |-> "queued"]]
    /\ call' = [call EXCEPT ![c] = "in"]
    /\ UNCHANGED <<socket, daemons, own, launched, misfires, late>>

connect(c) ==
    /\ Free(c)
    /\ \/ Reach(c)
       \/ /\ ~Reachable
          /\ call' = [call EXCEPT ![c] = "lock"]
          /\ UNCHANGED <<socket, daemons, own, launched, line, misfires, late>>

(* The second dial, under the lock.                                         *)
DialAgain(c) ==
    /\ call[c] = "lock" /\ \A b \in Calls : call[b] \notin {"start", "wait"}
    /\ \/ Reach(c)
       \/ /\ ~Reachable
          /\ call' = [call EXCEPT ![c] = "start"]
          /\ UNCHANGED <<socket, daemons, own, launched, line, misfires, late>>

(* Mutant: a daemon is started whether or not the last one still runs.      *)
startAnother(c) ==
    /\ call[c] = "start"
    /\ call' = [call EXCEPT ![c] = "wait"]
    /\ \E d \in Daemons :
          /\ step[d] = "off" /\ Go(d, "look")
          /\ own' = d /\ launched' = launched \cup {d}
    /\ UNCHANGED <<socket, open, bound, told, before, refused, line, misfires, late>>

(* A daemon is started unless the one started before has not exited.        *)
start(c) ==
    /\ call[c] = "start"
    /\ call' = [call EXCEPT ![c] = "wait"]
    /\ IF own # None /\ step[own] # "gone"
       THEN UNCHANGED <<step, own, launched>>
       ELSE \E d \in Daemons :
              /\ step[d] = "off" /\ Go(d, "look")
              /\ own' = d /\ launched' = launched \cup {d}
    /\ UNCHANGED <<socket, open, bound, told, before, refused, line, misfires, late>>

(* It answers; it has exited; or the time it is given is over.              *)
waitForSocket(c) ==
    /\ call[c] = "wait"
    /\ \/ Reach(c)
       \/ /\ ~Reachable
          /\ call' = [call EXCEPT ![c] = "out"]
          /\ UNCHANGED <<socket, daemons, own, launched, line, misfires, late>>

(* A client goes, or its call is over.                                      *)
Leave(c) ==
    /\ line[c].stage = "served" /\ call[c] = "in"
    /\ line' = [line EXCEPT ![c].stage = "ending"]
    /\ call' = [call EXCEPT ![c] = "out"]
    /\ late' = late \ {c}
    /\ UNCHANGED <<socket, daemons, own, launched, misfires>>

-----------------------------------------------------------------------------
DaemonStep(d) ==
    \/ Look(d) \/ ProbeAnswered(d) \/ ProbeRefused(d) \/ Remove(d) \/ Bind(d) \/ Chmod(d)
    \/ watchListener(d) \/ Stop(d) \/ CloseListener(d) \/ HangUp(d) \/ Wait(d) \/ Unlink(d)

ServeStep(c) == Accept(c) \/ Register(c) \/ RequestsEnd(c)

Next ==
    \/ \E d \in Daemons :
          Start(d) \/ DaemonStep(d) \/ ProbeTimesOut(d) \/ Tell(d) \/ Crash(d)
    \/ \E c \in Calls :
          \/ ServeStep(c) \/ connect(c) \/ DialAgain(c) \/ start(c) \/ waitForSocket(c)
          \/ Leave(c)

(* A process that runs goes on: its watcher ticks, its requests end. Nobody *)
(* has to start a daemon, tell one to stop, call or leave.                  *)
Fairness ==
    /\ \A d \in Daemons : WF_vars(DaemonStep(d))
    /\ \A c \in Calls : WF_vars(ServeStep(c))

Spec == Init /\ [][Next]_vars /\ Fairness

-----------------------------------------------------------------------------
TypeOK ==
    /\ socket \in Daemons \cup {None, Dead} /\ own \in Daemons \cup {None}
    /\ step \in [Daemons -> Steps]
    /\ open \subseteq Daemons /\ told \subseteq Daemons
    /\ refused \subseteq Daemons /\ launched \subseteq Daemons
    /\ bound \in [Daemons -> Daemons \cup {None, Dead}] /\ before \subseteq (Daemons \X Daemons)
    /\ call \in [Calls -> {"out", "lock", "start", "wait", "in"}]
    /\ line \in [Calls -> Line \cup {NoLine}]
    /\ late \subseteq Calls /\ misfires \in 0 .. MaxTroubles

(* A starting daemon takes the path of one that listens only if its probe   *)
(* failed because that one was too busy to answer, or came before that one  *)
(* had bound the path: one that listened at the probe and is not busy keeps *)
(* its path. Two daemons that both find a path dead are the second case:    *)
(* the later one removes the path the earlier one has bound since, which    *)
(* nothing prevents.                                                        *)
StartersSpareTheLiving ==
    [][\A d \in Daemons \ refused :
         step[d] = "remove" /\ Reachable /\ step'[d] # "remove" /\ socket' = None
           => <<socket, d>> \notin before]_vars

(* However many calls find nobody listening, and however long the last one  *)
(* took to come up, the launcher has one daemon at a time.                  *)
LauncherStartsOne == Cardinality(launched) <= 1

(* A connection that was accepted before the listener closed and registered *)
(* after Close went through the connections: nobody closes it.              *)
Held(d) == \E c \in late : line[c].daemon = d

(* One daemon serves a profile, as far as the code goes: many calls at once *)
(* start one between them, and who starts after another has come up leaves  *)
(* that one its path. Starts that overlap are told apart only by their      *)
(* watchers, and a daemon that closes unlinks whoever has the path by then. *)
OneDaemonServes == []LauncherStartsOne /\ StartersSpareTheLiving

(* A daemon whose watcher finds the socket it watches unlinked or replaced  *)
(* stops, requests under way or not, and so does one that was told to stop, *)
(* at whatever step of its start; unless such a connection holds it. The    *)
(* socket it watches is the one the path named when the watcher first       *)
(* looked: a daemon that lost the path between its bind and that look       *)
(* watches the socket of the one that took it, and stays, unreachable,      *)
(* until that one goes.                                                     *)
DaemonsLeave ==
    \A d \in Daemons :
        d \in told \/ (step[d] = "serve" /\ socket # bound[d]) ~> step[d] = "gone" \/ Held(d)

=============================================================================
