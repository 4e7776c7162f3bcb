-------------------------- MODULE ProfileTransfer ---------------------------
(* Moving an account to another machine (internal/profile/transfer.go): the *)
(* export from a daemon that goes on receiving, the archive, the copy that  *)
(* is retired, the daemon that refuses it (refuseRetired of                 *)
(* cmd/whatsappd/main.go), and the import (cmd/whatsappmcp/importer.go).    *)
(*                                                                          *)
(* An identity holds a ratchet, the number of messages it has passed, which *)
(* no other copy steps for it. A daemon that starts in the middle of an     *)
(* import is not modelled.                                                  *)
EXTENDS Naturals, FiniteSets

CONSTANTS
    Machines,
    Home,          \* where the account was linked
    None,
    MaxMessages,   \* bound: messages sent to the account
    MaxTroubles    \* bound: crashes and failures

TransferAssumption ==
    /\ Home \in Machines /\ {MaxMessages, MaxTroubles} \subseteq Nat
    /\ None \notin Machines /\ None \notin Nat
    /\ \A messages \in SUBSET (1 .. MaxMessages) : messages # None

VARIABLES
    identity,   \* device.db of each machine: its ratchet, or None
    history,    \* messages.db: the messages it holds, or None
    retired,    \* machines whose copy has retired.json
    serving,    \* machines whose daemon runs
    leaving,    \* machines whose daemon answered an export that moves
    inHand,     \* the message each daemon has decrypted and not stored, or 0
    taken,      \* messages the account has received
    export,     \* the export under way: its step, machine and snapshots
    archive,    \* the file: its contents so far
    import,     \* the import under way
    half,       \* history: machines whose last import did not end
    lost,       \* history: messages in a daemon's hand at a crash, or at the
                \* export of a copy that was imported, or whose import broke
    troubles

transferVars ==
    <<identity, history, retired, serving, leaving, inHand, taken, export, archive, import, half,
      lost, troubles>>

Messages == 1 .. MaxMessages
Empty    == [device |-> None, messages |-> None, held |-> 0]
NoExport == [step |-> "none", at |-> None, move |-> FALSE, copy |-> Empty]
NoImport == [step |-> "none", at |-> None]
NoFile   == [there |-> FALSE, copy |-> Empty]

Trouble == troubles < MaxTroubles /\ troubles' = troubles + 1
Whole(copy) == copy.device # None /\ copy.messages # None

Init ==
    /\ identity = [m \in Machines |-> IF m = Home THEN 0 ELSE None]
    /\ history  = [m \in Machines |-> IF m = Home THEN {} ELSE None]
    /\ retired = {} /\ serving = {} /\ leaving = {} /\ half = {} /\ lost = {}
    /\ inHand = [m \in Machines |-> 0] /\ taken = 0
    /\ export = NoExport /\ archive = NoFile /\ import = NoImport /\ troubles = 0

-----------------------------------------------------------------------------
(* A daemon and its messages.                                               *)

(* A retired copy is refused. A history that is missing is created empty.   *)
Start(m) ==
    /\ m \notin serving /\ identity[m] # None /\ import.at # m
    /\ m \notin retired
    /\ serving' = serving \cup {m}
    /\ history' = [history EXCEPT ![m] = IF @ = None THEN {} ELSE @]
    /\ UNCHANGED <<identity, retired, leaving, inHand, taken, export, archive, import, half, lost, troubles>>

(* A message comes to one connected copy. One whose ratchet is elsewhere    *)
(* cannot read it, and it is not sent again.                                *)
Decrypt(m) ==
    /\ m \in serving /\ inHand[m] = 0 /\ taken < MaxMessages
    /\ taken' = taken + 1
    /\ IF identity[m] = taken
       THEN /\ identity' = [identity EXCEPT ![m] = taken + 1]
            /\ inHand' = [inHand EXCEPT ![m] = taken + 1]
       ELSE UNCHANGED <<identity, inHand>>
    /\ UNCHANGED <<history, retired, serving, leaving, export, archive, import, half, lost, troubles>>

Store(m) ==
    /\ inHand[m] # 0
    /\ history' = [history EXCEPT ![m] = @ \cup {inHand[m]}]
    /\ inHand' = [inHand EXCEPT ![m] = 0]
    /\ UNCHANGED <<identity, retired, serving, leaving, taken, export, archive, import, half, lost, troubles>>

Stopped(m) ==
    /\ serving' = serving \ {m} /\ leaving' = leaving \ {m}
    /\ inHand' = [inHand EXCEPT ![m] = 0]
    /\ export' = IF export.at = m THEN NoExport ELSE export

Stop(m) ==
    /\ m \in serving /\ inHand[m] = 0 /\ export.at # m
    /\ Stopped(m)
    /\ UNCHANGED <<identity, history, retired, taken, archive, import, half, lost, troubles>>

(* An archive the daemon was writing stays as it is.                        *)
Crash(m) ==
    /\ m \in serving /\ Trouble
    /\ Stopped(m)
    /\ lost' = lost \cup ({inHand[m]} \ {0})
    /\ UNCHANGED <<identity, history, retired, taken, archive, import, half>>

(* Mutant: an export that moves does not stop the daemon.                   *)
StayAfterMove(m) ==
    /\ m \in leaving
    /\ leaving' = leaving \ {m}
    /\ UNCHANGED <<identity, history, retired, serving, inHand, taken, export, archive, import, half,
                   lost, troubles>>

(* A second after an export that moves was answered, the daemon stops.      *)
Shutdown(m) ==
    /\ m \in leaving /\ inHand[m] = 0
    /\ Stopped(m)
    /\ UNCHANGED <<identity, history, retired, taken, archive, import, half, lost, troubles>>

-----------------------------------------------------------------------------
(* Export: the snapshots, one after the other, then the archive, then the   *)
(* retirement.                                                              *)

ExportStep(step) == export' = [export EXCEPT !.step = step]

Export(m, move) ==
    /\ m \in serving /\ export = NoExport /\ ~archive.there
    /\ export' = [step |-> "device", at |-> m, move |-> move, copy |-> Empty]
    /\ UNCHANGED <<identity, history, retired, serving, leaving, inHand, taken, archive, import, half,
                   lost, troubles>>

(* Mutant: the history is copied before the identity.                       *)
SnapshotMessagesFirst ==
    /\ \/ /\ export.step = "device"
          /\ export' = [export EXCEPT !.step = "messages",
                                      !.copy.messages = history[export.at]]
       \/ /\ export.step = "messages"
          /\ export' = [export EXCEPT !.step = "create", !.copy.device = identity[export.at],
                                      !.copy.held = inHand[export.at]]
    /\ UNCHANGED <<identity, history, retired, serving, leaving, inHand, taken, archive, import, half,
                   lost, troubles>>

snapshot ==
    /\ \/ /\ export.step = "device"
          /\ export' = [export EXCEPT !.step = "messages", !.copy.device = identity[export.at],
                                      !.copy.held = inHand[export.at]]
       \/ /\ export.step = "messages"
          /\ export' = [export EXCEPT !.step = "create",
                                      !.copy.messages = history[export.at]]
    /\ UNCHANGED <<identity, history, retired, serving, leaving, inHand, taken, archive, import, half,
                   lost, troubles>>

createArchive ==
    /\ export.step = "create" /\ ~archive.there
    /\ archive' = [there |-> TRUE, copy |-> Empty]
    /\ ExportStep("write")
    /\ UNCHANGED <<identity, history, retired, serving, leaving, inHand, taken, import, half, lost, troubles>>

(* The manifest promises both files; they are appended one by one.          *)
writeArchive ==
    /\ export.step = "write"
    /\ \/ /\ archive.copy.device = None
          /\ archive' = [archive EXCEPT !.copy.device = export.copy.device,
                                        !.copy.held = export.copy.held]
          /\ UNCHANGED export
       \/ /\ archive.copy.device # None
          /\ archive' = [archive EXCEPT !.copy.messages = export.copy.messages]
          /\ IF export.move THEN ExportStep("retire") ELSE export' = NoExport
    /\ UNCHANGED <<identity, history, retired, serving, leaving, inHand, taken, import, half, lost, troubles>>

(* Mutant: the copy is retired before its archive is created.               *)
RetireFirst ==
    /\ export.step \in {"create", "retire"} /\ export.move
    /\ retired' = retired \cup {export.at}
    /\ IF export.step = "retire"
       THEN leaving' = leaving \cup {export.at} /\ export' = NoExport
       ELSE UNCHANGED <<leaving, export>>
    /\ UNCHANGED <<identity, history, serving, inHand, taken, archive, import, half, lost, troubles>>

Retire ==
    /\ export.step = "retire"
    /\ retired' = retired \cup {export.at} /\ leaving' = leaving \cup {export.at}
    /\ export' = NoExport
    /\ UNCHANGED <<identity, history, serving, inHand, taken, archive, import, half, lost, troubles>>

(* A failure removes what was written of the archive.                       *)
ExportFails ==
    /\ export # NoExport /\ Trouble
    /\ export' = NoExport
    /\ archive' = IF export.step = "write" THEN NoFile ELSE archive
    /\ UNCHANGED <<identity, history, retired, serving, leaving, inHand, taken, import, half, lost>>

(* The archive is thrown away by hand: one that broke, or one that is of no *)
(* more use.                                                                *)
Discard ==
    /\ archive.there /\ export = NoExport /\ import = NoImport
    /\ ~Whole(archive.copy) \/ \E m \in Machines \ (retired \cup half) : identity[m] # None
    /\ archive' = NoFile
    /\ UNCHANGED <<identity, history, retired, serving, leaving, inHand, taken, export, import, half,
                   lost, troubles>>

-----------------------------------------------------------------------------
(* Import, on a machine where no daemon serves the profile.                 *)

(* Mutant: an archive without a file its manifest promises is accepted.     *)
AcceptPartial(copy) == copy.device # None

(* Every file the manifest promises has to be there.                        *)
unpack(copy) == Whole(copy)

(* A profile with something in it is only replaced by force.                *)
Import(m) ==
    /\ m \notin serving /\ import = NoImport
    /\ archive.there /\ unpack(archive.copy)
    /\ import' = [step |-> "device", at |-> m]
    /\ UNCHANGED <<identity, history, retired, serving, leaving, inHand, taken, export, archive, half,
                   lost, troubles>>

(* The files are put in place one by one, and the copy is live again.       *)
Replace ==
    /\ \/ /\ import.step = "device"
          /\ identity' = [identity EXCEPT ![import.at] = archive.copy.device]
          /\ import' = [import EXCEPT !.step = "messages"]
          /\ lost' = lost \cup ({archive.copy.held} \ {0})
          /\ UNCHANGED <<history, retired, half>>
       \/ /\ import.step = "messages"
          /\ history' = [history EXCEPT ![import.at] = archive.copy.messages]
          /\ import' = [import EXCEPT !.step = "revive"]
          /\ UNCHANGED <<identity, retired, half, lost>>
       \/ /\ import.step = "revive"
          /\ retired' = retired \ {import.at} /\ half' = half \ {import.at}
          /\ import' = NoImport
          /\ UNCHANGED <<identity, history, lost>>
    /\ UNCHANGED <<serving, leaving, inHand, taken, export, archive, troubles>>

(* A failure or a crash between two files leaves them as they are.          *)
ImportFails ==
    /\ import # NoImport /\ Trouble
    /\ half' = IF import.step = "device" THEN half ELSE half \cup {import.at}
    /\ lost' = IF import.step = "messages" THEN lost \cup 1 .. archive.copy.device ELSE lost
    /\ import' = NoImport
    /\ UNCHANGED <<identity, history, retired, serving, leaving, inHand, taken, export, archive>>

-----------------------------------------------------------------------------
Next ==
    \/ \E m \in Machines :
          \/ Start(m) \/ Decrypt(m) \/ Store(m) \/ Stop(m) \/ Crash(m) \/ Shutdown(m) \/ Import(m)
          \/ \E move \in BOOLEAN : Export(m, move)
    \/ snapshot \/ createArchive \/ writeArchive \/ Retire \/ ExportFails \/ Discard
    \/ Replace \/ ImportFails

(* A daemon that runs stores what it decrypted, and the second passes.      *)
Fairness == \A m \in Machines : WF_transferVars(Store(m)) /\ WF_transferVars(Shutdown(m))

Spec == Init /\ [][Next]_transferVars /\ Fairness

-----------------------------------------------------------------------------
Copy == [device : 0 .. MaxMessages \cup {None}, messages : (SUBSET Messages) \cup {None},
         held : 0 .. MaxMessages]

TypeOK ==
    /\ identity \in [Machines -> 0 .. MaxMessages \cup {None}]
    /\ history \in [Machines -> (SUBSET Messages) \cup {None}]
    /\ retired \cup serving \cup half \subseteq Machines /\ leaving \subseteq serving
    /\ lost \subseteq Messages
    /\ inHand \in [Machines -> 0 .. MaxMessages] /\ taken \in 0 .. MaxMessages
    /\ export.step \in {"none", "device", "messages", "create", "write", "retire"}
    /\ export.at \in Machines \cup {None} /\ export.move \in BOOLEAN /\ export.copy \in Copy
    /\ archive.there \in BOOLEAN /\ archive.copy \in Copy
    /\ import.step \in {"none", "device", "messages", "revive"}
    /\ import.at \in Machines \cup {None} /\ troubles \in 0 .. MaxTroubles

(* "There is never a moment where the account is neither exported nor       *)
(* usable" (Retire): crashes and failures or not, some machine holds a copy *)
(* that is not retired, or the archive is whole.                            *)
AccountIsNeverNowhere ==
    Whole(archive.copy) \/ \E m \in Machines \ retired : identity[m] # None

(* The history of an archive holds every message its identity has passed,   *)
(* though the two were copied while messages came: but for the one the      *)
(* daemon had in hand, and those a crash took from its hand.                *)
ArchivedHistoryFollowsIdentity ==
    Whole(archive.copy) =>
        1 .. archive.copy.device \ ({archive.copy.held} \cup lost) \subseteq archive.copy.messages

(* No profile holds an identity without its history, unless its import did  *)
(* not end: an archive that is cut short installs nothing.                  *)
NoIdentityWithoutHistory ==
    \A m \in Machines \ half :
        identity[m] # None /\ import.at # m => history[m] # None

(* The daemon of a copy that was retired stops, messages or not.            *)
MovedCopyStops == \A m \in Machines : m \in leaving ~> m \notin serving

(* An account moves as a whole: it is always somewhere, its history goes    *)
(* with its identity, and the copy it left stops.                           *)
AccountMovesWhole ==
    /\ []AccountIsNeverNowhere /\ []ArchivedHistoryFollowsIdentity /\ []NoIdentityWithoutHistory
    /\ MovedCopyStops

=============================================================================
