------------------------------- MODULE Updates ------------------------------
(* Looking for a newer release and downloading it: the checks of the daemon *)
(* and of the reader (internal/service/updates.go, internal/updates/        *)
(* updates.go), and the transfer of an artifact (internal/updates/          *)
(* download.go). The artifacts of all releases have one name on disk.       *)
EXTENDS Naturals, FiniteSets

CONSTANTS
    Looks,         \* goroutines that check: the ticker's and the requests'
    MaxRelease,    \* bound: releases released (this build is release 0)
    MaxRefusals    \* bound: answers and transfers that fail

UpdatesAssumption == {MaxRelease, MaxRefusals} \subseteq Nat

VARIABLES
    released,    \* the newest release on GitHub
    look,         \* where each check is, and the answer it was given
    latest,       \* the release on offer
    limited,      \* retryAt is still to come
    downloading,  \* a transfer is claimed
    transfer,     \* the release it fetches, and how far it is
    file,         \* the release whose artifact the path holds, or 0
    downloaded,   \* the path is on offer
    discards,     \* superseded transfers about to remove the path
    refusals

updateVars ==
    <<released, look, latest, limited, downloading, transfer, file, downloaded, discards, refusals>>
offer == <<latest, downloaded>>
fetch == <<downloading, transfer, file, discards>>

Releases == 1 .. MaxRelease
Idle     == [step |-> "idle", answer |-> 0]
NoTransfer == [of |-> 0, step |-> "none"]
Newer(r) == r > 0
Refusal  == refusals < MaxRefusals /\ refusals' = refusals + 1

Init ==
    /\ released = 0 /\ look = [l \in Looks |-> Idle]
    /\ latest = 0 /\ limited = FALSE
    /\ downloading = FALSE /\ transfer = NoTransfer /\ file = 0 /\ downloaded = FALSE
    /\ discards = 0 /\ refusals = 0

-----------------------------------------------------------------------------
(* checkForUpdate: the state is read, GitHub asked, the state written.      *)

(* Mutant: nothing is asked while a release is on offer.                    *)
LookOnce(l) ==
    /\ look[l] = Idle /\ ~limited /\ latest = 0
    /\ look' = [look EXCEPT ![l].step = "asked"]
    /\ UNCHANGED <<released, offer, limited, fetch, refusals>>

(* Nothing is asked inside the window GitHub named.                         *)
Look(l) ==
    /\ look[l] = Idle /\ ~limited
    /\ look' = [look EXCEPT ![l].step = "asked"]
    /\ UNCHANGED <<released, offer, limited, fetch, refusals>>

(* The newest release; or none, for a draft; or a failure, which leaves the *)
(* offer as it was; or a refusal with a window to wait.                     *)
Latest(l) ==
    /\ look[l].step = "asked"
    /\ \/ /\ look' = [look EXCEPT ![l] = [step |-> "answered", answer |-> released]]
          /\ UNCHANGED <<limited, refusals>>
       \/ /\ Refusal /\ look' = [look EXCEPT ![l] = [step |-> "answered", answer |-> 0]]
          /\ UNCHANGED limited
       \/ /\ Refusal /\ look' = [look EXCEPT ![l] = Idle]
          /\ limited' \in {limited, TRUE}
    /\ UNCHANGED <<released, offer, fetch>>

(* Mutant: the file of the release before stays on offer.                   *)
OfferKeepingFile(l) ==
    /\ look[l].step = "answered"
    /\ latest' = look[l].answer
    /\ look' = [look EXCEPT ![l] = Idle]
    /\ UNCHANGED <<released, downloaded, limited, fetch, refusals>>

(* Another release than the one on offer takes its place, and the file with *)
(* it: whichever of two checks is applied last.                             *)
Offer(l) ==
    /\ look[l].step = "answered"
    /\ latest' = look[l].answer
    /\ downloaded' = (downloaded /\ latest = look[l].answer)
    /\ look' = [look EXCEPT ![l] = Idle]
    /\ UNCHANGED <<released, limited, fetch, refusals>>

(* GitHub answers again.                                                    *)
WindowPasses ==
    /\ limited /\ limited' = FALSE
    /\ UNCHANGED <<released, look, offer, fetch, refusals>>

Publish ==
    /\ released < MaxRelease /\ released' = released + 1
    /\ UNCHANGED <<look, offer, limited, fetch, refusals>>

-----------------------------------------------------------------------------
(* startUpdateDownload and Fetch.                                           *)

(* One transfer at a time, of the release on offer. (Bound: as many         *)
(* removals to come as there are releases.)                                 *)
StartDownload ==
    /\ ~downloading /\ Newer(latest) /\ discards < MaxRelease
    /\ downloading' = TRUE /\ transfer' = [of |-> latest, step |-> "part"]
    /\ UNCHANGED <<released, look, offer, limited, file, discards, refusals>>

(* The artifact is complete and matches its checksum: it takes the path.    *)
Rename ==
    /\ transfer.step = "part"
    /\ transfer' = [transfer EXCEPT !.step = "whole"] /\ file' = transfer.of
    /\ UNCHANGED <<released, look, offer, limited, downloading, discards, refusals>>

(* Mutant: a transfer that failed stays claimed.                            *)
FetchFailsClaimed ==
    /\ transfer.step = "part" /\ Refusal
    /\ transfer' = NoTransfer
    /\ UNCHANGED <<released, look, offer, limited, downloading, file, discards>>

(* A transfer that fails leaves nothing.                                    *)
FetchFails ==
    /\ transfer.step = "part" /\ Refusal
    /\ transfer' = NoTransfer /\ downloading' = FALSE
    /\ UNCHANGED <<released, look, offer, limited, file, discards>>

(* The file is on offer, unless a newer release was found meanwhile: then   *)
(* it is removed, after the lock is released.                               *)
FetchEnds ==
    /\ transfer.step = "whole"
    /\ transfer' = NoTransfer /\ downloading' = FALSE
    /\ IF latest = transfer.of
       THEN downloaded' = TRUE /\ UNCHANGED discards
       ELSE discards' = discards + 1 /\ UNCHANGED downloaded
    /\ UNCHANGED <<released, look, latest, limited, file, refusals>>

Discard ==
    /\ discards > 0 /\ discards' = discards - 1
    /\ file' = 0
    /\ UNCHANGED <<released, look, offer, limited, downloading, transfer, refusals>>

-----------------------------------------------------------------------------
CheckStep(l) == Look(l) \/ Latest(l) \/ Offer(l)
FetchStep    == Rename \/ FetchFails \/ FetchEnds \/ Discard

Next ==
    \/ \E l \in Looks : CheckStep(l)
    \/ WindowPasses \/ Publish \/ StartDownload \/ FetchStep

(* The ticker comes again and again, a window ends, and a transfer has an   *)
(* hour at most.                                                            *)
Fairness ==
    /\ \A l \in Looks : WF_updateVars(CheckStep(l))
    /\ WF_updateVars(WindowPasses) /\ WF_updateVars(FetchStep)

Spec == Init /\ [][Next]_updateVars /\ Fairness

-----------------------------------------------------------------------------
TypeOK ==
    /\ released \in 0 .. MaxRelease /\ latest \in 0 .. MaxRelease /\ file \in 0 .. MaxRelease
    /\ look \in [Looks -> [step : {"idle", "asked", "answered"}, answer : 0 .. MaxRelease]]
    /\ limited \in BOOLEAN /\ downloading \in BOOLEAN /\ downloaded \in BOOLEAN
    /\ transfer \in [of : 0 .. MaxRelease, step : {"none", "part", "whole"}]
    /\ discards \in 0 .. MaxRelease /\ refusals \in 0 .. MaxRefusals

(* What is offered for installation is never the file of another release    *)
(* than the one whose version and notes are shown with it.                  *)
OfferedFileIsTheLatest == downloaded => file \in {0, latest}

(* A download that was claimed is given back: the next can start.           *)
DownloadIsGivenBack == downloading ~> ~downloading

(* A release that stays the newest is on offer in the end, refusals and     *)
(* late answers of older checks or not.                                     *)
NewestIsOffered == <>[](latest = released)

=============================================================================
