----------------------------- MODULE MediaFetch -----------------------------
(* The file of one message. Several downloads may want it at once: readers, *)
(* and the message itself each time it arrives. WhatsApp serves a file for  *)
(* a while; after that only the phone can say where it is now, and all      *)
(* downloads share one question to the phone. The file is kept in a cache   *)
(* that may be cleared and in a database.                                   *)
EXTENDS Integers, FiniteSets

CONSTANTS
    Readers,  \* downloads somebody asked for
    Live,     \* downloads of a message that arrives; one slot is modelled
    MaxFaults,\* faults of the network, the database and the cache
    None

Downloads == Readers \cup Live
Addresses == {"direct", "url"} \cup Downloads  \* a refreshed one is named for its waiter

ASSUME FetchAssumption == MaxFaults \in Nat /\ IsFiniteSet(Downloads) /\ None \notin Downloads

VARIABLES
    step,      \* the step of each download, and the path or waiter it is at
    serves,    \* the addresses behind which the right file is
    payload,   \* media_payloads: the direct path of the stored message
    waiter,    \* mediaRetries: named for the download that made it, or None
    result,    \* what each waiter was completed with
    answering, \* handleMediaRetry has looked up this waiter
    closed,    \* the client is closed
    cached,    \* the file is in the cache
    kept,      \* the file is in the media database
    recorded,  \* the row of the message has a media_path
    faults,
    twice,     \* history: a waiter was completed twice
    proven,    \* history: addresses that once gave the file
    unkept     \* history: storing the file in the database failed

phone == <<waiter, result, answering, twice>>
files == <<cached, kept, recorded, unkept>>
paths == <<serves, payload, proven>>
vars  == <<step, paths, phone, closed, files, faults>>

Init ==
    /\ step = [d \in Downloads |-> [at |-> "new", on |-> None]]
    /\ serves \in SUBSET {"direct", "url"}
    /\ payload = "direct"
    /\ waiter = None /\ result = [d \in Downloads |-> None]
    /\ answering = None /\ closed = FALSE
    /\ cached = FALSE /\ kept = FALSE /\ recorded = FALSE
    /\ faults = 0
    /\ twice = FALSE /\ proven = {} /\ unkept = FALSE

At(d, s)      == step[d].at = s
GoOn(d, s, x) == step' = [step EXCEPT ![d] = [at |-> s, on |-> x]]
Go(d, s)      == GoOn(d, s, None)
On(d)         == step[d].on
Fault         == faults < MaxFaults /\ faults' = faults + 1

-----------------------------------------------------------------------------
(* completeMediaRetry ignores a waiter that is no longer the current one.   *)

(* Mutant: a waiter is completed whether it is still the current or not.    *)
CompleteAny(w, outcome) ==
    IF w = None THEN UNCHANGED <<waiter, result, twice>>
    ELSE /\ waiter' = None
         /\ result' = [result EXCEPT ![w] = outcome]
         /\ twice' = (twice \/ result[w] # None)

Complete(w, outcome) ==
    IF w = None \/ waiter # w THEN UNCHANGED <<waiter, result, twice>>
    ELSE /\ waiter' = None
         /\ result' = [result EXCEPT ![w] = outcome]
         /\ twice' = (twice \/ result[w] # None)

Waiting(d) == At(d, "wait")

-----------------------------------------------------------------------------
(* A download begins. *)

(* A live one waits for a slot; the others look here first: in the cache,   *)
(* then in the database, from which the cache is filled again.              *)
Queue(d) ==
    /\ d \in Live /\ At(d, "new") /\ Go(d, "queued")
    /\ UNCHANGED <<paths, phone, closed, files, faults>>

Busy(d) == step[d].at \notin {"new", "queued", "ended"}
cacheMedia(d) ==
    /\ At(d, "queued") /\ \A e \in Live : ~Busy(e)
    /\ GoOn(d, "fetch", "direct")
    /\ UNCHANGED <<paths, phone, closed, files, faults>>

fetchStoredMedia(d) ==
    /\ d \notin Live /\ At(d, "new")
    /\ IF recorded /\ cached THEN Go(d, "ended") /\ UNCHANGED files
       ELSE IF kept
       THEN cached' = TRUE /\ recorded' = TRUE /\ Go(d, "ended") /\ UNCHANGED <<kept, unkept>>
       ELSE GoOn(d, "fetch", payload) /\ UNCHANGED files
    /\ UNCHANGED <<paths, phone, closed, faults>>

-----------------------------------------------------------------------------
(* downloadMedia. *)

Got(address) == proven' = proven \cup {address}

(* The address stored with the message, then the other one it came with,    *)
(* then the phone.                                                          *)
Fetch(d) ==
    /\ At(d, "fetch")
    /\ \/ \E a \in {On(d), "url"} \cap serves :
              /\ a = "url" => On(d) \notin serves
              /\ Go(d, "rename") /\ Got(a)
       \/ /\ {On(d), "url"} \cap serves = {} /\ UNCHANGED proven
          /\ Go(d, "ask")
    /\ UNCHANGED <<serves, payload, phone, closed, files, faults>>

(* awaitMediaRetryPath: the first asks, the others wait with it.            *)
awaitMediaRetryPath(d) ==
    /\ At(d, "ask")
    /\ IF waiter = None
       THEN waiter' = d /\ GoOn(d, "wait", d)
       ELSE UNCHANGED waiter /\ GoOn(d, "wait", waiter)
    /\ UNCHANGED <<paths, result, answering, twice, closed, files, faults>>

(* The receipt cannot be sent.                                              *)
SendFails(d) ==
    /\ Waiting(d) /\ On(d) = d /\ waiter = d /\ Fault
    /\ Complete(d, "error")
    /\ UNCHANGED <<step, paths, answering, closed, files>>

(* Mutant: a refusal is taken for a path.                                   *)
ResumeUnread(d) ==
    /\ Waiting(d) /\ result[On(d)] # None
    /\ GoOn(d, "fresh", result[On(d)])
    /\ UNCHANGED <<paths, phone, closed, files, faults>>

Resume(d) ==
    /\ Waiting(d) /\ result[On(d)] # None
    /\ IF result[On(d)] = "error" THEN Go(d, "ended") ELSE GoOn(d, "fresh", result[On(d)])
    /\ UNCHANGED <<paths, phone, closed, files, faults>>

(* Mutant: nothing but the end of the client ends a wait.                   *)
TimeoutWhenClosed(d) ==
    /\ Waiting(d) /\ closed /\ Go(d, "ended")
    /\ Complete(On(d), "error")
    /\ UNCHANGED <<paths, answering, closed, files, faults>>

Timeout(d) ==
    /\ Waiting(d) /\ Go(d, "ended")
    /\ Complete(On(d), "error")
    /\ UNCHANGED <<paths, answering, closed, files, faults>>

(* Mutant: the reader who leaves takes nobody's question along.             *)
CancelQuietly(d) ==
    /\ Waiting(d) /\ Go(d, "ended")
    /\ UNCHANGED <<waiter, result, twice>>
    /\ UNCHANGED <<paths, answering, closed, files, faults>>

(* Its reader leaves: the question is given up if it was this one's.        *)
Cancel(d) ==
    /\ Waiting(d) /\ Go(d, "ended")
    /\ IF On(d) = d THEN Complete(d, "error") ELSE UNCHANGED <<waiter, result, twice>>
    /\ UNCHANGED <<paths, answering, closed, files, faults>>

(* Mutant: the refreshed path is stored before it is tried.                 *)
FetchFreshUntried(d) ==
    /\ At(d, "fresh") /\ payload' = On(d)
    /\ IF On(d) \in serves
       THEN Go(d, "rename") /\ Got(On(d))
       ELSE Go(d, "ended") /\ UNCHANGED proven
    /\ UNCHANGED <<serves, phone, closed, files, faults>>

(* The refreshed path is stored once it has given the file.                 *)
FetchFresh(d) ==
    /\ At(d, "fresh")
    /\ IF On(d) \in serves
       THEN Go(d, "rename") /\ Got(On(d)) /\ payload' = On(d)
       ELSE Go(d, "ended") /\ UNCHANGED <<payload, proven>>
    /\ UNCHANGED <<serves, phone, closed, files, faults>>

Rename(d) ==
    /\ At(d, "rename") /\ cached' = TRUE /\ Go(d, "put")
    /\ UNCHANGED <<paths, phone, closed, kept, recorded, unkept, faults>>

(* Mutant: only what a reader asked for is kept beside the cache.           *)
PutFileOfReader(d) ==
    /\ At(d, "put") /\ Go(d, "record")
    /\ kept' = (kept \/ (cached /\ d \in Readers))
    /\ UNCHANGED <<paths, phone, closed, cached, recorded, unkept, faults>>

(* A copy that cannot be kept is reported, and the download goes on.        *)
PutFile(d) ==
    /\ At(d, "put") /\ Go(d, "record")
    /\ \/ cached /\ kept' = TRUE /\ UNCHANGED <<unkept, faults>>
       \/ unkept' = TRUE /\ UNCHANGED kept /\ IF cached THEN Fault ELSE UNCHANGED faults
    /\ UNCHANGED <<paths, phone, closed, cached, recorded>>

Record(d) ==
    /\ At(d, "record") /\ recorded' = TRUE /\ Go(d, "ended")
    /\ UNCHANGED <<paths, phone, closed, cached, kept, unkept, faults>>

(* A network error that asking again does not help.                         *)
FetchFails(d) ==
    /\ step[d].at \in {"fetch", "fresh"} /\ Fault /\ Go(d, "ended")
    /\ UNCHANGED <<paths, phone, closed, files>>

-----------------------------------------------------------------------------
(* The phone and WhatsApp. *)

(* handleMediaRetry looks the waiter up, decrypts the answer, completes it. *)
handleMediaRetry ==
    /\ answering = None /\ waiter # None
    /\ answering' = waiter
    /\ UNCHANGED <<step, paths, waiter, result, twice, closed, files, faults>>

(* The phone names a path, which may hold another upload, or refuses.       *)
CompleteAnswer ==
    /\ answering # None /\ answering' = None
    /\ \/ Complete(answering, answering) /\ (serves' = serves \cup {answering} \/ UNCHANGED serves)
       \/ Complete(answering, "error") /\ UNCHANGED serves
    /\ UNCHANGED <<step, payload, proven, closed, files, faults>>

Expire ==
    /\ \E a \in serves : serves' = serves \ {a}
    /\ UNCHANGED <<step, payload, proven, phone, closed, files, faults>>

(* The message is delivered once more: its payload is stored as it came.    *)
rememberMediaPayload ==
    /\ payload # "direct" /\ payload' = "direct"
    /\ UNCHANGED <<step, serves, proven, phone, closed, files, faults>>

ClearCache ==
    /\ cached /\ cached' = FALSE /\ Fault
    /\ UNCHANGED <<step, paths, phone, closed, kept, recorded, unkept>>

Close ==
    /\ ~closed /\ closed' = TRUE
    /\ Complete(waiter, "error")
    /\ UNCHANGED <<step, paths, answering, files, faults>>

Download(d) ==
    \/ Queue(d) \/ cacheMedia(d) \/ fetchStoredMedia(d)
    \/ Fetch(d) \/ awaitMediaRetryPath(d)
    \/ Resume(d) \/ Timeout(d)
    \/ FetchFresh(d) \/ Rename(d) \/ PutFile(d) \/ Record(d)

Next ==
    \/ \E d \in Downloads : Download(d) \/ SendFails(d) \/ Cancel(d) \/ FetchFails(d)
    \/ handleMediaRetry \/ CompleteAnswer
    \/ Expire \/ rememberMediaPayload \/ ClearCache \/ Close

(* Every download is a goroutine with a timer of its own.                   *)
Fairness == \A d \in Downloads : WF_vars(Download(d))

Spec == Init /\ [][Next]_vars /\ Fairness

-----------------------------------------------------------------------------
TypeOK ==
    /\ \A d \in Downloads :
           /\ step[d].at \in {"new", "queued", "fetch", "ask", "wait", "fresh",
                             "rename", "put", "record", "ended"}
           /\ step[d].at \in {"fetch", "fresh"} => On(d) \in Addresses
           /\ Waiting(d) => On(d) \in Downloads
    /\ serves \subseteq Addresses
    /\ payload \in Addresses /\ waiter \in Downloads \cup {None}
    /\ result \in [Downloads -> Downloads \cup {None, "error"}]
    /\ faults \in 0 .. MaxFaults

(* No question to the phone is left open when nobody waits for its answer:  *)
(* a later download would join it and wait in vain.                         *)
QuestionsHaveAWaiter ==
    waiter # None => Waiting(waiter) /\ On(waiter) = waiter

(* A waiter is completed once, whether by the answer, a timer, the reader   *)
(* who leaves or the client that closes: a second time would panic.         *)
CompletedOnce == ~twice

(* The stored address is the one the message came with or one that has      *)
(* given the file.                                                          *)
StoredAddressIsProven == payload \in {"direct"} \cup proven

(* What a row points to is here: in the cache, or in the database for when  *)
(* the cache is cleared, unless the database refused it.                    *)
RecordedFileIsKept == recorded => cached \/ kept \/ unkept

(* Every download ends, also one that joins another's question, and the     *)
(* queue behind a slot moves.                                               *)
DownloadsEnd == \A d \in Downloads : At(d, "queued") \/ Busy(d) ~> At(d, "ended")

(* A question to the phone has somebody who waits for it and is completed   *)
(* once, and every download that joined it ends.                            *)
QuestionsAreSettled == []QuestionsHaveAWaiter /\ []CompletedOnce /\ DownloadsEnd

(* What is stored of a file is true: where it can be fetched, and that it   *)
(* is here.                                                                 *)
StoredFilesAreTrue == StoredAddressIsProven /\ RecordedFileIsKept

=============================================================================
