---------------------------- MODULE GatewayProofs ----------------------------
(* What the background of the gateway promises, for every value of the      *)
(* constants: the file of a message (MediaFetch), the linking of the        *)
(* account (Pairing), and the types of all five parts (MCGateway).          *)
EXTENDS MCGateway, SequenceTheorems, FiniteSetTheorems, TLAPS

-----------------------------------------------------------------------------
(* The file of a message. For any number of readers and of arrivals of the  *)
(* message: a question to the phone has somebody who waits for it and is    *)
(* completed once, and what is stored of the file is true.                  *)

Steps  == {"new", "queued", "fetch", "ask", "wait", "fresh", "rename", "put", "record", "ended"}
Before == {"new", "queued", "fetch", "ask"}

StepInv == step \in [Downloads -> [at : Steps, on : Addresses \cup {None, "error"}]]

(* The current question is somebody's who waits, and has no answer yet; and *)
(* who has not asked has none.                                              *)
QuestionInv ==
    /\ waiter \in Downloads \cup {None}
    /\ waiter # None => Waiting(waiter) /\ On(waiter) = waiter /\ result[waiter] = None
AskedInv == \A d \in Downloads : step[d].at \in Before => result[d] = None
JoinInv  == \A d \in Downloads : Waiting(d) => On(d) \in Downloads
ResultInv == result \in [Downloads -> Downloads \cup {None, "error"}]
AnswerInv == answering \in Downloads \cup {None}

(* The cache is filled before the row is, and may be cleared at any time;   *)
(* the row rests on the copy in the database.                               *)
KeptInv ==
    /\ recorded => kept \/ unkept
    /\ \A d \in Downloads : At(d, "record") => kept \/ unkept

Questions ==
    StepInv /\ QuestionInv /\ AskedInv /\ JoinInv /\ ResultInv /\ AnswerInv /\ CompletedOnce

Files ==
    /\ payload \in Addresses /\ serves \subseteq Addresses
    /\ KeptInv /\ StoredAddressIsProven

FetchInv == Questions /\ Files

LEMMA InitFetchInv == ASSUME Init PROVE FetchInv
<1>1. StepInv BY DEF Init, StepInv, Steps
<1>2. \A d \in Downloads : step[d].at = "new" BY DEF Init
<1> QED
    BY <1>1, <1>2 DEF Init, FetchInv, Questions, Files, QuestionInv, AskedInv, JoinInv, ResultInv,
                      AnswerInv,
       CompletedOnce, KeptInv, StoredAddressIsProven, Addresses, Waiting, At

-----------------------------------------------------------------------------
(* A waiter is completed at most once, and then is not the current one.     *)
LEMMA CompleteKeeps ==
    ASSUME QuestionInv, ResultInv, CompletedOnce, NEW w, NEW outcome \in Downloads \cup {"error"},
           Complete(w, outcome)
    PROVE  /\ waiter' \in {waiter, None} /\ ResultInv' /\ CompletedOnce'
           /\ waiter' # None => waiter' = waiter /\ result' = result
           /\ \A d \in Downloads : d # waiter => result'[d] = result[d]
           /\ (w = waiter /\ waiter # None) => waiter' = None
<1>1. CASE w = None \/ waiter # w
    BY <1>1 DEF Complete, ResultInv, CompletedOnce
<1>2. CASE w # None /\ waiter = w
    <2>1. waiter \in Downloads /\ result[waiter] = None BY <1>2 DEF QuestionInv
    <2> QED BY <1>2, <2>1 DEF Complete, ResultInv, CompletedOnce
<1> QED BY <1>1, <1>2

(* The steps of a download that leave the questions alone.                  *)
LEMMA QuietStep ==
    ASSUME FetchInv, NEW d \in Downloads, NEW s \in Steps \ {"wait"},
           NEW x \in Addresses \cup {None, "error"}, GoOn(d, s, x),
           ~(step[d].at = "wait" /\ waiter = d), s \in Before => step[d].at \in Before,
           UNCHANGED phone
    PROVE  Questions'
<1> USE DEF FetchInv, Questions, phone
<1>1. step' = [step EXCEPT ![d] = [at |-> s, on |-> x]] BY DEF GoOn
<1>2. [at |-> s, on |-> x] \in [at : Steps, on : Addresses \cup {None, "error"}]
    OBVIOUS
<1>3. StepInv' BY <1>1, <1>2 DEF StepInv
<1>4. step'[d] = [at |-> s, on |-> x] /\ \A e \in Downloads : e # d => step'[e] = step[e]
    BY <1>1 DEF StepInv
<1>5. QuestionInv' BY <1>4 DEF QuestionInv, Waiting, At, On
<1>6. AskedInv' BY <1>4 DEF AskedInv
<1>7. JoinInv' BY <1>4 DEF JoinInv, Waiting, At, On
<1>8. ResultInv' /\ AnswerInv' BY DEF ResultInv, AnswerInv
<1>9. CompletedOnce' BY DEF CompletedOnce
<1> QED BY <1>3, <1>5, <1>6, <1>7, <1>8, <1>9

-----------------------------------------------------------------------------
(* A download that leaves the wait, and completes the question w or not.    *)
LEMMA LeaveWait ==
    ASSUME FetchInv, NEW d \in Downloads, Waiting(d), NEW w, Complete(w, "error"),
           On(d) = d => w = d, step' = [step EXCEPT ![d] = [at |-> "ended", on |-> None]],
           answering' = answering
    PROVE  Questions'
<1> USE DEF FetchInv, Questions
<1>1. /\ waiter' \in {waiter, None} /\ ResultInv' /\ CompletedOnce'
      /\ waiter' # None => waiter' = waiter /\ result' = result
      /\ \A e \in Downloads : e # waiter => result'[e] = result[e]
      /\ (w = waiter /\ waiter # None) => waiter' = None
    BY CompleteKeeps
<1>2. step'[d].at = "ended" /\ \A e \in Downloads : e # d => step'[e] = step[e]
    BY DEF StepInv
<1>3. StepInv' BY DEF StepInv, Steps
<1>4. QuestionInv'
    <2> SUFFICES ASSUME waiter' # None
                 PROVE  Waiting(waiter)' /\ On(waiter)' = waiter' /\ result'[waiter'] = None
        BY <1>1 DEF QuestionInv
    <2>1. /\ waiter' = waiter /\ result' = result /\ waiter \in Downloads
          /\ Waiting(waiter) /\ On(waiter) = waiter /\ result[waiter] = None
        BY <1>1 DEF QuestionInv
    <2>2. waiter # d BY <1>1, <2>1
    <2> QED BY <1>2, <2>1, <2>2 DEF Waiting, At, On
<1>5. AskedInv'
    <2> SUFFICES ASSUME NEW e \in Downloads, step'[e].at \in Before PROVE result'[e] = None
        BY DEF AskedInv
    <2>1. e # d /\ step[e].at \in Before BY <1>2 DEF Before
    <2>2. e # waiter BY <2>1, FetchAssumption DEF QuestionInv, Waiting, At, Before
    <2> QED BY <1>1, <2>1, <2>2 DEF AskedInv
<1>6. JoinInv' BY <1>2 DEF JoinInv, Waiting, At, On
<1>7. AnswerInv' BY DEF AnswerInv
<1> QED BY <1>1, <1>3, <1>4, <1>5, <1>6, <1>7 DEF Questions

(* A step that is no download's: it may complete a question.                *)
LEMMA CompleteElsewhere ==
    ASSUME FetchInv, NEW w, NEW outcome \in Downloads \cup {"error"}, Complete(w, outcome),
           step' = step, answering' \in {answering, None}
    PROVE  Questions'
<1> USE DEF FetchInv, Questions
<1>1. /\ waiter' \in {waiter, None} /\ ResultInv' /\ CompletedOnce'
      /\ waiter' # None => waiter' = waiter /\ result' = result
      /\ \A e \in Downloads : e # waiter => result'[e] = result[e]
    BY CompleteKeeps
<1>2. QuestionInv' BY <1>1 DEF QuestionInv, Waiting, At, On
<1>3. AskedInv'
    <2> SUFFICES ASSUME NEW e \in Downloads, step[e].at \in Before PROVE result'[e] = None
        BY DEF AskedInv
    <2>1. e # waiter BY FetchAssumption DEF QuestionInv, Waiting, At, Before
    <2> QED BY <1>1, <2>1 DEF AskedInv
<1>4. JoinInv' BY DEF JoinInv, Waiting, At, On
<1>5. StepInv' /\ AnswerInv' BY DEF StepInv, AnswerInv
<1> QED BY <1>1, <1>2, <1>3, <1>4, <1>5 DEF Questions

LEMMA AskKeeps ==
    ASSUME FetchInv, NEW d \in Downloads, awaitMediaRetryPath(d)
    PROVE  Questions'
<1> USE DEF FetchInv, Questions
<1>1. step[d].at = "ask" /\ result[d] = None
    BY DEF awaitMediaRetryPath, At, AskedInv, Before
<1>2. PICK w \in Downloads :
          /\ waiter' = w /\ (waiter = None => w = d) /\ (waiter # None => w = waiter)
          /\ step' = [step EXCEPT ![d] = [at |-> "wait", on |-> w]]
    BY DEF awaitMediaRetryPath, GoOn, QuestionInv
<1>3. [at |-> "wait", on |-> w] \in [at : Steps, on : Addresses \cup {None, "error"}]
    BY DEF Steps, Addresses
<1>4. StepInv' BY <1>2, <1>3 DEF StepInv
<1>5. /\ step'[d] = [at |-> "wait", on |-> w]
      /\ \A e \in Downloads : e # d => step'[e] = step[e]
    BY <1>2 DEF StepInv
<1>6. UNCHANGED <<result, answering, twice>> BY DEF awaitMediaRetryPath
<1>7. QuestionInv'
    <2>1. CASE waiter = None
        BY <1>1, <1>2, <1>5, <1>6, <2>1 DEF QuestionInv, Waiting, At, On
    <2>2. CASE waiter # None
        <3>1. waiter # d BY <1>1, <2>2 DEF QuestionInv, Waiting, At
        <3> QED BY <1>2, <1>5, <1>6, <2>2, <3>1 DEF QuestionInv, Waiting, At, On
    <2> QED BY <2>1, <2>2
<1>8. AskedInv' BY <1>5, <1>6 DEF AskedInv, Before
<1>9. JoinInv' BY <1>5 DEF JoinInv, Waiting, At, On
<1>10. ResultInv' /\ AnswerInv' BY <1>6 DEF ResultInv, AnswerInv
<1>11. CompletedOnce' BY <1>6 DEF CompletedOnce
<1> QED BY <1>4, <1>7, <1>8, <1>9, <1>10, <1>11 DEF Questions

-----------------------------------------------------------------------------

LEMMA StepKeepsQuestions == ASSUME FetchInv, [Next]_vars PROVE Questions'
<1> USE DEF FetchInv, Questions, Files
<1>0. ASSUME step' = step, UNCHANGED phone PROVE Questions'
    BY <1>0, CompleteElsewhere DEF phone, Complete
<1>1. CASE UNCHANGED vars BY <1>0, <1>1 DEF vars
<1>2. ASSUME NEW d \in Downloads,
             Queue(d) \/ cacheMedia(d) \/ Rename(d) \/ PutFile(d) \/ Record(d) \/ FetchFails(d)
      PROVE  Questions'
    <2>1. PICK s \in Steps \ {"wait"}, x \in Addresses \cup {None, "error"} :
              GoOn(d, s, x) /\ (s \in Before => step[d].at \in Before)
        <3>1. CASE Queue(d) BY <3>1 DEF Queue, Go, Steps, Before, At
        <3>2. CASE cacheMedia(d) BY <3>2 DEF cacheMedia, Steps, Addresses, Before, At
        <3>3. CASE Rename(d) \/ PutFile(d) \/ Record(d) \/ FetchFails(d)
            BY <3>3 DEF Rename, PutFile, Record, FetchFails, Go, Steps, Before
        <3> QED BY <1>2, <3>1, <3>2, <3>3
    <2>2. step[d].at # "wait" /\ UNCHANGED phone
        BY <1>2 DEF Queue, cacheMedia, Rename, PutFile, Record, FetchFails, At
    <2> QED BY <2>1, <2>2, QuietStep
<1>3. ASSUME NEW d \in Downloads, fetchStoredMedia(d) \/ Fetch(d) PROVE Questions'
    <2>1. PICK s \in {"ended", "fetch", "rename", "ask"}, x \in Addresses \cup {None, "error"} :
              GoOn(d, s, x)
        BY <1>3 DEF fetchStoredMedia, Fetch, Go
    <2>2. step[d].at \in {"new", "fetch"} /\ UNCHANGED phone
        BY <1>3 DEF fetchStoredMedia, Fetch, At
    <2> QED BY <2>1, <2>2, QuietStep DEF Steps, Before
<1>4. ASSUME NEW d \in Downloads, FetchFresh(d) PROVE Questions'
    <2>1. PICK s \in {"ended", "rename"} : GoOn(d, s, None)
        BY <1>4 DEF FetchFresh, Go
    <2>2. step[d].at = "fresh" /\ UNCHANGED phone
        BY <1>4 DEF FetchFresh, At
    <2> QED BY <2>1, <2>2, QuietStep DEF Steps, Before
<1>5. ASSUME NEW d \in Downloads, Resume(d) PROVE Questions'
    <2>1. waiter # d
        BY <1>5, FetchAssumption DEF Resume, QuestionInv
    <2>2. On(d) \in Downloads /\ result[On(d)] \in Downloads \cup {"error"}
        BY <1>5 DEF Resume, JoinInv, ResultInv
    <2>3. PICK s \in {"ended", "fresh"}, x \in Addresses \cup {None, "error"} : GoOn(d, s, x)
        BY <1>5, <2>2 DEF Resume, Go, Addresses
    <2>4. UNCHANGED phone BY <1>5 DEF Resume
    <2> QED BY <2>1, <2>3, <2>4, QuietStep DEF Steps, Before
<1>6. ASSUME NEW d \in Downloads, awaitMediaRetryPath(d) PROVE Questions'
    BY <1>6, AskKeeps
<1>7. ASSUME NEW d \in Downloads, Timeout(d) PROVE Questions'
    BY <1>7, LeaveWait DEF Timeout, Go, GoOn
<1>8. ASSUME NEW d \in Downloads, Cancel(d) PROVE Questions'
    <2>1. CASE On(d) = d BY <1>8, <2>1, LeaveWait DEF Cancel, Go, GoOn
    <2>2. CASE On(d) # d
        <3>1. Complete(None, "error") BY <1>8, <2>2 DEF Cancel, Complete
        <3> QED BY <1>8, <2>2, <3>1, LeaveWait DEF Cancel, Go, GoOn
    <2> QED BY <2>1, <2>2
<1>9. ASSUME NEW d \in Downloads, SendFails(d) PROVE Questions'
    BY <1>9, CompleteElsewhere DEF SendFails
<1>10. CASE handleMediaRetry
    BY <1>10 DEF handleMediaRetry, StepInv, QuestionInv, AskedInv, JoinInv, ResultInv, AnswerInv,
                 CompletedOnce, Waiting, At, On
<1>11. CASE CompleteAnswer
    BY <1>11, CompleteElsewhere DEF CompleteAnswer, AnswerInv
<1>12. CASE Close
    BY <1>12, CompleteElsewhere DEF Close
<1>13. CASE Expire \/ rememberMediaPayload \/ ClearCache
    BY <1>0, <1>13 DEF Expire, rememberMediaPayload, ClearCache
<1> QED
    BY <1>1, <1>2, <1>3, <1>4, <1>5, <1>6, <1>7, <1>8, <1>9, <1>10, <1>11, <1>12, <1>13
    DEF Next, Download

(* What is stored changes at few of the steps.                              *)
LEMMA StepKeepsFiles == ASSUME FetchInv, [Next]_vars PROVE Files'
<1> USE DEF FetchInv, Questions, Files
<1>1. ASSUME UNCHANGED <<payload, kept, unkept, recorded>>, proven \subseteq proven',
             serves' \subseteq Addresses,
             \A d \in Downloads : At(d, "record")' => At(d, "record")
      PROVE  Files'
    <2>1. KeptInv'
        <3>1. (kept \/ unkept) => (kept' \/ unkept') BY <1>1
        <3>2. recorded' => recorded BY <1>1
        <3> QED BY <1>1, <3>1, <3>2 DEF KeptInv
    <2>2. StoredAddressIsProven' BY <1>1 DEF StoredAddressIsProven
    <2> QED BY <1>1, <2>1, <2>2 DEF Addresses
<1>2. ASSUME NEW d \in Downloads, NEW s, NEW x, s # "record", GoOn(d, s, x)
      PROVE  \A e \in Downloads : At(e, "record")' => At(e, "record")
    BY <1>2 DEF GoOn, At, StepInv
<1>3. ASSUME step' = step PROVE \A e \in Downloads : At(e, "record")' => At(e, "record")
    BY <1>3 DEF At
<1>4. CASE UNCHANGED vars BY <1>1, <1>3, <1>4 DEF vars, paths, files
<1>5. ASSUME NEW d \in Downloads,
             \/ Queue(d) \/ cacheMedia(d) \/ Fetch(d) \/ awaitMediaRetryPath(d) \/ Resume(d)
             \/ Timeout(d) \/ Rename(d) \/ Cancel(d) \/ FetchFails(d)
      PROVE  Files'
    <2>1. \E s, x : s # "record" /\ GoOn(d, s, x)
        BY <1>5 DEF Queue, cacheMedia, Fetch, awaitMediaRetryPath, Resume, Timeout, Rename, Cancel,
                    FetchFails, Go
    <2>2. /\ UNCHANGED <<payload, kept, unkept, recorded>> /\ proven \subseteq proven'
          /\ serves' \subseteq Addresses
        BY <1>5 DEF Queue, cacheMedia, Fetch, awaitMediaRetryPath, Resume, Timeout, Rename, Cancel,
                    FetchFails, Got, paths, files
    <2> QED BY <1>1, <1>2, <2>1, <2>2
<1>6. CASE \/ handleMediaRetry \/ CompleteAnswer \/ Close \/ Expire \/ ClearCache
           \/ \E d \in Downloads : SendFails(d)
    <2>1. step' = step
        BY <1>6 DEF handleMediaRetry, CompleteAnswer, Close, Expire, ClearCache, SendFails
    <2>2. /\ UNCHANGED <<payload, kept, unkept, recorded>> /\ proven \subseteq proven'
          /\ serves' \subseteq Addresses
        BY <1>6 DEF handleMediaRetry, CompleteAnswer, Close, Expire, ClearCache, SendFails, paths,
                    files, AnswerInv, Addresses
    <2> QED BY <1>1, <1>3, <2>1, <2>2
<1>7. CASE rememberMediaPayload
    <2>1. KeptInv' BY <1>7 DEF rememberMediaPayload, files, KeptInv, At
    <2> QED BY <1>7, <2>1 DEF rememberMediaPayload, StoredAddressIsProven, Addresses
<1>8. ASSUME NEW d \in Downloads, fetchStoredMedia(d) PROVE Files'
    <2>1. \A e \in Downloads : At(e, "record")' => At(e, "record")
        BY <1>2, <1>8 DEF fetchStoredMedia, Go
    <2>2. UNCHANGED <<payload, serves, kept, unkept, proven>> /\ (recorded' => recorded \/ kept)
        BY <1>8 DEF fetchStoredMedia, paths, files
    <2>3. KeptInv'
        <3>1. (kept \/ unkept) => (kept' \/ unkept') BY <2>2
        <3> QED BY <2>1, <2>2, <3>1 DEF KeptInv
    <2> QED BY <2>2, <2>3 DEF StoredAddressIsProven, Addresses
<1>9. ASSUME NEW d \in Downloads, FetchFresh(d) PROVE Files'
    <2>1. \A e \in Downloads : At(e, "record")' => At(e, "record")
        BY <1>2, <1>9 DEF FetchFresh, Go
    <2>2. UNCHANGED <<kept, unkept, recorded>> BY <1>9 DEF FetchFresh, files
    <2>3. KeptInv' BY <2>1, <2>2 DEF KeptInv
    <2>4. payload' \in Addresses /\ serves' = serves /\ StoredAddressIsProven'
        <3>1. CASE On(d) \in serves
            BY <1>9, <3>1 DEF FetchFresh, Got, StoredAddressIsProven, StepInv, On
        <3>2. CASE On(d) \notin serves
            BY <1>9, <3>2 DEF FetchFresh, StoredAddressIsProven
        <3> QED BY <3>1, <3>2
    <2> QED BY <2>3, <2>4 DEF Addresses
<1>10. ASSUME NEW d \in Downloads, PutFile(d) PROVE Files'
    <2>1. (kept' \/ unkept') /\ UNCHANGED <<payload, serves, proven>>
        BY <1>10 DEF PutFile, paths
    <2> QED BY <2>1 DEF KeptInv, StoredAddressIsProven, Addresses
<1>11. ASSUME NEW d \in Downloads, Record(d) PROVE Files'
    <2>1. kept \/ unkept BY <1>11 DEF Record, KeptInv
    <2>2. UNCHANGED <<kept, unkept, payload, serves, proven>> BY <1>11 DEF Record, paths
    <2>3. kept' \/ unkept' BY <2>1, <2>2
    <2> QED BY <2>2, <2>3 DEF KeptInv, StoredAddressIsProven, Addresses
<1> QED
    BY <1>4, <1>5, <1>6, <1>7, <1>8, <1>9, <1>10, <1>11 DEF Next, Download

-----------------------------------------------------------------------------
(* However many downloads share a question to the phone, it has one that    *)
(* waits for it, and nobody completes it twice (mediaretry.go).             *)
THEOREM QuestionsHold == Spec => []QuestionsHaveAWaiter /\ []CompletedOnce
<1>1. Init => FetchInv BY InitFetchInv
<1>2. FetchInv /\ [Next]_vars => FetchInv' BY StepKeepsQuestions, StepKeepsFiles DEF FetchInv
<1>3. FetchInv => QuestionsHaveAWaiter /\ CompletedOnce
    BY DEF FetchInv, Questions, QuestionInv, QuestionsHaveAWaiter
<1> QED BY <1>1, <1>2, <1>3, PTL DEF Spec

(* However many downloads there are, and whenever the cache is cleared, the *)
(* stored address is proven and the recorded file is here (fetchStoredMedia,*)
(* downloadMedia, the media store).                                         *)
THEOREM FilesAreTrue == Spec => []StoredFilesAreTrue
<1>1. Init => FetchInv BY InitFetchInv
<1>2. FetchInv /\ [Next]_vars => FetchInv' BY StepKeepsQuestions, StepKeepsFiles DEF FetchInv
<1>3. FetchInv => StoredFilesAreTrue
    BY DEF FetchInv, Files, KeptInv, RecordedFileIsKept, StoredFilesAreTrue
<1> QED BY <1>1, <1>2, <1>3, PTL DEF Spec

-----------------------------------------------------------------------------
(* The linking. For any number of attempts to link the account, made with   *)
(* codes or on the phone: the flag has a holder, there is one exchange of   *)
(* codes, and an exchange that was answered is reported.                    *)

(* StartPairing holds the flag until its call fails or its reader ends; a   *)
(* call of PairPhone holds it only by its reader.                           *)
Holds(a) ==
    \/ Running(a)
    \/ a \in Scans /\ at[a] \in {"taken", "cut", "channel", "connected"}

Held == pairing => \E a \in Attempts : Holds(a)

(* The reader of a caller for codes begins when the call is answered.       *)
AfterTheCall == \A a \in Scans : reader[a] # "none" => at[a] = "over"

(* As long as no reader of PairPhone has run, nobody else clears the flag.  *)
Quiet  == \A p \in Phones : reader[p] = "none"
OneBusy ==
    Quiet => /\ \A a \in Scans : Exchanging(a) => pairing
             /\ \A a, b \in Scans : (Exchanging(a) /\ Exchanging(b)) => a = b

(* The outcome leaves the channel into the hand of the reader, which says it.*)
Heard ==
    \A a \in Scans :
        line[a] = "shut" => \/ reader[a] \in Outcomes \cup {"done"}
                            \/ said[a] # "nothing"

LinkingInv ==
    /\ PairTypeOK
    /\ Held
    /\ AfterTheCall
    /\ OneBusy
    /\ Heard
    /\ AnsweredExchangeIsReported

LEMMA InitLinkingInv == ASSUME PairingAssumption, PairInit PROVE LinkingInv
<1>1. PICK made \in Together : at = [a \in Attempts |-> IF a \in made THEN "new" ELSE "over"]
    BY DEF PairInit
<1>2. PairTypeOK BY <1>1 DEF PairInit, PairTypeOK, Attempts
<1>3. \A a \in Attempts : ~Exchanging(a)
    BY <1>1 DEF PairInit, Exchanging, Running, Outcomes
<1>4. Held BY DEF PairInit, Held
<1>5. AfterTheCall /\ Heard /\ AnsweredExchangeIsReported
    BY DEF PairInit, AfterTheCall, Heard, AnsweredExchangeIsReported, Attempts
<1>6. OneBusy BY <1>3 DEF OneBusy, Attempts
<1> QED BY <1>2, <1>4, <1>5, <1>6 DEF LinkingInv

-----------------------------------------------------------------------------
(* One step of a call.                                                      *)
LEMMA CallKeepsTypes ==
    ASSUME PairingAssumption, PairTypeOK, NEW a \in Attempts, CallStep(a)
    PROVE  PairTypeOK'
<1>1. CASE Begin(a)
    BY <1>1 DEF PairTypeOK, Begin, TakeFlag, PairPhone, Move
<1>2. CASE GetQRChannel(a)
    BY <1>2 DEF PairTypeOK, GetQRChannel, GiveUp, Move
<1>3. CASE Connect(a)
    BY <1>3 DEF PairTypeOK, Connect, GiveUp, Move
<1>4. CASE Follow(a)
    BY <1>4 DEF PairTypeOK, Follow, Move, Ready, Outcomes
<1>5. CASE Ask(a)
    BY <1>5 DEF PairTypeOK, Ask, Move
<1> QED BY <1>1, <1>2, <1>3, <1>4, <1>5 DEF CallStep

LEMMA CallKeepsHeld ==
    ASSUME PairingAssumption, LinkingInv, NEW a \in Attempts, CallStep(a)
    PROVE  Held'
<1> SUFFICES ASSUME pairing' PROVE \E b \in Attempts : Holds(b)'
    BY DEF Held
<1> USE DEF LinkingInv, PairTypeOK
<1>1. ASSUME pairing, NEW b \in Attempts, b # a, Holds(b) PROVE Holds(b)'
    BY <1>1 DEF CallStep, Begin, TakeFlag, PairPhone, GetQRChannel, Connect, Follow, Ask,
                GiveUp, Move, Holds, Running
<1>2. ASSUME pairing, Holds(a) PROVE Holds(a)'
    <2>1. CASE Running(a)
        BY <2>1, <1>2 DEF CallStep, Begin, TakeFlag, PairPhone, GetQRChannel, Connect, Follow,
                    Ask, GiveUp, Move, Holds, Running
    <2>2. CASE a \in Scans /\ at[a] \in {"taken", "cut", "channel", "connected"}
        <3>1. a \notin Phones BY <2>2 DEF PairingAssumption
        <3>2. CASE Begin(a)
            BY <2>2, <3>2 DEF Begin, TakeFlag, PairPhone, Move, Holds
        <3>3. CASE GetQRChannel(a)
            BY <2>2, <3>3 DEF GetQRChannel, GiveUp, Move, Holds
        <3>4. CASE Connect(a)
            BY <2>2, <3>4 DEF Connect, GiveUp, Move, Holds
        <3>5. CASE Follow(a)
            BY <2>2, <3>1, <3>5 DEF Follow, Holds, Running
        <3>6. CASE Ask(a)
            BY <2>2, <3>6 DEF Ask
        <3> QED BY <3>2, <3>3, <3>4, <3>5, <3>6 DEF CallStep
    <2> QED BY <1>2, <2>1, <2>2 DEF Holds
<1>3. ASSUME ~pairing PROVE Holds(a)'
    BY <1>3 DEF CallStep, Begin, TakeFlag, PairPhone, GetQRChannel, Connect, Follow, Ask,
                GiveUp, Move, Holds, Running
<1> QED BY <1>1, <1>2, <1>3 DEF Held

LEMMA CallKeepsTheRest ==
    ASSUME PairingAssumption, LinkingInv, NEW a \in Attempts, CallStep(a)
    PROVE  AfterTheCall' /\ Heard' /\ AnsweredExchangeIsReported'
<1> USE DEF LinkingInv, PairTypeOK, PairingAssumption, Attempts, CallStep, Begin, TakeFlag,
            PairPhone, GetQRChannel, Connect, Follow, Ask, GiveUp, Move
<1>1. AfterTheCall' BY DEF AfterTheCall
<1>2. Heard'
    <2> SUFFICES ASSUME NEW b \in Scans, line'[b] = "shut", said'[b] = "nothing"
                 PROVE  reader'[b] \in Outcomes \cup {"done"}
        BY DEF Heard
    <2>1. said' = said OBVIOUS
    <2>2. line[b] = "shut" OBVIOUS
    <2>3. reader[b] \in Outcomes \cup {"done"} BY <2>1, <2>2 DEF Heard
    <2>4. at[b] = "over" BY <2>3 DEF AfterTheCall, Outcomes
    <2> QED BY <2>3, <2>4
<1>3. AnsweredExchangeIsReported' BY DEF AnsweredExchangeIsReported
<1> QED BY <1>1, <1>2, <1>3

LEMMA CallKeepsOneBusy ==
    ASSUME PairingAssumption, LinkingInv, NEW a \in Attempts, CallStep(a)
    PROVE  OneBusy'
<1> SUFFICES ASSUME Quiet'
             PROVE  /\ \A b \in Scans : Exchanging(b)' => pairing'
                    /\ \A b, c \in Scans : (Exchanging(b)' /\ Exchanging(c)') => b = c
    BY DEF OneBusy
<1> USE DEF LinkingInv, PairTypeOK
<1>1. Quiet
    BY DEF Quiet, Attempts, CallStep, Begin, TakeFlag, PairPhone, GetQRChannel, Connect, Follow,
           Ask, GiveUp, Move
<1>2. /\ \A b \in Scans : Exchanging(b) => pairing
      /\ \A b, c \in Scans : (Exchanging(b) /\ Exchanging(c)) => b = c
    BY <1>1 DEF OneBusy
<1>3. \A b \in Scans : b # a => (Exchanging(b)' <=> Exchanging(b))
    BY DEF Attempts, Exchanging, Running, CallStep, Begin, TakeFlag, PairPhone, GetQRChannel,
            Connect, Follow, Ask, GiveUp, Move
<1>4. CASE a \in Phones
    <2>1. a \notin Scans BY <1>4 DEF PairingAssumption
    <2>2. pairing' = pairing
        BY <1>4, <2>1 DEF Quiet, CallStep, Begin, TakeFlag, PairPhone, GetQRChannel, Connect,
                          Follow, Ask, GiveUp, Move
    <2> QED BY <1>2, <1>3, <2>1, <2>2
<1>5. CASE a \in Scans
    <2>1. a \notin Phones BY <1>5 DEF PairingAssumption
    <2>2. CASE Exchanging(a)
        <3>1. \A b \in Scans : b # a => ~Exchanging(b) BY <1>2, <1>5, <2>2
        <3>2. pairing BY <1>2, <1>5, <2>2
        <3>3. Exchanging(a)' => pairing'
            BY <1>5, <2>1, <2>2, <3>2 DEF AfterTheCall, Exchanging, Running, Outcomes, CallStep,
                    Begin, TakeFlag, PairPhone, GetQRChannel, Connect, Follow, Ask, GiveUp, Move
        <3> QED BY <1>3, <3>1, <3>3
    <2>3. CASE ~Exchanging(a)
        <3>1. CASE Exchanging(a)'
            <4>1. ~pairing /\ pairing'
                BY <1>5, <2>1, <2>3, <3>1 DEF Exchanging, Running, Outcomes, CallStep, Begin,
                    TakeFlag, PairPhone, GetQRChannel, Connect, Follow, Ask, GiveUp, Move
            <4> QED BY <1>2, <1>3, <4>1
        <3>2. CASE ~Exchanging(a)'
            <4>1. pairing' = pairing
                BY <1>5, <2>1, <2>3, <3>2 DEF Exchanging, Running, Outcomes, CallStep, Begin,
                    TakeFlag, PairPhone, GetQRChannel, Connect, Follow, Ask, GiveUp, Move
            <4> QED BY <1>2, <1>3, <3>2, <4>1
        <3> QED BY <3>1, <3>2
    <2> QED BY <2>2, <2>3
<1> QED BY <1>4, <1>5 DEF Attempts

LEMMA CallKeepsLinking ==
    ASSUME PairingAssumption, LinkingInv, NEW a \in Attempts, CallStep(a)
    PROVE  LinkingInv'
<1>1. PairTypeOK' BY CallKeepsTypes DEF LinkingInv
<1> QED BY <1>1, CallKeepsHeld, CallKeepsTheRest, CallKeepsOneBusy DEF LinkingInv

-----------------------------------------------------------------------------
(* One step of a reader.                                                    *)
LEMMA ReaderKeepsLinking ==
    ASSUME PairingAssumption, LinkingInv, NEW a \in Attempts, consumeQR(a)
    PROVE  LinkingInv'
<1> USE DEF LinkingInv, PairTypeOK
<1>1. PairTypeOK'
    BY DEF consumeQR, Finish, Outcomes
<1>2. Held'
    <2>1. CASE pairing' = FALSE BY <2>1 DEF Held
    <2>2. CASE pairing' # FALSE
        BY <2>2 DEF Held, Holds, Running, consumeQR, Finish, Outcomes
    <2> QED BY <2>1, <2>2
<1>3. AfterTheCall'
    BY DEF AfterTheCall, Attempts, consumeQR, Finish, Outcomes
<1>4. Heard'
    BY DEF Heard, Attempts, consumeQR, Finish, Outcomes
<1>5. AnsweredExchangeIsReported'
    BY DEF Heard, AnsweredExchangeIsReported, Attempts, consumeQR, Finish, LifetimeIsOver,
           Outcomes
<1>6. OneBusy'
    <2> SUFFICES ASSUME Quiet'
                 PROVE  /\ \A b \in Scans : Exchanging(b)' => pairing'
                        /\ \A b, c \in Scans : (Exchanging(b)' /\ Exchanging(c)') => b = c
        BY DEF OneBusy
    <2>1. Running(a) BY DEF consumeQR, Running, Outcomes
    <2>2. Quiet /\ a \in Scans
        BY <2>1 DEF Quiet, Attempts, consumeQR, Finish, Running, Outcomes
    <2>3. \A b \in Scans : (Exchanging(b) => pairing) /\ (Exchanging(b) => b = a)
        BY <2>1, <2>2 DEF OneBusy, Exchanging
    <2>4. \A b \in Scans : b # a => (Exchanging(b)' <=> Exchanging(b))
        BY DEF Attempts, Exchanging, Running, consumeQR, Finish
    <2>5. Exchanging(a)' => pairing'
        <3>1. at[a] = "over" /\ at' = at
            BY <2>1, <2>2 DEF AfterTheCall, Running, Outcomes, consumeQR
        <3>2. pairing BY <2>1, <2>2, <2>3 DEF Exchanging
        <3> QED BY <3>1, <3>2 DEF Exchanging, Running, consumeQR, Finish, Outcomes
    <2> QED BY <2>3, <2>4, <2>5
<1> QED BY <1>1, <1>2, <1>3, <1>4, <1>5, <1>6

-----------------------------------------------------------------------------
(* A step of the library, of a client that leaves, or of the shutdown.      *)
LEMMA OthersKeepLinking ==
    ASSUME LinkingInv,
           \/ \E a \in Attempts : Draw(a) \/ RunOut(a) \/ LeaveEarly(a)
           \/ Accept \/ Drop \/ Shutdown
    PROVE  LinkingInv'
<1> USE DEF LinkingInv
<1>1. PairTypeOK'
    <2>1. CASE Accept \/ Drop \/ Shutdown
        BY <2>1 DEF PairTypeOK, Outcomes, Accept, Drop, Shutdown
    <2>2. ASSUME NEW a \in Attempts, Draw(a) PROVE PairTypeOK'
        BY <2>2 DEF PairTypeOK, Draw
    <2>3. ASSUME NEW a \in Attempts, RunOut(a) PROVE PairTypeOK'
        BY <2>3 DEF PairTypeOK, Outcomes, RunOut
    <2>4. ASSUME NEW a \in Attempts, LeaveEarly(a) PROVE PairTypeOK'
        BY <2>4 DEF PairTypeOK, LeaveEarly
    <2> QED BY <2>1, <2>2, <2>3, <2>4
<1>2. at' = at /\ reader' = reader /\ pairing' = pairing /\ said' = said
    BY DEF Draw, RunOut, LeaveEarly, Accept, Drop, Shutdown
<1>3. \A a \in Attempts : line'[a] = "shut" => line[a] = "shut"
    BY DEF PairTypeOK, Outcomes, Draw, RunOut, LeaveEarly, Accept, Drop, Shutdown
<1>4. stopped => stopped'
    BY DEF Draw, RunOut, LeaveEarly, Accept, Drop, Shutdown
<1>5. Held' /\ AfterTheCall' /\ OneBusy'
    BY <1>2 DEF Held, Holds, Running, AfterTheCall, OneBusy, Quiet, Exchanging
<1>6. Heard' BY <1>2, <1>3 DEF Heard, Attempts
<1>7. AnsweredExchangeIsReported' BY <1>2, <1>4 DEF AnsweredExchangeIsReported
<1> QED BY <1>1, <1>5, <1>6, <1>7

LEMMA StepKeepsLinking ==
    ASSUME PairingAssumption, LinkingInv, [PairNext]_pairVars
    PROVE  LinkingInv'
<1>1. CASE UNCHANGED pairVars
    BY <1>1 DEF pairVars, LinkingInv, PairTypeOK, Held, Holds, Running, AfterTheCall, OneBusy,
                Quiet, Exchanging,
                Heard, AnsweredExchangeIsReported
<1>2. CASE \E a \in Attempts : CallStep(a)
    BY <1>2, CallKeepsLinking
<1>3. CASE \E a \in Attempts : consumeQR(a)
    BY <1>3, ReaderKeepsLinking
<1>4. CASE \/ \E a \in Attempts : Draw(a) \/ RunOut(a) \/ LeaveEarly(a)
           \/ Accept \/ Drop \/ Shutdown
    BY <1>4, OthersKeepLinking
<1> QED BY <1>1, <1>2, <1>3, <1>4 DEF PairNext

-----------------------------------------------------------------------------
(* The variables of the client stay in their types.                         *)
THEOREM LinkingTyped == ASSUME PairingAssumption PROVE PairSpec => []PairTypeOK
<1>1. PairInit => LinkingInv BY InitLinkingInv
<1>2. LinkingInv /\ [PairNext]_pairVars => LinkingInv' BY StepKeepsLinking
<1>3. LinkingInv => PairTypeOK BY DEF LinkingInv
<1> QED BY <1>1, <1>2, <1>3, PTL DEF PairSpec

(* However many attempts there are, they do not cut each other, block each  *)
(* other or end unheard (StartPairing, PairPhone and consumeQR).            *)
THEOREM AttemptsAreOrderly == ASSUME PairingAssumption PROVE PairSpec => []ExchangesAreOrderly
<1>1. PairInit => LinkingInv BY InitLinkingInv
<1>2. LinkingInv /\ [PairNext]_pairVars => LinkingInv' BY StepKeepsLinking
<1>3. LinkingInv => ExchangesAreOrderly
    <2> SUFFICES ASSUME LinkingInv PROVE ExchangesAreOrderly OBVIOUS
    <2>1. FlagHasAHolder BY DEF LinkingInv, Held, Holds, FlagHasAHolder, Exchanging
    <2>2. OneExchangeOfCodes BY DEF LinkingInv, OneBusy, Quiet, OneExchangeOfCodes
    <2> QED BY <2>1, <2>2 DEF LinkingInv, ExchangesAreOrderly
<1> QED BY <1>1, <1>2, <1>3, PTL DEF PairSpec

-----------------------------------------------------------------------------
AddressInv == \A d \in Downloads : step[d].at \in {"fetch", "fresh"} => On(d) \in Addresses
FaultsInv  == faults \in 0 .. MaxFaults

LEMMA StepKeepsAddresses == ASSUME FetchInv, AddressInv, [Next]_vars PROVE AddressInv'
<1> USE DEF FetchInv, Questions, Files
<1>1. ASSUME step' = step PROVE AddressInv' BY <1>1 DEF AddressInv, On
<1>2. ASSUME NEW d \in Downloads, NEW s, NEW x, GoOn(d, s, x),
             s \in {"fetch", "fresh"} => x \in Addresses
      PROVE  AddressInv'
    BY <1>2 DEF GoOn, AddressInv, StepInv, On
<1>3. CASE \/ UNCHANGED vars \/ handleMediaRetry \/ CompleteAnswer \/ Expire \/ rememberMediaPayload
           \/ ClearCache \/ Close \/ \E d \in Downloads : SendFails(d)
    BY <1>1, <1>3 DEF vars, handleMediaRetry, CompleteAnswer, Expire, rememberMediaPayload,
                      ClearCache, Close, SendFails
<1>4. ASSUME NEW d \in Downloads,
             \/ Queue(d) \/ cacheMedia(d) \/ Fetch(d) \/ awaitMediaRetryPath(d) \/ Timeout(d)
             \/ FetchFresh(d) \/ Rename(d) \/ PutFile(d) \/ Record(d) \/ Cancel(d) \/ FetchFails(d)
      PROVE  AddressInv'
    <2>1. \E s, x : GoOn(d, s, x) /\ (s \in {"fetch", "fresh"} => x \in Addresses)
        BY <1>4 DEF Queue, cacheMedia, Fetch, awaitMediaRetryPath, Timeout, FetchFresh, Rename,
                    PutFile, Record, Cancel, FetchFails, Go, Addresses
    <2> QED BY <1>2, <2>1
<1>5. ASSUME NEW d \in Downloads, fetchStoredMedia(d) PROVE AddressInv'
    <2>1. \E s, x : GoOn(d, s, x) /\ (s \in {"fetch", "fresh"} => x \in Addresses)
        BY <1>5 DEF fetchStoredMedia, Go
    <2> QED BY <1>2, <2>1
<1>6. ASSUME NEW d \in Downloads, Resume(d) PROVE AddressInv'
    <2>1. result[On(d)] \in Downloads \cup {"error"}
        BY <1>6 DEF Resume, JoinInv, ResultInv
    <2>2. \E s, x : GoOn(d, s, x) /\ (s \in {"fetch", "fresh"} => x \in Addresses)
        BY <1>6, <2>1 DEF Resume, Go, Addresses
    <2> QED BY <1>2, <2>2
<1> QED BY <1>3, <1>4, <1>5, <1>6 DEF Next, Download

LEMMA StepKeepsFaults == ASSUME FaultsInv, [Next]_vars PROVE FaultsInv'
<1>1. faults' = faults \/ Fault
    BY DEF vars, Next, Download, Queue, cacheMedia, fetchStoredMedia, Fetch, awaitMediaRetryPath,
           SendFails, Resume, Timeout, Cancel, FetchFresh, Rename, PutFile, Record, FetchFails,
           handleMediaRetry, CompleteAnswer, Expire, rememberMediaPayload, ClearCache, Close
<1> QED BY <1>1, FetchAssumption DEF FaultsInv, Fault

FetchTypes == FetchInv /\ AddressInv /\ FaultsInv

LEMMA FetchIsTyped ==
    /\ Init => FetchTypes
    /\ FetchTypes /\ [Next]_vars => FetchTypes'
    /\ FetchTypes => TypeOK
<1>1. Init => FetchTypes
    <2>1. Init => AddressInv /\ FaultsInv
        BY FetchAssumption DEF Init, AddressInv, FaultsInv
    <2> QED BY <2>1, InitFetchInv DEF FetchTypes
<1>2. FetchTypes /\ [Next]_vars => FetchTypes'
    BY StepKeepsQuestions, StepKeepsFiles, StepKeepsAddresses, StepKeepsFaults
    DEF FetchTypes, FetchInv
<1>3. FetchTypes => TypeOK
    BY DEF FetchTypes, FetchInv, Questions, Files, StepInv, Steps, AddressInv, FaultsInv, JoinInv,
           QuestionInv, ResultInv, TypeOK
<1> QED BY <1>1, <1>2, <1>3

-----------------------------------------------------------------------------
(* The sweep of a connection (ConnectSweep). *)
RoundInv == sweep = "await" => round < Rounds

(* What a sweep waits for it has asked for itself.                          *)
AwaitInv == sweep = "await" => before = looked

SweepInv == Connection!TypeOK /\ RoundInv /\ Connection!FinishedByOwnLook /\ AwaitInv

LEMMA MaxOfTwo == ASSUME NEW i \in Int, NEW j \in Int
                  PROVE  Connection!Max({i, j}) = IF i > j THEN i ELSE j
<1> DEFINE m == IF i > j THEN i ELSE j
<1>1. m \in {i, j} /\ \A y \in {i, j} : m >= y OBVIOUS
<1>2. \A x \in {i, j} : (\A y \in {i, j} : x >= y) => x = m OBVIOUS
<1> QED BY <1>1, <1>2 DEF Connection!Max

LEMMA InitSweepInv == Connection!Init => SweepInv
<1> SUFFICES ASSUME Connection!Init PROVE SweepInv OBVIOUS
<1> USE DEF Connection!Init
<1>1. Pages \in Nat /\ Rounds \in Nat \ {0} /\ MaxRestarts \in Nat /\ Unmarked \notin 0 .. Pages
    BY ConnectionAssumption DEF Connection!SweepAssumption, Connection!Anchors
<1>2. RoundInv /\ AwaitInv /\ Connection!FinishedByOwnLook
   BY DEF RoundInv, AwaitInv, Connection!FinishedByOwnLook
<1>3. 0 \in 0 .. Pages /\ 0 \in 0 .. Rounds /\ 0 \in 0 .. MaxRestarts BY <1>1
<1>a. connected \in BOOLEAN /\ behind \in BOOLEAN OBVIOUS
<1>b. sweep \in {"idle", "catch up", "ask", "await", "end"} OBVIOUS
<1>c. round \in 0 .. Rounds BY <1>3
<1>d. before \in 0 .. stored OBVIOUS
<1>e. stored \in 0 .. Pages BY <1>3
<1>f. asked = {} /\ flight = {} /\ empty \in BOOLEAN OBVIOUS
<1>g. restarts \in 0 .. MaxRestarts  BY <1>3
<1>h. mark \in (0 .. Pages) \cup {Unmarked} /\ looked \in (0 .. Pages) \cup {Unmarked}
    OBVIOUS
<1>4. Connection!TypeOK
    BY <1>a, <1>b, <1>c, <1>d, <1>e, <1>f, <1>g, <1>h DEF Connection!TypeOK, Connection!Anchors
<1> QED BY <1>2, <1>4 DEF SweepInv

LEMMA StepKeepsSweep == ASSUME SweepInv, [Connection!Next]_connectionVars PROVE SweepInv'
<1>0. Pages \in Nat /\ Rounds \in Nat \ {0} /\ MaxRestarts \in Nat /\ Unmarked \notin 0 .. Pages
    BY ConnectionAssumption DEF Connection!SweepAssumption, Connection!Anchors
<1> USE <1>0 DEF Connection!Anchors, SweepInv, Connection!TypeOK, RoundInv, AwaitInv,
                 Connection!FinishedByOwnLook, Connection!page
<1>b. /\ stored \in 0 .. Pages /\ restarts \in 0 .. MaxRestarts
      /\ \A a \in flight : a \in 0 .. stored
    OBVIOUS
<1>a. stored \in Nat /\ 0 \in Nat /\ stored \in 0 .. stored /\ 0 \in 0 .. Rounds
    BY ONLY <1>0, <1>b
<1>1. CASE UNCHANGED connectionVars BY <1>1 DEF connectionVars
<1>2. CASE Connection!Connected BY <1>2, <1>a DEF Connection!Connected
<1>3. CASE Connection!Disconnected BY <1>3 DEF Connection!Disconnected
<1>4. CASE Connection!ChangedElsewhere BY <1>4 DEF Connection!ChangedElsewhere
<1>5. CASE Connection!Restart
    <2>3. restarts < MaxRestarts /\ restarts' = restarts + 1 BY <1>5 DEF Connection!Restart
    <2>1. restarts' \in 0 .. MaxRestarts BY ONLY <1>0, <1>b, <2>3
    <2>2. connected' \in BOOLEAN /\ sweep' = "idle" /\ asked' = {} BY <1>5 DEF Connection!Restart
    <2> QED BY <1>5, <2>1, <2>2 DEF Connection!Restart
<1>6. CASE Connection!ReaderAsks
    <2>1. asked' \subseteq 0 .. Pages /\ flight' \subseteq 0 .. stored
        BY <1>6, <1>a DEF Connection!ReaderAsks, Connection!Request
    <2> QED BY <1>6, <2>1 DEF Connection!ReaderAsks
<1>7. CASE Connection!Answer
    <2>1. PICK a \in flight :
              /\ flight' = flight \ {a}
              /\ stored' = IF a < Pages THEN Connection!Max({stored, a + 1}) ELSE stored
        BY <1>7 DEF Connection!Answer
    <2>2. a \in 0 .. stored /\ a \in Int /\ a + 1 \in Int /\ stored \in Int
        BY ONLY <2>1, <1>a, <1>b
    <2>3. Connection!Max({stored, a + 1}) = IF stored > a + 1 THEN stored ELSE a + 1
        BY <2>2, MaxOfTwo
    <2>4. stored' \in 0 .. Pages /\ stored <= stored' /\ stored' \in Nat
        BY ONLY <1>0, <1>a, <1>b, <2>1, <2>2, <2>3
    <2>5. 0 .. stored \subseteq 0 .. stored' BY ONLY <1>a, <2>4
    <2>6. UNCHANGED <<connected, behind, sweep, round, before, empty, asked, mark, restarts,
                    looked>>
        BY <1>7 DEF Connection!Answer
    <2> QED BY <2>1, <2>4, <2>5, <2>6
<1>8. CASE Connection!NoAnswer
    <2>1. PICK a \in flight : flight' = flight \ {a} BY <1>8 DEF Connection!NoAnswer
    <2>2. UNCHANGED <<connected, behind, sweep, round, before, empty, stored, asked, mark,
                      restarts, looked>>
        BY <1>8 DEF Connection!NoAnswer
    <2> QED BY <2>1, <2>2
<1>11. CASE Connection!MessageArrives BY <1>11 DEF Connection!MessageArrives
<1>9. CASE Connection!WindowEnds
    <2>1. PICK a \in asked : asked' = asked \ {a} BY <1>9 DEF Connection!WindowEnds
    <2>2. UNCHANGED <<connected, behind, sweep, round, before, empty, stored, flight, mark,
                      restarts, looked>>
        BY <1>9 DEF Connection!WindowEnds
    <2> QED BY <2>1, <2>2
<1>10. CASE Connection!SweepStep
    <2>1. CASE \/ Connection!catchUpAppState \/ Connection!SkipConversation
               \/ Connection!endConnectSweep
        <3>1. UNCHANGED <<connected, round, before, empty, stored, asked, flight, mark, restarts,
                          looked>>
            BY <2>1 DEF Connection!catchUpAppState, Connection!SkipConversation,
                        Connection!endConnectSweep
        <3>2. behind' \in BOOLEAN /\ sweep' \in {"ask", "end", "idle"}
            BY <2>1 DEF Connection!catchUpAppState, Connection!SkipConversation,
                        Connection!endConnectSweep
        <3> QED BY <3>1, <3>2
    <2>2. CASE Connection!RequestHistory
        <3>1. /\ UNCHANGED <<connected, behind, round, mark, restarts, stored, empty>>
              /\ before' = stored /\ ~empty /\ mark = Unmarked /\ round < Rounds
            BY <2>2 DEF Connection!RequestHistory, Connection!Looks
        <3>2. CASE sweep' = "end" /\ UNCHANGED <<asked, flight, looked>>
            BY <3>1, <3>2, <1>a
        <3>3. CASE /\ sweep' = "await" /\ looked' = stored
                   /\ asked' = asked \cup {stored} /\ flight' = flight \cup {stored}
            BY <3>1, <3>3, <1>a
        <3> QED BY <2>2, <3>2, <3>3 DEF Connection!RequestHistory, Connection!Request
    <2>5. CASE Connection!NothingToAskFrom
        BY <2>5, <1>a DEF Connection!NothingToAskFrom, Connection!Looks, Connection!Finish
    <2>3. CASE Connection!PageArrived BY <2>3 DEF Connection!PageArrived, Connection!At
    <2>4. CASE Connection!PageTimeout
        BY <2>4 DEF Connection!PageTimeout, Connection!At, Connection!Finish
    <2> QED BY <1>10, <2>1, <2>2, <2>3, <2>4, <2>5 DEF Connection!SweepStep
<1> QED BY <1>1, <1>2, <1>3, <1>4, <1>5, <1>6, <1>7, <1>8, <1>9, <1>10, <1>11
    DEF Connection!Next

-----------------------------------------------------------------------------
(* The account's settings (AppState). *)
Stages == Account!Steps \cup {None}

LEMMA NoneIsNoStage == None \notin Account!Steps
BY AccountAssumption DEF Account!AppStateAssumption

ThenInv == then \in [Account!Callers -> {None, "catch up"}]

(* Before the phone is known to have been asked, each request of the day is *)
(* one somebody is about to record, or one a restart kept from being        *)
(* recorded; after that only who had looked before may still ask.           *)
ToRecord(c) == IF stage[c] = "record" THEN 1 ELSE 0
ToAsk(c)    == IF stage[c] = "ask" THEN 1 ELSE 0
AsksInv ==
    /\ asks \in Nat /\ crashes \in Nat
    /\ ~noted => asks <= 2 * crashes + ToRecord("sweep") + ToRecord("change")
    /\ noted => asks + ToAsk("sweep") + ToAsk("change") <= 2 * (1 + crashes)

AccountInv == Account!TypeOK /\ ThenInv /\ AsksInv /\ Account!MarkIsEarned

LEMMA InitAccountInv == Account!Init => AccountInv
<1> SUFFICES ASSUME Account!Init PROVE AccountInv OBVIOUS
<1> USE DEF Account!Init, Account!Callers
<1>1. MaxTroubles \in Nat /\ MaxRequests \in Nat
    BY AccountAssumption DEF Account!AppStateAssumption
<1>2. stage = [c \in {"sweep", "change"} |-> None] /\ then = [c \in {"sweep", "change"} |-> None]
    OBVIOUS
<1>3. Account!TypeOK BY <1>1, <1>2 DEF Account!TypeOK
<1>4. ThenInv BY <1>2 DEF ThenInv
<1>5. asks = 0 /\ crashes = 0 /\ ~noted /\ ToRecord("sweep") \in Nat /\ ToRecord("change") \in Nat
    BY DEF ToRecord
<1>6. AsksInv BY <1>5 DEF AsksInv
<1> QED BY <1>3, <1>4, <1>6 DEF AccountInv, Account!MarkIsEarned

(* A step of one caller that neither sends nor records a request.           *)
LEMMA CallerMoves ==
    ASSUME AccountInv, NEW c \in Account!Callers, NEW s \in Stages \ {"record"},
           stage[c] # "record", stage' = [stage EXCEPT ![c] = s], s = "ask" => ~noted,
           then' \in [Account!Callers -> {None, "catch up"}],
           UNCHANGED <<noted, requests, asks, crashes>>, troubles' \in 0 .. MaxTroubles,
           copy' \in {"sound", "drifted", "torn", "empty"}, done' => whole'
    PROVE  AccountInv'
<1>1. stage \in [Account!Callers -> Stages]
    BY DEF AccountInv, Account!TypeOK, Stages
<1>2. stage' \in [Account!Callers -> Stages] BY <1>1
<1>3. Account!TypeOK' BY <1>2 DEF AccountInv, Account!TypeOK, Stages
<1>4. \A d \in {"sweep", "change"} : ToRecord(d)' = ToRecord(d)
    BY <1>1 DEF ToRecord, Account!Callers
<1>5. ASSUME noted, NEW d \in {"sweep", "change"}
      PROVE  ToAsk(d)' <= ToAsk(d) /\ ToAsk(d) \in Nat /\ ToAsk(d)' \in Nat
    <2>1. d \in Account!Callers BY DEF Account!Callers
    <2>2. CASE d = c
        <3>1. stage'[d] = s /\ s # "ask" BY <1>1, <1>5, <2>1, <2>2
        <3>2. ToAsk(d)' = 0 /\ ToAsk(d) \in {0, 1} BY <3>1 DEF ToAsk
        <3> QED BY ONLY <3>2
    <2>3. CASE d # c
        <3>1. stage'[d] = stage[d] BY <1>1, <2>1, <2>3
        <3>2. ToAsk(d)' = ToAsk(d) /\ ToAsk(d) \in {0, 1} BY <3>1 DEF ToAsk
        <3> QED BY ONLY <3>2
    <2> QED BY <2>2, <2>3
<1>6. AsksInv'
    <2>1. CASE noted
        <3>1. /\ ToAsk("sweep")' <= ToAsk("sweep") /\ ToAsk("change")' <= ToAsk("change")
              /\ {ToAsk("sweep"), ToAsk("change"), ToAsk("sweep")', ToAsk("change")'} \subseteq Nat
            BY <1>5, <2>1
        <3>2. /\ asks \in Nat /\ crashes \in Nat
              /\ asks + ToAsk("sweep") + ToAsk("change") <= 2 * (1 + crashes)
            BY <2>1 DEF AccountInv, AsksInv
        <3>3. asks + ToAsk("sweep")' + ToAsk("change")' <= 2 * (1 + crashes)
            BY ONLY <3>1, <3>2
        <3> QED BY <2>1, <3>2, <3>3 DEF AsksInv
    <2>2. CASE ~noted BY <1>4, <2>2 DEF AccountInv, AsksInv
    <2> QED BY <2>1, <2>2
<1> QED BY <1>3, <1>6 DEF AccountInv, ThenInv, Account!MarkIsEarned

(* A step of the world that leaves the callers where they are.              *)
LEMMA WorldMoves ==
    ASSUME AccountInv, UNCHANGED <<stage, then, noted, asks, crashes>>,
           requests' \in 0 .. MaxRequests, troubles' \in 0 .. MaxTroubles,
           copy' \in {"sound", "drifted", "torn", "empty"}, done' => whole'
    PROVE  AccountInv'
BY DEF AccountInv, Account!TypeOK, ThenInv, AsksInv, ToRecord, ToAsk, Account!MarkIsEarned

LEMMA TroublesCount == ASSUME AccountInv PROVE Account!Trouble => troubles' \in 0 .. MaxTroubles
<1>1. troubles \in 0 .. MaxTroubles /\ MaxTroubles \in Nat
    BY AccountAssumption DEF AccountInv, Account!TypeOK, Account!AppStateAssumption
<1> QED BY <1>1 DEF Account!Trouble

LEMMA SweepKeepsAccount ==
    ASSUME AccountInv, \/ Account!Connected \/ Account!Sweep \/ Account!Change
                       \/ Account!sendAppStatePatch("send", "fetch") \/ Account!Resync
                       \/ Account!sendAppStatePatch("resend", None)
    PROVE  AccountInv'
<1>1. /\ then \in [Account!Callers -> {None, "catch up"}] /\ (done => whole)
      /\ copy \in {"sound", "drifted", "torn", "empty"} /\ troubles \in 0 .. MaxTroubles
      /\ {"sweep", "change"} = Account!Callers
    BY DEF AccountInv, ThenInv, Account!TypeOK, Account!MarkIsEarned, Account!Callers
<1>2. UNCHANGED <<noted, requests, troubles, asks, crashes>>
    BY DEF Account!Connected, Account!Sweep, Account!backfillAppState, Account!catchUpAppState,
           Account!catchUpWhole, Account!Change, Account!sendAppStatePatch, Account!Resync,
           Account!Rest
<1>3. copy' \in {"sound", "drifted", "torn", "empty"} /\ (done' => whole')
    BY <1>1 DEF Account!Connected, Account!Sweep, Account!backfillAppState, Account!catchUpAppState,
           Account!catchUpWhole, Account!Change, Account!sendAppStatePatch, Account!Resync,
           Account!FetchWhole, Account!FetchNew, Account!Whole, Account!Torn, Account!account
<1>4. ASSUME NEW c \in Account!Callers, NEW s \in Stages \ {"record", "ask"},
             stage[c] # "record", stage' = [stage EXCEPT ![c] = s],
             then' \in [Account!Callers -> {None, "catch up"}]
      PROVE  AccountInv'
    BY <1>1, <1>2, <1>3, <1>4, CallerMoves
<1>5. ASSUME NEW c \in Account!Callers, stage[c] \notin {"record"},
             NEW x \in Stages \ {"record", "ask"}, NEW y \in Stages \ {"record", "ask"},
             NEW z \in {None, "catch up"}, Account!FetchWhole(c, x, y, z)
      PROVE  AccountInv'
    <2>1. CASE Account!Go(c, x) BY <1>1, <1>4, <1>5, <2>1 DEF Account!Go
    <2>2. CASE Account!Go(c, y) BY <1>1, <1>4, <1>5, <2>2 DEF Account!Go
    <2>3. CASE Account!Go(c, z)
        BY <1>1, <1>4, <1>5, <2>3, NoneIsNoStage DEF Account!Go, Stages, Account!Steps
    <2>4. CASE /\ stage' = [stage EXCEPT ![c] = "recover"] /\ then' = [then EXCEPT ![c] = z]
        <3>1. then' \in [Account!Callers -> {None, "catch up"}] BY <1>1, <1>5, <2>4
        <3> QED BY <1>4, <1>5, <2>4, <3>1 DEF Stages, Account!Steps
    <2> QED BY <1>5, <2>1, <2>2, <2>3, <2>4 DEF Account!FetchWhole
<1>6. ASSUME NEW c \in Account!Callers, stage[c] \notin {"record"},
             NEW x \in Stages \ {"record", "ask"}, Account!Go(c, x)
      PROVE  AccountInv'
    BY <1>1, <1>4, <1>6 DEF Account!Go
<1>7. {None, "send", "fetch", "catch up", "resend", "refetch", "recover", "back-fill"}
    \subseteq Stages \ {"record", "ask"}
    BY NoneIsNoStage DEF Stages, Account!Steps
<1>8. CASE Account!Connected
    <2>1. stage["sweep"] # "record" /\ Account!Go("sweep", "back-fill")
        BY <1>8, NoneIsNoStage DEF Account!Connected, Account!At, Account!Steps
    <2> QED BY <1>1, <1>6, <1>7, <2>1
<1>9. CASE Account!Sweep
    <2>1. \/ Account!Go("sweep", "catch up") \/ Account!Go("sweep", None)
          \/ Account!FetchWhole("sweep", "catch up", "recover", "catch up")
          \/ Account!FetchNew("sweep", None, "refetch", None)
          \/ Account!FetchWhole("sweep", None, "recover", None)
        BY <1>9 DEF Account!Sweep, Account!backfillAppState, Account!catchUpAppState,
                    Account!catchUpWhole
    <2>2. stage["sweep"] # "record"
        BY <1>9 DEF Account!Sweep, Account!backfillAppState, Account!catchUpAppState,
                    Account!catchUpWhole, Account!At
    <2>3. CASE Account!FetchNew("sweep", None, "refetch", None)
        BY <1>1, <1>6, <1>7, <2>2, <2>3 DEF Account!FetchNew
    <2>4. CASE \/ Account!FetchWhole("sweep", "catch up", "recover", "catch up")
               \/ Account!FetchWhole("sweep", None, "recover", None)
        BY <1>1, <1>5, <1>7, <2>2, <2>4
    <2>5. CASE Account!Go("sweep", "catch up") \/ Account!Go("sweep", None)
        BY <1>1, <1>6, <1>7, <2>2, <2>5
    <2> QED BY <2>1, <2>3, <2>4, <2>5
<1>10. CASE \/ Account!Change \/ Account!sendAppStatePatch("send", "fetch")
            \/ Account!sendAppStatePatch("resend", None)
    <2>1. \/ Account!Go("change", "send") \/ Account!Go("change", None)
          \/ Account!Go("change", "fetch")
        BY <1>10 DEF Account!Change, Account!sendAppStatePatch
    <2>2. stage["change"] # "record"
        BY <1>10, NoneIsNoStage DEF Account!Change, Account!sendAppStatePatch, Account!At,
                                    Account!Steps
    <2> QED BY <1>1, <1>6, <1>7, <2>1, <2>2
<1>11. CASE Account!Resync
    <2>1. /\ stage["change"] # "record"
          /\ Account!FetchWhole("change", "resend", "recover", None)
        BY <1>11 DEF Account!Resync, Account!At
    <2> QED BY <1>1, <1>5, <1>7, <2>1
<1> QED BY <1>8, <1>9, <1>10, <1>11

LEMMA RecoveryKeepsAccount ==
    ASSUME AccountInv, NEW c \in Account!Callers, Account!Recover(c)
    PROVE  AccountInv'
<1>1. /\ stage \in [Account!Callers -> Stages] /\ requests \in 0 .. MaxRequests
      /\ then \in [Account!Callers -> {None, "catch up"}] /\ (done => whole)
      /\ copy \in {"sound", "drifted", "torn", "empty"} /\ troubles \in 0 .. MaxTroubles
    BY DEF AccountInv, ThenInv, Account!TypeOK, Account!MarkIsEarned, Stages
<1>2. asks \in Nat /\ crashes \in Nat BY DEF AccountInv, AsksInv
<1>3. None \notin {"recover", "ask", "record"} BY NoneIsNoStage DEF Account!Steps
<1>4. \A d \in {"sweep", "change"} : {ToRecord(d), ToAsk(d)} \subseteq {0, 1}
    BY DEF ToRecord, ToAsk
<1>5. Account!Leave(c) => /\ stage' = [stage EXCEPT ![c] = then[c]]
                          /\ then[c] \in {None, "catch up"}
                          /\ then' \in [Account!Callers -> {None, "catch up"}]
    BY <1>1 DEF Account!Leave
<1>6. CASE Account!CheckAsked(c)
    <2>1. stage[c] = "recover" /\ UNCHANGED <<noted, requests, asks, crashes, troubles, copy, done,
                                              whole>>
        BY <1>6 DEF Account!CheckAsked, Account!At, Account!Rest, Account!account
    <2>2. \E s \in Stages \ {"record"} :
              stage' = [stage EXCEPT ![c] = s] /\ (s = "ask" => ~noted)
        <3>1. CASE noted
            <4>1. Account!Leave(c) BY <1>6, <3>1 DEF Account!CheckAsked
            <4> QED BY <1>3, <1>5, <4>1 DEF Stages, Account!Steps
        <3>2. CASE ~noted
            BY <1>6, <3>2 DEF Account!CheckAsked, Account!Go, Stages, Account!Steps
        <3> QED BY <3>1, <3>2
    <2>3. then' \in [Account!Callers -> {None, "catch up"}]
        BY <1>1, <1>5, <1>6 DEF Account!CheckAsked, Account!Go
    <2> QED BY <1>1, <2>1, <2>2, <2>3, CallerMoves
<1>7. CASE Account!AskPhone(c)
    <2>1. /\ stage[c] = "ask" /\ stage' = [stage EXCEPT ![c] = "record"] /\ asks' = asks + 1
          /\ requests' = (IF requests < MaxRequests THEN requests + 1 ELSE requests)
          /\ UNCHANGED <<noted, then, crashes, troubles, copy, done, whole>>
        BY <1>7 DEF Account!AskPhone, Account!At, Account!Go, Account!account
    <2>2. MaxRequests \in Nat BY AccountAssumption DEF Account!AppStateAssumption
    <2>a. requests \in 0 .. MaxRequests BY <1>1
    <2>3. requests' \in 0 .. MaxRequests BY ONLY <2>a, <2>1, <2>2
    <2>4. Account!TypeOK'
        BY <1>1, <2>1, <2>3 DEF Account!TypeOK, Stages, Account!Steps
    <2>5. /\ ToAsk(c) = 1 /\ ToAsk(c)' = 0 /\ ToRecord(c) = 0 /\ ToRecord(c)' = 1
          /\ \A d \in Account!Callers : d # c => ToAsk(d)' = ToAsk(d) /\ ToRecord(d)' = ToRecord(d)
        BY <1>1, <2>1 DEF ToAsk, ToRecord
    <2>6. /\ ToAsk("sweep")' + ToAsk("change")' = ToAsk("sweep") + ToAsk("change") - 1
          /\ ToRecord("sweep")' + ToRecord("change")' = ToRecord("sweep") + ToRecord("change") + 1
        BY <1>4, <2>5 DEF Account!Callers
    <2>7. /\ asks' \in Nat /\ crashes' \in Nat /\ crashes' = crashes /\ asks' = asks + 1
          /\ noted' = noted /\ {ToRecord("sweep"), ToRecord("change")} \subseteq {0, 1}
        BY <1>2, <1>4, <2>1
    <2>8. ASSUME noted PROVE AsksInv'
        <3>1. asks + ToAsk("sweep") + ToAsk("change") <= 2 * (1 + crashes)
            BY <2>8 DEF AccountInv, AsksInv
        <3>2. asks' + ToAsk("sweep")' + ToAsk("change")' <= 2 * (1 + crashes')
            <4>1. {ToAsk("sweep"), ToAsk("change"), ToAsk("sweep")', ToAsk("change")'}
                \subseteq {0, 1}
                BY DEF ToAsk
            <4> QED BY ONLY <1>2, <2>6, <2>7, <3>1, <4>1
        <3> QED BY <2>7, <2>8, <3>2 DEF AsksInv
    <2>9. ASSUME ~noted PROVE AsksInv'
        <3>1. asks <= 2 * crashes + ToRecord("sweep") + ToRecord("change")
            BY <2>9 DEF AccountInv, AsksInv
        <3>2. asks' <= 2 * crashes' + ToRecord("sweep")' + ToRecord("change")'
            <4>1. {ToRecord("sweep"), ToRecord("change"), ToRecord("sweep")', ToRecord("change")'}
                      \subseteq {0, 1}
                BY DEF ToRecord
            <4> QED BY ONLY <1>2, <2>6, <2>7, <3>1, <4>1
        <3> QED BY <2>7, <2>9, <3>2 DEF AsksInv
    <2>10. AsksInv' BY <2>8, <2>9
    <2> QED BY <1>1, <2>1, <2>4, <2>10 DEF AccountInv, ThenInv, Account!MarkIsEarned
<1>8. CASE Account!RecordAsked(c)
    <2>1. /\ stage[c] = "record" /\ stage' = [stage EXCEPT ![c] = then[c]] /\ noted' = TRUE
          /\ then' \in [Account!Callers -> {None, "catch up"}] /\ then[c] \in {None, "catch up"}
          /\ UNCHANGED <<requests, asks, crashes, troubles, copy, done, whole>>
        BY <1>5, <1>8 DEF Account!RecordAsked, Account!At, Account!account
    <2>2. Account!TypeOK'
        BY <1>1, <2>1 DEF Account!TypeOK, Stages, Account!Steps
    <2>3. /\ ToAsk(c)' = 0 /\ ToAsk(c) = 0
          /\ \A d \in Account!Callers : d # c => ToAsk(d)' = ToAsk(d)
        BY <1>1, <1>3, <2>1 DEF ToAsk
    <2>4. \A d \in Account!Callers : ToAsk(d)' = ToAsk(d) /\ ToAsk(d) + ToRecord(d) <= 1
        BY <2>3 DEF ToAsk, ToRecord
    <2>b. AsksInv BY DEF AccountInv
    <2>c. /\ ToAsk("sweep")' = ToAsk("sweep") /\ ToAsk("sweep") + ToRecord("sweep") <= 1
          /\ ToAsk("change")' = ToAsk("change") /\ ToAsk("change") + ToRecord("change") <= 1
        BY <2>4 DEF Account!Callers
    <2>d. /\ asks' \in Nat /\ crashes' \in Nat /\ crashes' = crashes /\ asks' = asks /\ noted'
          /\ {ToRecord("sweep"), ToRecord("change"), ToAsk("sweep"), ToAsk("change")}
             \subseteq {0, 1}
        BY <1>2, <1>4, <2>1
    <2>e. asks' + ToAsk("sweep")' + ToAsk("change")' <= 2 * (1 + crashes')
        <3>1. CASE noted
            <4>1. asks + ToAsk("sweep") + ToAsk("change") <= 2 * (1 + crashes)
                BY <2>b, <3>1 DEF AsksInv
            <4> QED BY ONLY <1>2, <2>c, <2>d, <4>1
        <3>2. CASE ~noted
            <4>1. asks <= 2 * crashes + ToRecord("sweep") + ToRecord("change")
                BY <2>b, <3>2 DEF AsksInv
            <4> QED BY ONLY <1>2, <2>c, <2>d, <4>1
        <3> QED BY <3>1, <3>2
    <2>5. AsksInv' BY <2>d, <2>e DEF AsksInv
    <2> QED BY <1>1, <2>1, <2>2, <2>5 DEF AccountInv, ThenInv, Account!MarkIsEarned
<1> QED BY <1>6, <1>7, <1>8 DEF Account!Recover

LEMMA StepKeepsAccount == ASSUME AccountInv, [Account!Next]_accountVars PROVE AccountInv'
<1>1. /\ requests \in 0 .. MaxRequests /\ troubles \in 0 .. MaxTroubles /\ (done => whole)
      /\ copy \in {"sound", "drifted", "torn", "empty"} /\ stage \in [Account!Callers -> Stages]
      /\ then \in [Account!Callers -> {None, "catch up"}]
    BY DEF AccountInv, ThenInv, Account!TypeOK, Account!MarkIsEarned, Stages
<1>2. requests \in 0 .. MaxRequests BY <1>1
<1>a. MaxRequests \in Nat BY AccountAssumption DEF Account!AppStateAssumption
<1>3. requests > 0 => requests - 1 \in 0 .. MaxRequests BY ONLY <1>2, <1>a
<1>4. asks \in Nat /\ crashes \in Nat BY DEF AccountInv, AsksInv
<1>5. CASE UNCHANGED accountVars BY <1>1, <1>5, WorldMoves DEF accountVars
<1>6. CASE \/ Account!Connected \/ Account!Sweep \/ Account!Change \/ Account!Resync
           \/ Account!sendAppStatePatch("send", "fetch")
           \/ Account!sendAppStatePatch("resend", None)
    BY <1>6, SweepKeepsAccount
<1>7. CASE \E c \in Account!Callers : Account!Recover(c) BY <1>7, RecoveryKeepsAccount
<1>8. CASE Account!PhoneAnswers
    BY <1>1, <1>3, <1>8, WorldMoves DEF Account!PhoneAnswers, Account!Whole, Account!calls
<1>9. CASE Account!DayPasses
    <2>1. /\ ~noted' /\ asks' = 0
          /\ UNCHANGED <<stage, then, crashes, requests, troubles, copy, done, whole>>
        BY <1>9 DEF Account!DayPasses, Account!account, Account!calls
    <2>2. ToRecord("sweep")' \in Nat /\ ToRecord("change")' \in Nat BY DEF ToRecord
    <2>3. AsksInv' BY <1>4, <2>1, <2>2 DEF AsksInv
    <2> QED BY <2>1, <2>3 DEF AccountInv, Account!TypeOK, ThenInv, Account!MarkIsEarned
<1>10. CASE Account!KeyComes \/ Account!Drift \/ Account!RequestLost
    <2>1. troubles' \in 0 .. MaxTroubles
        BY <1>1, <1>10, TroublesCount DEF Account!KeyComes, Account!Drift, Account!RequestLost
    <2>2. /\ requests' \in 0 .. MaxRequests /\ copy' \in {"sound", "drifted", "torn", "empty"}
          /\ (done' => whole') /\ UNCHANGED <<stage, then, noted, asks, crashes>>
        <3>1. CASE Account!KeyComes BY <1>1, <3>1 DEF Account!KeyComes, Account!calls
        <3>3. CASE Account!Drift BY <1>1, <3>3 DEF Account!Drift, Account!calls
        <3>2. CASE Account!RequestLost
            BY <1>1, <1>3, <3>2 DEF Account!RequestLost, Account!account, Account!calls
        <3> QED BY <1>10, <3>1, <3>2, <3>3
    <2> QED BY <2>1, <2>2, WorldMoves
<1>11. CASE Account!Restart
    <2>1. /\ stage' = [c \in Account!Callers |-> None] /\ then' = [c \in Account!Callers |-> None]
          /\ crashes' = crashes + 1 /\ UNCHANGED <<noted, requests, asks, copy, done, whole>>
        BY <1>11 DEF Account!Restart, Account!account
    <2>2. troubles' \in 0 .. MaxTroubles BY <1>11, TroublesCount DEF Account!Restart
    <2>3. Account!TypeOK' BY <1>1, <2>1, <2>2 DEF Account!TypeOK
    <2>4. /\ {ToRecord("sweep")', ToRecord("change")'} \subseteq Nat
          /\ {ToRecord("sweep"), ToRecord("change")} \subseteq {0, 1}
          /\ {ToAsk("sweep"), ToAsk("change")} \subseteq Nat
        BY DEF ToRecord, ToAsk
    <2>5. ToAsk("sweep")' = 0 /\ ToAsk("change")' = 0
        BY <2>1, NoneIsNoStage DEF ToAsk, Account!Callers, Account!Steps
    <2>6. AsksInv BY DEF AccountInv
    <2>7. AsksInv' BY ONLY <1>4, <2>1, <2>4, <2>5, <2>6 DEF AsksInv
    <2> QED BY <2>1, <2>3, <2>7, <1>1 DEF AccountInv, ThenInv, Account!MarkIsEarned
<1>12. ASSUME NEW c \in Account!Callers, Account!Unreachable(c) PROVE AccountInv'
    <2>1. stage[c] # "record" BY <1>12, NoneIsNoStage DEF Account!Unreachable
    <2>2. troubles' \in 0 .. MaxTroubles BY <1>12, TroublesCount DEF Account!Unreachable
    <2>3. UNCHANGED <<noted, requests, asks, crashes, copy, done, whole>>
        BY <1>12 DEF Account!Unreachable, Account!account
    <2>4. then[c] \in {None, "catch up"} BY <1>1
    <2>5. \E s \in {None, "catch up"} :
              stage' = [stage EXCEPT ![c] = s] /\ then' \in [Account!Callers -> {None, "catch up"}]
        BY <1>1, <1>12, <2>4 DEF Account!Unreachable, Account!Leave, Account!Go
    <2>6. {None, "catch up"} \subseteq Stages \ {"record", "ask"}
        BY NoneIsNoStage DEF Stages, Account!Steps
    <2> QED BY <1>1, <2>1, <2>2, <2>3, <2>5, <2>6, CallerMoves
<1> QED
    BY <1>5, <1>6, <1>7, <1>8, <1>9, <1>10, <1>11, <1>12 DEF Account!Next

LEMMA NobodyIsPestered == AccountInv => Account!PhoneIsNotPestered
<1>1. {ToRecord("sweep"), ToRecord("change")} \subseteq {0, 1}
    /\ {ToAsk("sweep"), ToAsk("change")} \subseteq Nat
    BY DEF ToRecord, ToAsk
<1> QED BY <1>1 DEF AccountInv, AsksInv, Account!PhoneIsNotPestered

-----------------------------------------------------------------------------
(* Without takes out one place of a sequence.                               *)
LEMMA WithoutIs ==
    ASSUME NEW S, NEW s \in Seq(S), NEW x
    PROVE  LET t == Desk!Without(s, x) IN
           /\ t \in Seq(S) /\ Len(t) <= Len(s)
           /\ Desk!Range(t) \subseteq Desk!Range(s)
           /\ Desk!Range(s) \subseteq Desk!Range(t) \cup {x}
           /\ Desk!IsInjective(s) => Desk!IsInjective(t) /\ x \notin Desk!Range(t)
<1> DEFINE t == Desk!Without(s, x)
<1>1. CASE x \notin Desk!Range(s)
    <2>1. t = s BY <1>1 DEF Desk!Without
    <2> QED BY <1>1, <2>1
<1>2. CASE x \in Desk!Range(s)
    <2> DEFINE k == CHOOSE i \in DOMAIN s : s[i] = x
    <2>1. k \in 1 .. Len(s) /\ s[k] = x BY <1>2 DEF Desk!Range
    <2>2. t = SubSeq(s, 1, k - 1) \o SubSeq(s, k + 1, Len(s))
        BY <1>2 DEF Desk!Without, Desk!RemoveAt
    <2> DEFINE u == SubSeq(s, 1, k - 1)
               v == SubSeq(s, k + 1, Len(s))
    <2> HIDE DEF k, t
    <2>3. Len(s) \in Nat /\ k \in Int /\ k >= 1 /\ k <= Len(s) BY <2>1
    <2>4. u \in Seq(S) /\ v \in Seq(S) /\ Len(u) = k - 1 /\ Len(v) = Len(s) - k BY <2>1, <2>3
    <2>5. /\ \A i \in 1 .. k - 1 : u[i] = s[i]
          /\ \A i \in 1 .. Len(s) - k : v[i] = s[k + i]
        BY <2>1, <2>3
    <2> HIDE DEF u, v
    <2>b. t = u \o v BY <2>2 DEF u, v
    <2>g. Len(t) = Len(u) + Len(v) BY <2>b, <2>4, ConcatProperties
    <2>c. Len(t) = (k - 1) + (Len(s) - k) BY ONLY <2>g, <2>4
    <2>d. t \in Seq(S) BY ONLY <2>b, <2>4
    <2>e. \A i \in 1 .. Len(t) : t[i] = IF i <= k - 1 THEN u[i] ELSE v[i - (k - 1)]
        BY ONLY <2>b, <2>3, <2>4
    <2>6. t \in Seq(S) /\ Len(t) = Len(s) - 1 BY ONLY <2>c, <2>d, <2>3
    <2>7. ASSUME NEW i \in 1 .. Len(t) PROVE t[i] = IF i < k THEN s[i] ELSE s[i + 1]
        <3>1. i \in Int /\ i >= 1 /\ i <= Len(s) - 1 BY ONLY <2>3, <2>6, <2>7
        <3>2. CASE i < k
            <4>1. i \in 1 .. k - 1 /\ i <= k - 1 BY ONLY <2>3, <3>1, <3>2
            <4> QED BY <2>5, <2>e, <2>7, <3>2, <4>1
        <3>3. CASE ~(i < k)
            <4>1. /\ i - (k - 1) \in 1 .. Len(s) - k /\ ~(i <= k - 1)
                  /\ k + (i - (k - 1)) = i + 1
                BY ONLY <2>3, <3>1, <3>3
            <4> QED BY <2>5, <2>e, <2>7, <3>3, <4>1
        <3> QED BY <3>2, <3>3
    <2>8. \A i \in 1 .. Len(s) : i # k => \E j \in 1 .. Len(t) : t[j] = s[i]
        <3> SUFFICES ASSUME NEW i \in 1 .. Len(s), i # k
                     PROVE  \E j \in 1 .. Len(t) : t[j] = s[i]
            OBVIOUS
        <3>1. CASE i < k
            <4>1. i \in 1 .. Len(t) /\ t[i] = s[i] BY <2>1, <2>3, <2>6, <2>7, <3>1
            <4> QED BY <4>1
        <3>2. CASE i > k
            <4>1. i - 1 \in 1 .. Len(t) BY <2>1, <2>3, <2>6, <3>2
            <4>2. ~(i - 1 < k) /\ (i - 1) + 1 = i BY <2>3, <3>2
            <4>3. t[i - 1] = s[i] BY <2>7, <4>1, <4>2
            <4> QED BY <4>1, <4>3
        <3> QED BY <2>3, <3>1, <3>2
    <2>9. \A i \in 1 .. Len(t) : \E j \in 1 .. Len(s) :
              j # k /\ t[i] = s[j] /\ j = IF i < k THEN i ELSE i + 1
        <3> SUFFICES ASSUME NEW i \in 1 .. Len(t)
                     PROVE  \E j \in 1 .. Len(s) : j # k /\ t[i] = s[j]
                                                   /\ j = IF i < k THEN i ELSE i + 1
            OBVIOUS
        <3>1. CASE i < k
            <4>1. i \in 1 .. Len(s) /\ i # k /\ t[i] = s[i] BY <2>3, <2>6, <2>7, <3>1
            <4> QED BY <3>1, <4>1
        <3>2. CASE ~(i < k)
            <4>1. i + 1 \in 1 .. Len(s) /\ i + 1 # k /\ t[i] = s[i + 1] BY <2>3, <2>6, <2>7, <3>2
            <4> QED BY <3>2, <4>1
        <3> QED BY <3>1, <3>2
    <2>a. DOMAIN t = 1 .. Len(t) /\ DOMAIN s = 1 .. Len(s) BY <2>6
    <2>10. Desk!Range(t) \subseteq Desk!Range(s)
        BY <2>9, <2>a DEF Desk!Range
    <2>11. Desk!Range(s) \subseteq Desk!Range(t) \cup {x}
        BY <2>1, <2>8, <2>a DEF Desk!Range
    <2>12. ASSUME Desk!IsInjective(s) PROVE Desk!IsInjective(t) /\ x \notin Desk!Range(t)
        <3>1. \A i, j \in 1 .. Len(s) : s[i] = s[j] => i = j BY <2>12, <2>a DEF Desk!IsInjective
        <3>2. x \notin Desk!Range(t) BY <2>1, <2>9, <2>a, <3>1 DEF Desk!Range
        <3>3. ASSUME NEW i \in 1 .. Len(t), NEW j \in 1 .. Len(t), t[i] = t[j] PROVE i = j
            <4>1. PICK m \in 1 .. Len(s) : t[i] = s[m] /\ m = IF i < k THEN i ELSE i + 1 BY <2>9
            <4>2. PICK n \in 1 .. Len(s) : t[j] = s[n] /\ n = IF j < k THEN j ELSE j + 1 BY <2>9
            <4>3. m = n BY <3>1, <3>3, <4>1, <4>2
            <4>4. i \in Int /\ j \in Int BY <2>6, <2>3
            <4> QED BY ONLY <2>3, <4>1, <4>2, <4>3, <4>4
        <3>4. Desk!IsInjective(t) BY <3>3, <2>a DEF Desk!IsInjective
        <3> QED BY <3>2, <3>4
    <2>13. Len(t) <= Len(s) BY <2>3, <2>6
    <2> QED BY <2>6, <2>10, <2>11, <2>12, <2>13 DEF t
<1> QED BY <1>1, <1>2

(* The two parts of a sequence.                                             *)
LEMMA PartsAre ==
    ASSUME NEW S, NEW s \in Seq(S), NEW n \in 0 .. Len(s)
    PROVE  LET front == SubSeq(s, 1, n)
               back  == SubSeq(s, n + 1, Len(s))
           IN  /\ front \in Seq(S) /\ Len(front) = n
               /\ back \in Seq(S) /\ Len(back) = Len(s) - n
               /\ Desk!Range(s) \subseteq Desk!Range(front) \cup Desk!Range(back)
               /\ Desk!Range(back) \subseteq Desk!Range(s)
               /\ Desk!Range(front) = {s[k] : k \in 1 .. n}
               /\ Desk!IsInjective(s) => Desk!IsInjective(back)
<1> DEFINE front == SubSeq(s, 1, n)
           back  == SubSeq(s, n + 1, Len(s))
<1>1. Len(s) \in Nat /\ n \in Nat /\ n <= Len(s) OBVIOUS
<1>2. front \in Seq(S) /\ Len(front) = n /\ back \in Seq(S) /\ Len(back) = Len(s) - n BY <1>1
<1>3. \A k \in 1 .. n : front[k] = s[k] BY <1>1
<1>4. \A k \in 1 .. Len(s) - n : back[k] = s[n + k] BY <1>1
<1>a. DOMAIN front = 1 .. n /\ DOMAIN back = 1 .. Len(s) - n /\ DOMAIN s = 1 .. Len(s) BY <1>2
<1> HIDE DEF front, back
<1>5. ASSUME NEW k \in 1 .. Len(s), k > n PROVE k - n \in 1 .. Len(s) - n /\ back[k - n] = s[k]
    <2>1. k - n \in 1 .. Len(s) - n /\ n + (k - n) = k BY <1>1, <1>5
    <2> QED BY <1>4, <2>1
<1>6. Desk!Range(front) = {s[k] : k \in 1 .. n} BY <1>3, <1>a DEF Desk!Range
<1>7. Desk!Range(s) \subseteq Desk!Range(front) \cup Desk!Range(back)
    <2> SUFFICES ASSUME NEW k \in 1 .. Len(s) PROVE s[k] \in Desk!Range(front) \cup Desk!Range(back)
        BY <1>a DEF Desk!Range
    <2>1. CASE k > n BY <1>5, <1>a, <2>1 DEF Desk!Range
    <2>2. CASE k <= n
        <3>1. k \in 1 .. n BY <1>1, <2>2
        <3> QED BY <1>6, <3>1
    <2> QED BY <1>1, <2>1, <2>2
<1>8. \A k \in 1 .. Len(s) - n : n + k \in 1 .. Len(s) BY <1>1
<1>9. Desk!Range(back) \subseteq Desk!Range(s) BY <1>4, <1>8, <1>a DEF Desk!Range
<1>10. ASSUME Desk!IsInjective(s) PROVE Desk!IsInjective(back)
    <2>1. ASSUME NEW i \in 1 .. Len(s) - n, NEW j \in 1 .. Len(s) - n, back[i] = back[j] PROVE i = j
        <3>1. n + i = n + j BY <1>4, <1>8, <1>10, <1>a, <2>1 DEF Desk!IsInjective
        <3> QED BY <1>1, <3>1
    <2> QED BY <1>a, <2>1 DEF Desk!IsInjective
<1> QED BY <1>2, <1>6, <1>7, <1>9, <1>10 DEF front, back

-----------------------------------------------------------------------------
(* The alerts (Notifications). *)
Numbers == Desk!Ids
AlertStates == {"new", "refused", "wait", "post", "again", "track", "done", "failed"}

DeskBase ==
    /\ maxLive \in Limits /\ about \in [Alerts -> Chats] /\ rung \in [Alerts -> 0 .. 2]
    /\ state \in [Alerts -> AlertStates]
    /\ claimed \in Seq(Alerts) /\ Len(claimed) <= MaxTracked
    /\ poster \in Alerts \cup {None} /\ given \in Numbers \cup {0}
    /\ closing \in Seq(Numbers) /\ live \in Seq(Numbers) /\ strays \subseteq Numbers
    /\ chatNote \in [Chats -> Numbers \cup {0}] /\ actions \in [Numbers -> Chats \cup {None}]
    /\ screen \in [Numbers -> Alerts \cup {None}] /\ others \in 0 .. ServerRoom
    /\ signals \in Seq([id : Numbers, click : BOOLEAN]) /\ lastId \in Numbers \cup {0}
    /\ mishaps \in 0 .. MaxMishaps /\ told \subseteq Alerts

(* An announcement that is over, or shown: each gives one new number.       *)
Pending   == {"wait", "post", "again"}
Announced ==
    {p \in Alerts \X (1 .. 2) :
        p[2] < rung[p[1]] \/ (p[2] = rung[p[1]] /\ state[p[1]] \notin Pending)}
CountInv ==
    /\ \A a \in Alerts : state[a] = "new" => rung[a] = 0
    /\ \A a \in Alerts : state[a] \in Pending => rung[a] # 0
    /\ lastId <= Cardinality(Announced)

(* The lock "post" belongs to the one alert that is being posted.           *)
Posting == {"post", "again", "track"}
LockInv ==
    /\ \A a \in Alerts : state[a] \in Posting <=> poster = a
    /\ closing # <<>> => \E a \in Alerts : state[a] \in {"post", "again"}
    /\ given # 0 <=> \E a \in Alerts : state[a] = "track"

(* Room for one more is made before anything is posted.                     *)
RoomInv ==
    /\ Len(live) + Len(closing) <= maxLive
    /\ poster # None => Len(live) < maxLive

(* What a chat names is in the list and is no other chat's.                 *)
NamesInv ==
    /\ Desk!IsInjective(live)
    /\ \A c \in Chats : chatNote[c] # 0 => chatNote[c] \in Desk!Range(live)
    /\ \A c, d \in Chats : chatNote[c] # 0 /\ chatNote[c] = chatNote[d] => c = d
    /\ given <= lastId /\ \A c \in Chats : chatNote[c] <= lastId
    /\ \A a \in Alerts : state[a] = "again" => \A c \in Chats : chatNote[c] = 0

(* What was posted is not yet written down, and what it replaces is closed. *)
ReplacedInv ==
    \A a \in Alerts : state[a] = "track" =>
        /\ \A d \in Chats : chatNote[d] = given => d = about[a]
        /\ chatNote[about[a]] = given \/ chatNote[about[a]] \notin Desk!Open
        /\ given \in Desk!Open => screen[given] = a

ShownInv ==
    /\ Desk!Open \ strays \subseteq Desk!Range(live) \cup Desk!Range(closing) \cup {given}
    /\ Desk!OpenOnesAreClickable

DeskInv == DeskBase /\ CountInv /\ LockInv /\ RoomInv /\ NamesInv /\ ReplacedInv /\ ShownInv

-----------------------------------------------------------------------------

LEMMA DeskConstants ==
    /\ IsFiniteSet(Alerts) /\ Cardinality(Alerts) \in Nat /\ MaxMishaps \in Nat
    /\ ServerRoom \in Nat \ {0} /\ MaxTracked \in Nat \ {0}
    /\ Limits \subseteq Nat \ {0} /\ None \notin Alerts \cup Chats
    /\ Numbers = 1 .. 2 * Cardinality(Alerts) + MaxMishaps /\ Numbers \subseteq Nat
    /\ 0 \notin Numbers
<1>1. /\ IsFiniteSet(Alerts) /\ MaxMishaps \in Nat /\ ServerRoom \in Nat \ {0}
      /\ MaxTracked \in Nat \ {0} /\ Limits \subseteq Nat \ {0} /\ None \notin Alerts \cup Chats
    BY AlertsAssumption DEF Desk!NotificationsAssumption, Desk!IsFiniteSet, IsFiniteSet
<1>2. Cardinality(Alerts) \in Nat BY <1>1, FS_CardinalityType
<1>3. Numbers = 1 .. 2 * Cardinality(Alerts) + MaxMishaps
    BY DEF Numbers, Desk!Ids, Desk!Cardinality, Cardinality
<1>4. Numbers \subseteq Nat /\ 0 \notin Numbers BY <1>1, <1>2, <1>3
<1> QED BY <1>1, <1>2, <1>3, <1>4

LEMMA DeskCardinality == \A X : Desk!Cardinality(X) = Cardinality(X)
BY DEF Desk!Cardinality, Cardinality

(* While an announcement is pending there is a number left for it.          *)
LEMMA AnnouncedIsFinite ==
    /\ IsFiniteSet(Alerts \X (1 .. 2)) /\ IsFiniteSet(Announced) /\ Cardinality(Announced) \in Nat
    /\ Cardinality(Announced) <= 2 * Cardinality(Alerts)
    /\ \A p \in Alerts \X (1 .. 2) : p \notin Announced =>
           Cardinality(Announced) + 1 <= 2 * Cardinality(Alerts)
<1>a. 1 \in Int /\ 2 \in Int /\ ~(1 > 2) OBVIOUS
<1>1. IsFiniteSet(1 .. 2) /\ Cardinality(1 .. 2) = 2
    <2>1. IsFiniteSet(1 .. 2) /\ Cardinality(1 .. 2) = IF 1 > 2 THEN 0 ELSE 2 - 1 + 1
        BY <1>a, FS_Interval
    <2> QED BY <2>1
<1>2. /\ IsFiniteSet(Alerts \X (1 .. 2))
      /\ Cardinality(Alerts \X (1 .. 2)) = Cardinality(Alerts) * 2
    BY <1>1, DeskConstants, FS_Product
<1>3. Announced \in SUBSET (Alerts \X (1 .. 2)) BY DEF Announced
<1>4. /\ IsFiniteSet(Announced) /\ Cardinality(Announced) \in Nat
      /\ Cardinality(Announced) <= Cardinality(Alerts \X (1 .. 2))
    BY <1>2, <1>3, FS_Subset, FS_CardinalityType
<1>5. ASSUME NEW p \in Alerts \X (1 .. 2), p \notin Announced
      PROVE  Cardinality(Announced) + 1 <= Cardinality(Alerts \X (1 .. 2))
    <2>1. Announced \cup {p} \in SUBSET (Alerts \X (1 .. 2)) BY <1>3, <1>5
    <2>2. Cardinality(Announced \cup {p}) <= Cardinality(Alerts \X (1 .. 2))
        BY <1>2, <2>1, FS_Subset
    <2>3. Cardinality(Announced \cup {p}) = Cardinality(Announced) + 1
        BY <1>4, <1>5, FS_AddElement
    <2> QED BY <2>2, <2>3
<1>6. Cardinality(Alerts) * 2 = 2 * Cardinality(Alerts) BY DeskConstants
<1> QED BY <1>2, <1>4, <1>5, <1>6

LEMMA InitDeskInv == Desk!Init => DeskInv
<1> SUFFICES ASSUME Desk!Init PROVE DeskInv OBVIOUS
<1> USE DEF Desk!Init
<1>1. /\ state = [a \in Alerts |-> "new"] /\ rung = [a \in Alerts |-> 0] /\ lastId = 0 /\ given = 0
      /\ closing = <<>> /\ live = <<>> /\ claimed = <<>> /\ signals = <<>> /\ poster = None
      /\ screen = [i \in Numbers |-> None] /\ chatNote = [c \in Chats |-> 0]
    BY DEF Numbers
<1>2. Desk!Open = {} BY <1>1 DEF Desk!Open, Numbers
<1>3. DeskBase
    <2>1. 0 \in 0 .. ServerRoom /\ 0 \in 0 .. MaxMishaps /\ 0 \in 0 .. 2 /\ 0 <= MaxTracked
        BY DeskConstants
    <2>2. /\ rung \in [Alerts -> 0 .. 2] /\ state \in [Alerts -> AlertStates]
          /\ chatNote \in [Chats -> Numbers \cup {0}] /\ screen \in [Numbers -> Alerts \cup {None}]
          /\ actions \in [Numbers -> Chats \cup {None}]
        BY <1>1, <2>1 DEF AlertStates, Numbers
    <2>3. /\ claimed \in Seq(Alerts) /\ closing \in Seq(Numbers) /\ live \in Seq(Numbers)
          /\ signals \in Seq([id : Numbers, click : BOOLEAN]) /\ Len(claimed) = 0
        BY <1>1
    <2> QED BY <1>1, <2>1, <2>2, <2>3 DEF DeskBase
<1>4. CountInv BY <1>1, AnnouncedIsFinite DEF CountInv, Pending
<1>5. LockInv BY <1>1, DeskConstants DEF LockInv, Posting
<1>6. RoomInv
    <2>1. maxLive \in Nat \ {0} BY DeskConstants
    <2>2. Len(live) = 0 /\ Len(closing) = 0 BY <1>1
    <2> QED BY ONLY <2>1, <2>2 DEF RoomInv
<1>7. NamesInv BY <1>1 DEF NamesInv, Desk!IsInjective
<1>8. ReplacedInv BY <1>1 DEF ReplacedInv
<1>9. ShownInv BY <1>2 DEF ShownInv, Desk!OpenOnesAreClickable
<1> QED BY <1>3, <1>4, <1>5, <1>6, <1>7, <1>8, <1>9 DEF DeskInv
-----------------------------------------------------------------------------
(* The parts that look only at the alert being posted.                      *)
Screen == RoomInv /\ NamesInv /\ ReplacedInv /\ ShownInv

LEMMA OthersMove ==
    ASSUME DeskInv,
           UNCHANGED <<maxLive, about, poster, given, closing, live, chatNote, actions, screen,
                       lastId, strays>>,
           \A b \in Alerts : state'[b] \in Posting \/ state[b] \in Posting => state'[b] = state[b]
    PROVE  LockInv' /\ Screen'
<1>1. LockInv'
    <2>1. \A b \in Alerts : /\ state'[b] \in Posting <=> state[b] \in Posting
                            /\ state'[b] \in {"post", "again"} <=> state[b] \in {"post", "again"}
                            /\ state'[b] = "track" <=> state[b] = "track"
        BY DEF Posting
    <2> QED BY <2>1 DEF DeskInv, LockInv
<1>2. RoomInv' BY DEF DeskInv, RoomInv
<1>3. NamesInv' BY DEF DeskInv, NamesInv, Posting
<1>4. ReplacedInv' BY DEF DeskInv, ReplacedInv, Posting, Desk!Open
<1>5. ShownInv' BY DEF DeskInv, ShownInv, Desk!Open, Desk!OpenOnesAreClickable
<1> QED BY <1>1, <1>2, <1>3, <1>4, <1>5 DEF Screen

LEMMA AnnouncedGrows ==
    ASSUME DeskInv, Announced \subseteq Announced', lastId' = lastId
    PROVE  lastId' <= Cardinality(Announced)'
<1>1. Announced' \in SUBSET (Alerts \X (1 .. 2)) BY DEF Announced
<1>2. IsFiniteSet(Announced') BY <1>1, AnnouncedIsFinite, FS_Subset
<1>3. Cardinality(Announced) <= Cardinality(Announced') /\ Cardinality(Announced') \in Nat
    BY <1>2, FS_Subset, FS_CardinalityType
<1>4. lastId \in Nat /\ lastId <= Cardinality(Announced)
    BY DeskConstants DEF DeskInv, DeskBase, CountInv
<1>5. Cardinality(Announced) \in Nat BY AnnouncedIsFinite
<1>6. lastId' <= Cardinality(Announced') BY ONLY <1>3, <1>4, <1>5, lastId' = lastId
<1> QED BY <1>6

LEMMA ClaimIsTyped ==
    ASSUME DeskInv, NEW a \in Alerts, Desk!claimAlert(a)
    PROVE  claimed' \in Seq(Alerts) /\ Len(claimed') <= MaxTracked
<1>1. claimed \in Seq(Alerts) /\ Len(claimed) <= MaxTracked /\ MaxTracked \in Nat \ {0}
    BY DeskConstants DEF DeskInv, DeskBase
<1>2. CASE Len(claimed) < MaxTracked
    <2>1. claimed' = Append(claimed, a) BY <1>2 DEF Desk!claimAlert
    <2>2. claimed' \in Seq(Alerts) /\ Len(claimed') = Len(claimed) + 1 BY <1>1, <2>1
    <2> QED BY <1>1, <1>2, <2>2
<1>3. CASE ~(Len(claimed) < MaxTracked)
    <2>1. claimed' = Append(Tail(claimed), a) BY <1>3 DEF Desk!claimAlert
    <2>2. Len(claimed) \in Nat /\ claimed # <<>> BY <1>1, <1>3
    <2>3. Tail(claimed) \in Seq(Alerts) /\ Len(Tail(claimed)) = Len(claimed) - 1 BY <1>1, <2>2
    <2>4. claimed' \in Seq(Alerts) /\ Len(claimed') = Len(Tail(claimed)) + 1
        BY <2>1, <2>3
    <2> QED BY <1>1, <2>2, <2>3, <2>4
<1> QED BY <1>2, <1>3

LEMMA AnnouncementKeepsDesk ==
    ASSUME DeskInv, NEW a \in Alerts, Desk!Announce(a) \/ Desk!OfferAgain(a)
    PROVE  DeskInv'
<1>1. /\ UNCHANGED <<maxLive, about, poster, given, closing, live, chatNote, actions, screen,
                       lastId, strays, others, signals>>
      /\ state[a] \in {"new", "done", "failed"} /\ told' \subseteq told
    BY DEF Desk!Announce, Desk!OfferAgain, Desk!tables, Desk!session
<1>2. /\ state \in [Alerts -> AlertStates] /\ rung \in [Alerts -> 0 .. 2]
      /\ state[a] = "new" => rung[a] = 0
    BY DEF DeskInv, DeskBase, CountInv
<1>3. \/ UNCHANGED <<claimed, state, rung>>
      \/ /\ state[a] = "new" /\ state' = [state EXCEPT ![a] = "refused"]
         /\ UNCHANGED <<claimed, rung>>
      \/ /\ Desk!claimAlert(a) /\ state' = [state EXCEPT ![a] = "wait"]
         /\ rung' = [rung EXCEPT ![a] = rung[a] + 1] /\ rung[a] \in {0, 1}
         /\ rung[a] = 0 \/ state[a] \in {"done", "failed"}
    BY <1>2 DEF Desk!Announce, Desk!OfferAgain, Desk!At
<1>4. mishaps' \in 0 .. MaxMishaps
    <2>1. mishaps \in 0 .. MaxMishaps /\ MaxMishaps \in Nat BY DeskConstants DEF DeskInv, DeskBase
    <2>2. mishaps' = mishaps \/ (mishaps < MaxMishaps /\ mishaps' = mishaps + 1)
        BY DEF Desk!Announce, Desk!OfferAgain, Desk!Mishap
    <2> QED BY ONLY <2>1, <2>2
<1>5. claimed' \in Seq(Alerts) /\ Len(claimed') <= MaxTracked
    <2>1. claimed \in Seq(Alerts) /\ Len(claimed) <= MaxTracked BY DEF DeskInv, DeskBase
    <2> QED BY <1>3, <2>1, ClaimIsTyped
<1>6. rung' \in [Alerts -> 0 .. 2] /\ state' \in [Alerts -> AlertStates]
    <2>1. rung[a] \in {0, 1} => rung[a] + 1 \in 0 .. 2 OBVIOUS
    <2>2. {"refused", "wait"} \subseteq AlertStates BY DEF AlertStates
    <2> QED BY <1>2, <1>3, <2>1, <2>2
<1>7. DeskBase' BY <1>1, <1>4, <1>5, <1>6 DEF DeskInv, DeskBase
<1>8. \A b \in Alerts : state'[b] \in Posting \/ state[b] \in Posting => state'[b] = state[b]
    BY <1>1, <1>2, <1>3 DEF Posting
<1>9. LockInv' /\ Screen' BY <1>1, <1>8, OthersMove
<1>10. CountInv'
    <2>1. \A b \in Alerts : state'[b] = "new" => rung'[b] = 0
        BY <1>2, <1>3 DEF DeskInv, CountInv
    <2>2. \A b \in Alerts : state'[b] \in Pending => rung'[b] # 0
        BY <1>2, <1>3 DEF DeskInv, CountInv, Pending
    <2>3. Announced \subseteq Announced'
        <3> SUFFICES ASSUME NEW b \in Alerts, NEW k \in 1 .. 2,
                            k < rung[b] \/ (k = rung[b] /\ state[b] \notin Pending)
                     PROVE  k < rung'[b] \/ (k = rung'[b] /\ state'[b] \notin Pending)
            BY DEF Announced
        <3>1. CASE b # a
            <4>1. rung'[b] = rung[b] /\ state'[b] = state[b] BY <1>2, <1>3, <3>1
            <4> QED BY <4>1
        <3>2. CASE b = a
            <4>1. CASE UNCHANGED <<claimed, state, rung>> BY <4>1
            <4>2. CASE /\ state[a] = "new" /\ state' = [state EXCEPT ![a] = "refused"]
                       /\ UNCHANGED <<claimed, rung>>
                BY <1>2, <3>2, <4>2 DEF Pending
            <4>3. CASE rung' = [rung EXCEPT ![a] = rung[a] + 1]
                <5>1. rung'[b] = rung[b] + 1 /\ rung[b] \in 0 .. 2 BY <1>2, <3>2, <4>3
                <5> QED BY <5>1
            <4> QED BY <1>3, <4>1, <4>2, <4>3
        <3> QED BY <3>1, <3>2
    <2> QED BY <1>1, <2>1, <2>2, <2>3, AnnouncedGrows DEF CountInv
<1> QED BY <1>7, <1>9, <1>10 DEF DeskInv, Screen
-----------------------------------------------------------------------------
(* An alert that is being posted.                                           *)
LEMMA NumberIsLeft ==
    ASSUME DeskInv, NEW a \in Alerts, state[a] \in Pending
    PROVE  /\ <<a, rung[a]>> \in Alerts \X (1 .. 2) /\ <<a, rung[a]>> \notin Announced
           /\ lastId + 1 \in Numbers
<1>1. rung[a] \in 1 .. 2 BY DEF DeskInv, DeskBase, CountInv
<1>2. <<a, rung[a]>> \in Alerts \X (1 .. 2) BY <1>1
<1>3. <<a, rung[a]>> \notin Announced
    <2>1. ~(rung[a] < rung[a]) BY <1>1
    <2> QED BY <2>1 DEF Announced
<1>4. Cardinality(Announced) + 1 <= 2 * Cardinality(Alerts) BY <1>2, <1>3, AnnouncedIsFinite
<1>5. lastId \in Nat /\ lastId <= Cardinality(Announced)
    BY DeskConstants DEF DeskInv, DeskBase, CountInv
<1>6. Cardinality(Announced) \in Nat /\ Cardinality(Alerts) \in Nat /\ MaxMishaps \in Nat
    BY AnnouncedIsFinite, DeskConstants
<1>7. lastId + 1 \in 1 .. 2 * Cardinality(Alerts) + MaxMishaps BY ONLY <1>4, <1>5, <1>6
<1> QED BY <1>2, <1>3, <1>7, DeskConstants

(* Nobody else is being posted.                                             *)
LEMMA OneIsPosted ==
    ASSUME DeskInv, NEW a \in Alerts, state[a] \in Posting
    PROVE  poster = a /\ \A b \in Alerts : state[b] \in Posting => b = a
BY DEF DeskInv, LockInv

LEMMA ShowKeepsDesk ==
    ASSUME DeskInv, NEW a \in Alerts, state[a] \in {"post", "again"}, closing = <<>>,
           NEW i \in Numbers, Desk!Show(a, i),
           \/ i = lastId + 1 /\ chatNote[about[a]] \notin Desk!Open
           \/ i = chatNote[about[a]],
           UNCHANGED <<maxLive, about, claimed, rung, poster, closing, live, chatNote, actions,
                       others, signals, mishaps, told, strays>>
    PROVE  DeskInv'
<1>1. /\ screen' = [screen EXCEPT ![i] = a] /\ given' = i
      /\ lastId' = (IF i > lastId THEN i ELSE lastId) /\ state' = [state EXCEPT ![a] = "track"]
    BY DEF Desk!Show, Desk!At
<1>2. /\ state \in [Alerts -> AlertStates] /\ about[a] \in Chats /\ lastId \in Numbers \cup {0}
      /\ screen \in [Numbers -> Alerts \cup {None}]
      /\ chatNote \in [Chats -> Numbers \cup {0}] /\ given \in Numbers \cup {0}
      /\ rung \in [Alerts -> 0 .. 2]
    BY DEF DeskInv, DeskBase
<1>3. poster = a /\ (\A b \in Alerts : state[b] \in Posting => b = a) /\ given = 0
      /\ \A b \in Alerts : state[b] # "track"
    <2>1. poster = a /\ (\A b \in Alerts : state[b] \in Posting => b = a)
        BY OneIsPosted DEF Posting
    <2>2. \A b \in Alerts : state[b] # "track" BY <2>1 DEF Posting
    <2> QED BY <2>1, <2>2 DEF DeskInv, LockInv
<1>4. lastId \in Nat /\ i \in Nat /\ i # 0 /\ (i = lastId + 1 \/ i <= lastId)
    BY <1>2, DeskConstants DEF DeskInv, NamesInv
<1>5. lastId' \in Numbers \cup {0} /\ i <= lastId' /\ lastId <= lastId' /\ lastId' \in Nat
    BY <1>1, <1>2, <1>4
<1>6. DeskBase'
    <2>1. state' \in [Alerts -> AlertStates] BY <1>1, <1>2 DEF AlertStates
    <2>2. screen' \in [Numbers -> Alerts \cup {None}] BY <1>1, <1>2
    <2> QED BY <1>1, <1>5, <2>1, <2>2 DEF DeskInv, DeskBase
<1>7. CountInv'
    <2> DEFINE p == <<a, rung[a]>>
    <2>1. /\ p \in Alerts \X (1 .. 2) /\ p \notin Announced
        BY NumberIsLeft DEF Pending
    <2>2. Announced \cup {p} \subseteq Announced'
        <3>1. p \in Announced' BY <1>1, <1>2, <2>1 DEF Announced, Pending
        <3>2. Announced \subseteq Announced' BY <1>1, <1>2 DEF Announced, Pending
        <3> QED BY <3>1, <3>2
    <2>3. Announced' \in SUBSET (Alerts \X (1 .. 2)) BY DEF Announced
    <2>4. IsFiniteSet(Announced') BY <2>3, AnnouncedIsFinite, FS_Subset
    <2>5. Cardinality(Announced \cup {p}) = Cardinality(Announced) + 1
        BY <2>1, AnnouncedIsFinite, FS_AddElement
    <2>6. /\ Cardinality(Announced \cup {p}) <= Cardinality(Announced')
          /\ Cardinality(Announced') \in Nat
        BY <2>2, <2>4, FS_Subset, FS_CardinalityType
    <2>7. lastId <= Cardinality(Announced) /\ Cardinality(Announced) \in Nat
        BY AnnouncedIsFinite DEF DeskInv, CountInv
    <2>8. lastId' <= lastId + 1 BY <1>1, <1>4
    <2>9. lastId' <= Cardinality(Announced') BY ONLY <1>4, <1>5, <2>5, <2>6, <2>7, <2>8
    <2>10. \A b \in Alerts : /\ state'[b] = "new" => rung'[b] = 0
                             /\ state'[b] \in Pending => rung'[b] # 0
        BY <1>1, <1>2 DEF DeskInv, CountInv, Pending
    <2> QED BY <2>9, <2>10 DEF CountInv
<1>8. LockInv'
    <2>1. \A b \in Alerts : state'[b] \in Posting <=> poster' = b
        BY <1>1, <1>2, <1>3 DEF Posting
    <2>2. state'[a] = "track" BY <1>1, <1>2
    <2> QED BY <1>1, <1>4, <2>1, <2>2 DEF LockInv
<1>9. RoomInv' BY DEF DeskInv, RoomInv
<1>10. NamesInv'
    <2>1. \A c \in Chats : chatNote[c] \in Nat /\ chatNote[c] <= lastId
        BY <1>2, DeskConstants DEF DeskInv, NamesInv
    <2>2. \A c \in Chats : chatNote'[c] <= lastId' BY <1>4, <1>5, <2>1
    <2>3. \A b \in Alerts : state'[b] # "again" BY <1>1, <1>2, <1>3 DEF Posting
    <2> QED BY <1>1, <1>5, <2>2, <2>3 DEF DeskInv, NamesInv
<1>11. ReplacedInv'
    <2> SUFFICES ASSUME NEW b \in Alerts, state'[b] = "track"
                 PROVE  /\ \A d \in Chats : chatNote[d] = i => d = about[b]
                        /\ chatNote[about[b]] = i \/ chatNote[about[b]] \notin Desk!Open'
                        /\ screen'[i] = b
        BY <1>1 DEF ReplacedInv
    <2>1. b = a BY <1>1, <1>2, <1>3
    <2>2. screen'[i] = a BY <1>1, <1>2
    <2>3. CASE i = chatNote[about[a]]
        BY <1>2, <1>4, <2>1, <2>2, <2>3 DEF DeskInv, NamesInv
    <2>4. CASE i = lastId + 1 /\ chatNote[about[a]] \notin Desk!Open
        <3>1. \A d \in Chats : chatNote[d] \in Nat /\ chatNote[d] <= lastId
            BY <1>2, DeskConstants DEF DeskInv, NamesInv
        <3>2. \A d \in Chats : chatNote[d] # i BY <1>4, <2>4, <3>1
        <3>3. chatNote[about[a]] \notin Desk!Open'
            BY <1>1, <1>2, <2>4, <3>2 DEF Desk!Open
        <3> QED BY <2>1, <2>2, <3>2, <3>3
    <2> QED BY <2>1, <2>3, <2>4
<1>12. ShownInv'
    <2>1. Desk!Open' \subseteq Desk!Open \cup {i} BY <1>1, <1>2 DEF Desk!Open, Numbers
    <2>2. \A j \in Numbers : j # i => screen'[j] = screen[j] BY <1>1, <1>2
    <2>3. 0 \notin Desk!Open BY DeskConstants DEF Desk!Open, Numbers
    <2>4. Desk!Open' \subseteq Numbers BY DEF Desk!Open, Numbers
    <2>5. \A j \in Desk!Open' \ strays' : j = i \/ j \in Desk!Open \ strays BY <2>1
    <2>6. Desk!Open' \ strays' \subseteq Desk!Range(live) \cup Desk!Range(closing) \cup {i}
        BY <1>3, <2>3, <2>5 DEF DeskInv, ShownInv
    <2>7. \A j \in Desk!Open' \ strays' : j = i \/ actions[j] = about[screen'[j]]
        BY <1>3, <2>2, <2>3, <2>4, <2>5 DEF DeskInv, ShownInv, Desk!OpenOnesAreClickable
    <2> QED BY <1>1, <2>6, <2>7 DEF ShownInv, Desk!OpenOnesAreClickable
<1> QED BY <1>6, <1>7, <1>8, <1>9, <1>10, <1>11, <1>12 DEF DeskInv

LEMMA FailKeepsDesk ==
    ASSUME DeskInv, NEW a \in Alerts, state[a] \in {"post", "again"}, closing = <<>>,
           Desk!FailNotice(a), mishaps' \in 0 .. MaxMishaps,
           UNCHANGED <<maxLive, about, claimed, rung, closing, live, chatNote, actions, others,
                       signals, strays>>
    PROVE  DeskInv'
<1>1. poster = a /\ (\A b \in Alerts : state[b] \in Posting => b = a)
    BY OneIsPosted DEF Posting
<1>2. /\ state' = [state EXCEPT ![a] = "failed"] /\ poster' = None /\ told' = told \cup {a}
      /\ UNCHANGED <<given, screen, lastId>>
    BY <1>1 DEF Desk!FailNotice, Desk!At, Desk!Unlock
<1>3. state \in [Alerts -> AlertStates] BY DEF DeskInv, DeskBase
<1>4. DeskBase'
    <2>1. state' \in [Alerts -> AlertStates] BY <1>2, <1>3 DEF AlertStates
    <2> QED BY <1>2, <2>1 DEF DeskInv, DeskBase
<1>5. CountInv'
    <2>1. Announced \subseteq Announced' BY <1>2, <1>3 DEF Announced, Pending
    <2>2. lastId' <= Cardinality(Announced)' BY <1>2, <2>1, AnnouncedGrows
    <2>3. \A b \in Alerts : /\ state'[b] = "new" => rung'[b] = 0
                            /\ state'[b] \in Pending => rung'[b] # 0
        BY <1>2, <1>3 DEF DeskInv, CountInv, Pending
    <2> QED BY <2>2, <2>3 DEF CountInv
<1>6. \A b \in Alerts : state'[b] \notin Posting
    BY <1>1, <1>2, <1>3 DEF Posting
<1>7. \A b \in Alerts : state[b] # "track" BY <1>1 DEF Posting
<1>8. LockInv'
    <2>1. given = 0 BY <1>7 DEF DeskInv, LockInv
    <2>2. \A b \in Alerts : state'[b] # "track" /\ b # None BY <1>6, DeskConstants DEF Posting
    <2> QED BY <1>2, <1>6, <2>1, <2>2 DEF LockInv
<1>9. RoomInv' /\ NamesInv' /\ ReplacedInv'
    BY <1>2, <1>6 DEF DeskInv, RoomInv, NamesInv, ReplacedInv, Posting
<1>10. ShownInv'
    BY <1>2 DEF DeskInv, ShownInv, Desk!Open, Desk!OpenOnesAreClickable
<1> QED BY <1>4, <1>5, <1>8, <1>9, <1>10 DEF DeskInv

-----------------------------------------------------------------------------
(* What the chats name after some numbers are forgotten.                    *)
LEMMA UnnamedIs ==
    ASSUME DeskBase, NEW ids, chatNote' = Desk!Unnamed(ids)
    PROVE  /\ chatNote' \in [Chats -> Numbers \cup {0}]
           /\ \A c \in Chats :
                  chatNote'[c] # 0 => chatNote'[c] = chatNote[c] /\ chatNote[c] \notin ids
           /\ \A c \in Chats : chatNote'[c] \in {0, chatNote[c]}
BY DEF DeskBase, Desk!Unnamed

(* Names that are given up leave the rest in order, as long as the list     *)
(* keeps what is still named.                                               *)
LEMMA FewerNames ==
    ASSUME DeskInv, \A c \in Chats : chatNote'[c] \in {0, chatNote[c]}, UNCHANGED <<given, lastId>>,
           Desk!IsInjective(live)',
           \A c \in Chats : chatNote'[c] # 0 => chatNote'[c] \in Desk!Range(live'),
           \A a \in Alerts : state'[a] = "again" => state[a] = "again"
    PROVE  NamesInv'
<1>1. \A c \in Chats : chatNote'[c] <= lastId'
    <2>1. 0 <= lastId BY DeskConstants DEF DeskInv, DeskBase
    <2> QED BY <2>1 DEF DeskInv, NamesInv
<1>2. \A c, d \in Chats : chatNote'[c] # 0 /\ chatNote'[c] = chatNote'[d] => c = d
    BY DEF DeskInv, NamesInv
<1>3. \A a \in Alerts : state'[a] = "again" => \A c \in Chats : chatNote'[c] = 0
    BY DEF DeskInv, NamesInv
<1>4. (\A c \in Chats : chatNote[c] # 0 => chatNote[c] \in Desk!Range(live))'
    OBVIOUS
<1> QED BY <1>1, <1>2, <1>3, <1>4 DEF DeskInv, NamesInv

LEMMA MakeRoomKeepsDesk ==
    ASSUME DeskInv, NEW a \in Alerts, Desk!MakeRoom(a)
    PROVE  DeskInv'
<1> DEFINE n == IF Len(live) < maxLive THEN 0 ELSE 1 + Len(live) - maxLive
<1>1. /\ state[a] = "wait" /\ poster = None /\ poster' = a /\ state' = [state EXCEPT ![a] = "post"]
      /\ closing' = SubSeq(live, 1, n) /\ live' = SubSeq(live, n + 1, Len(live))
      /\ chatNote' = Desk!Unnamed({live[k] : k \in 1 .. n})
      /\ UNCHANGED <<maxLive, about, claimed, rung, given, actions, screen, others, signals, lastId,
                     mishaps, told, strays>>
    BY DEF Desk!MakeRoom, Desk!ReserveSlot, Desk!At, Desk!desk, Desk!session
<1>2. /\ state \in [Alerts -> AlertStates] /\ live \in Seq(Numbers) /\ Len(live) \in Nat
      /\ maxLive \in Nat \ {0}
    BY DeskConstants DEF DeskInv, DeskBase
<1>3. \A b \in Alerts : state[b] \notin Posting /\ b # None
    BY <1>1, DeskConstants DEF DeskInv, LockInv
<1>4. closing = <<>> /\ given = 0
    BY <1>3 DEF DeskInv, LockInv, Posting
<1>5. Len(live) <= maxLive
    BY <1>2, <1>4 DEF DeskInv, RoomInv
<1>6. n \in 0 .. Len(live) /\ Len(live) - n < maxLive /\ n \in Nat BY <1>2, <1>5
<1> HIDE DEF n
<1>7. /\ closing' \in Seq(Numbers) /\ Len(closing') = n
      /\ live' \in Seq(Numbers) /\ Len(live') = Len(live) - n
      /\ Desk!Range(live) \subseteq Desk!Range(closing') \cup Desk!Range(live')
      /\ Desk!Range(closing') = {live[k] : k \in 1 .. n}
      /\ Desk!IsInjective(live) => Desk!IsInjective(live')
    BY <1>1, <1>2, <1>6, PartsAre
<1>8. /\ chatNote' \in [Chats -> Numbers \cup {0}]
      /\ \A c \in Chats : chatNote'[c] # 0 =>
             chatNote'[c] = chatNote[c] /\ chatNote[c] \notin Desk!Range(closing')
      /\ \A c \in Chats : chatNote'[c] \in {0, chatNote[c]}
    BY <1>1, <1>7, UnnamedIs DEF DeskInv
<1>9. DeskBase'
    <2>1. state' \in [Alerts -> AlertStates] BY <1>1, <1>2 DEF AlertStates
    <2> QED BY <1>1, <1>7, <1>8, <2>1 DEF DeskInv, DeskBase
<1>10. CountInv'
    <2>1. Announced \subseteq Announced' BY <1>1, <1>2 DEF Announced, Pending
    <2>2. lastId' <= Cardinality(Announced)' BY <1>1, <2>1, AnnouncedGrows
    <2>3. \A b \in Alerts : /\ state'[b] = "new" => rung'[b] = 0
                            /\ state'[b] \in Pending => rung'[b] # 0
        BY <1>1, <1>2 DEF DeskInv, CountInv, Pending
    <2> QED BY <2>2, <2>3 DEF CountInv
<1>11. LockInv'
    <2>1. \A b \in Alerts : state'[b] \in Posting <=> poster' = b
        BY <1>1, <1>2, <1>3 DEF Posting
    <2>2. state'[a] = "post" BY <1>1, <1>2
    <2>3. \A b \in Alerts : state'[b] # "track" BY <1>1, <1>2, <1>3 DEF Posting
    <2> QED BY <1>1, <1>4, <2>1, <2>2, <2>3 DEF LockInv
<1>12. RoomInv'
    <2>1. Len(live') + Len(closing') <= maxLive /\ Len(live') < maxLive
        BY ONLY <1>2, <1>5, <1>6, <1>7
    <2> QED BY <1>1, <2>1 DEF RoomInv
<1>13. NamesInv'
    <2>1. \A c \in Chats : chatNote'[c] # 0 => chatNote'[c] \in Desk!Range(live')
        BY <1>7, <1>8 DEF DeskInv, NamesInv
    <2>2. Desk!IsInjective(live)' BY <1>7 DEF DeskInv, NamesInv, Desk!IsInjective
    <2>3. \A b \in Alerts : state'[b] # "again" BY <1>1, <1>2, <1>3 DEF Posting
    <2> QED BY <1>1, <1>8, <2>1, <2>2, <2>3, FewerNames
<1>14. ReplacedInv'
    <2>1. \A b \in Alerts : state'[b] # "track" BY <1>1, <1>2, <1>3 DEF Posting
    <2> QED BY <2>1 DEF ReplacedInv
<1>15. ShownInv'
    <2>1. Desk!Range(closing) = {} BY <1>4 DEF Desk!Range
    <2>2. Desk!Open' = Desk!Open BY <1>1 DEF Desk!Open
    <2>3. Desk!Open \ strays \subseteq Desk!Range(live') \cup Desk!Range(closing') \cup {given}
        BY <1>7, <2>1 DEF DeskInv, ShownInv
    <2>4. Desk!Open' \ strays' \subseteq Desk!Range(live') \cup Desk!Range(closing') \cup {given'}
        BY <1>1, <2>2, <2>3
    <2>5. Desk!OpenOnesAreClickable'
        BY <1>1, <2>2 DEF DeskInv, ShownInv, Desk!OpenOnesAreClickable
    <2>6. (Desk!Open \ strays \subseteq Desk!Range(live) \cup Desk!Range(closing) \cup {given})'
        BY <2>4 DEF Desk!Range
    <2> QED BY <2>5, <2>6 DEF ShownInv
<1> QED BY <1>9, <1>10, <1>11, <1>12, <1>13, <1>14, <1>15 DEF DeskInv

(* A notification is forgotten: it is closed, or its place is lost.         *)
LEMMA ForgetKeeps ==
    ASSUME DeskInv, NEW i \in Numbers, Desk!Forget(i),
           UNCHANGED <<state, about, given, lastId, poster>>,
           Desk!Open' \subseteq Desk!Open, \A j \in Desk!Open' : screen'[j] = screen[j]
    PROVE  /\ live' \in Seq(Numbers) /\ Len(live') <= Len(live)
           /\ chatNote' \in [Chats -> Numbers \cup {0}]
           /\ NamesInv' /\ ReplacedInv'
           /\ Desk!Range(live) \subseteq Desk!Range(live') \cup {i}
<1>1. live' = Desk!Without(live, i) /\ chatNote' = Desk!Unnamed({i}) BY DEF Desk!Forget
<1>2. live \in Seq(Numbers) /\ Desk!IsInjective(live) BY DEF DeskInv, DeskBase, NamesInv
<1>3. /\ live' \in Seq(Numbers) /\ Len(live') <= Len(live)
      /\ Desk!Range(live) \subseteq Desk!Range(live') \cup {i}
      /\ Desk!IsInjective(live')
    BY <1>1, <1>2, WithoutIs
<1>4. /\ chatNote' \in [Chats -> Numbers \cup {0}]
      /\ \A c \in Chats : chatNote'[c] # 0 => chatNote'[c] = chatNote[c] /\ chatNote[c] # i
      /\ \A c \in Chats : chatNote'[c] \in {0, chatNote[c]}
    BY <1>1, UnnamedIs DEF DeskInv
<1>5. NamesInv'
    <2>1. \A c \in Chats : chatNote'[c] # 0 => chatNote'[c] \in Desk!Range(live')
        BY <1>3, <1>4 DEF DeskInv, NamesInv
    <2>2. Desk!IsInjective(live)' BY <1>3 DEF Desk!IsInjective
    <2> QED BY <1>4, <2>1, <2>2, FewerNames
<1>6. ReplacedInv'
    <2> SUFFICES ASSUME NEW a \in Alerts, state[a] = "track"
                 PROVE  /\ \A d \in Chats : chatNote'[d] = given => d = about[a]
                        /\ chatNote'[about[a]] = given \/ chatNote'[about[a]] \notin Desk!Open'
                        /\ given \in Desk!Open' => screen'[given] = a
        BY DEF ReplacedInv
    <2>1. given # 0 BY DEF DeskInv, LockInv
    <2>2. 0 \notin Desk!Open' BY DeskConstants DEF Desk!Open, Numbers
    <2>3. about[a] \in Chats BY DEF DeskInv, DeskBase
    <2>4. /\ \A d \in Chats : chatNote[d] = given => d = about[a]
          /\ chatNote[about[a]] = given \/ chatNote[about[a]] \notin Desk!Open
          /\ given \in Desk!Open => screen[given] = a
        BY DEF DeskInv, ReplacedInv
    <2> QED BY <1>4, <2>1, <2>2, <2>3, <2>4
<1> QED BY <1>3, <1>4, <1>5, <1>6

-----------------------------------------------------------------------------

LEMMA SameStateKeeps ==
    ASSUME DeskInv, UNCHANGED <<state, rung, lastId>>
    PROVE  CountInv'
<1>1. Announced' = Announced BY DEF Announced
<1>2. lastId' <= Cardinality(Announced)' BY <1>1, AnnouncedGrows
<1> QED BY <1>2 DEF DeskInv, CountInv

LEMMA CloseKeepsDesk ==
    ASSUME DeskInv, Desk!CloseNotification
    PROVE  DeskInv'
<1> DEFINE i == Head(closing)
<1>1. /\ closing # <<>> /\ closing' = Tail(closing) /\ Desk!Forget(i)
      /\ \/ /\ screen[i] # None /\ screen' = [screen EXCEPT ![i] = None]
            /\ signals' = Append(signals, [id |-> i, click |-> FALSE])
            /\ UNCHANGED <<mishaps, strays>>
         \/ screen[i] = None /\ UNCHANGED <<screen, signals, mishaps, strays>>
         \/ Desk!Mishap /\ strays' = strays \cup {i} /\ UNCHANGED <<screen, signals>>
      /\ UNCHANGED <<maxLive, about, claimed, rung, state, poster, given, actions, others, lastId,
                     told>>
    BY DEF Desk!CloseNotification, Desk!desk
<1>2. /\ closing \in Seq(Numbers) /\ signals \in Seq([id : Numbers, click : BOOLEAN])
      /\ screen \in [Numbers -> Alerts \cup {None}] /\ strays \subseteq Numbers
    BY DEF DeskInv, DeskBase
<1>3. /\ i \in Numbers /\ closing' \in Seq(Numbers) /\ Len(closing') = Len(closing) - 1
      /\ Len(closing) \in Nat /\ Len(closing) >= 1
    BY <1>1, <1>2
<1>4. Desk!Range(closing) \subseteq Desk!Range(closing') \cup {i}
    <2>1. \A k \in 1 .. Len(closing) :
              k # 1 => k - 1 \in 1 .. Len(closing') /\ closing'[k - 1] = closing[k]
        BY <1>1, <1>2, <1>3
    <2>2. DOMAIN closing = 1 .. Len(closing) /\ DOMAIN closing' = 1 .. Len(closing') BY <1>2, <1>3
    <2>3. closing[1] = i BY <1>1, <1>2
    <2> HIDE DEF i
    <2> QED BY <2>1, <2>2, <2>3 DEF Desk!Range
<1> HIDE DEF i
<1>5. Desk!Open' \subseteq Desk!Open /\ (\A j \in Desk!Open' : screen'[j] = screen[j])
      /\ (i \notin Desk!Open' \/ i \in strays') /\ strays \subseteq strays'
    <2>1. CASE screen[i] # None /\ screen' = [screen EXCEPT ![i] = None] /\ UNCHANGED strays
        BY <1>2, <1>3, <2>1 DEF Desk!Open, Numbers
    <2>2. CASE screen[i] = None /\ UNCHANGED <<screen, strays>>
        BY <2>2 DEF Desk!Open
    <2>3. CASE strays' = strays \cup {i} /\ UNCHANGED screen
        BY <2>3 DEF Desk!Open
    <2> QED BY <1>1, <2>1, <2>2, <2>3
<1>6. /\ live' \in Seq(Numbers) /\ Len(live') <= Len(live)
      /\ chatNote' \in [Chats -> Numbers \cup {0}]
      /\ NamesInv' /\ ReplacedInv'
      /\ Desk!Range(live) \subseteq Desk!Range(live') \cup {i}
    BY <1>1, <1>3, <1>5, ForgetKeeps
<1>7. DeskBase'
    <2>1. mishaps' \in 0 .. MaxMishaps
        <3>1. mishaps \in 0 .. MaxMishaps /\ MaxMishaps \in Nat
            BY DeskConstants DEF DeskInv, DeskBase
        <3>2. mishaps' = mishaps \/ (mishaps < MaxMishaps /\ mishaps' = mishaps + 1)
            BY <1>1 DEF Desk!Mishap
        <3> QED BY ONLY <3>1, <3>2
    <2>2. [id |-> i, click |-> FALSE] \in [id : Numbers, click : BOOLEAN] BY <1>3
    <2>3. signals' \in Seq([id : Numbers, click : BOOLEAN])
        <3> DEFINE R == [id : Numbers, click : BOOLEAN]
                   r == [id |-> i, click |-> FALSE]
        <3>1. signals \in Seq(R) /\ r \in R /\ (signals' = signals \/ signals' = Append(signals, r))
            BY <1>1, <1>2, <2>2
        <3> HIDE DEF R, r
        <3>2. signals' \in Seq(R) BY ONLY <3>1
        <3> QED BY <3>2 DEF R
    <2>4. screen' \in [Numbers -> Alerts \cup {None}] /\ strays' \subseteq Numbers
        BY <1>1, <1>2, <1>3
    <2> QED BY <1>1, <1>3, <1>6, <2>1, <2>3, <2>4 DEF DeskInv, DeskBase
<1>8. CountInv' BY <1>1, SameStateKeeps
<1>9. LockInv' BY <1>1 DEF DeskInv, LockInv
<1>10. RoomInv'
    <2>1. /\ Len(live) \in Nat /\ Len(live') \in Nat /\ maxLive \in Nat
          /\ Len(live) + Len(closing) <= maxLive
          /\ poster # None => Len(live) < maxLive
        BY <1>6, DeskConstants DEF DeskInv, DeskBase, RoomInv
    <2>2. Len(live') + Len(closing') <= maxLive BY ONLY <1>3, <1>6, <2>1
    <2>3. Len(live) < maxLive => Len(live') < maxLive BY ONLY <1>6, <2>1
    <2> QED BY <1>1, <2>1, <2>2, <2>3 DEF RoomInv
<1>11. ShownInv'
    <2>1. Desk!Open \ strays \subseteq Desk!Range(live) \cup Desk!Range(closing) \cup {given}
        BY DEF DeskInv, ShownInv
    <2>2. Desk!Open' \ strays' \subseteq Desk!Range(live') \cup Desk!Range(closing') \cup {given'}
        <3>1. \A j \in Desk!Open' \ strays' : j \in Desk!Open \ strays /\ j # i BY <1>5
        <3> QED BY <1>1, <1>4, <1>6, <2>1, <3>1
    <2>3. (Desk!Open \ strays \subseteq Desk!Range(live) \cup Desk!Range(closing) \cup {given})'
        BY <2>2 DEF Desk!Range
    <2>4. Desk!OpenOnesAreClickable'
        BY <1>1, <1>5 DEF DeskInv, ShownInv, Desk!OpenOnesAreClickable
    <2> QED BY <2>3, <2>4 DEF ShownInv
<1> QED BY <1>6, <1>7, <1>8, <1>9, <1>10, <1>11 DEF DeskInv

LEMMA TakeLiveKeepsDesk ==
    ASSUME DeskInv, NEW a \in Alerts, state[a] = "post", closing = <<>>, Desk!TakeLive,
           Desk!At(a, "again"),
           UNCHANGED <<maxLive, about, claimed, rung, poster, given, screen, lastId, mishaps, told,
                       actions, others, signals, strays>>
    PROVE  DeskInv'
<1>1. /\ closing' = live /\ live' = <<>> /\ chatNote' = [c \in Chats |-> 0]
      /\ state' = [state EXCEPT ![a] = "again"]
    BY DEF Desk!TakeLive, Desk!At
<1>2. /\ state \in [Alerts -> AlertStates] /\ live \in Seq(Numbers) /\ Len(live) \in Nat
      /\ maxLive \in Nat \ {0}
    BY DeskConstants DEF DeskInv, DeskBase
<1>3. poster = a /\ (\A b \in Alerts : state[b] \in Posting => b = a) /\ given = 0
      /\ \A b \in Alerts : state[b] # "track"
    <2>1. poster = a /\ (\A b \in Alerts : state[b] \in Posting => b = a)
        BY OneIsPosted DEF Posting
    <2>2. \A b \in Alerts : state[b] # "track" BY <2>1 DEF Posting
    <2> QED BY <2>1, <2>2 DEF DeskInv, LockInv
<1>4. DeskBase'
    <2>1. state' \in [Alerts -> AlertStates] BY <1>1, <1>2 DEF AlertStates
    <2>2. chatNote' \in [Chats -> Numbers \cup {0}] BY <1>1
    <2>3. live' \in Seq(Numbers) BY <1>1
    <2> QED BY <1>1, <1>2, <2>1, <2>2, <2>3 DEF DeskInv, DeskBase
<1>5. CountInv'
    <2>1. Announced \subseteq Announced' BY <1>1, <1>2 DEF Announced, Pending
    <2>2. lastId' <= Cardinality(Announced)' BY <2>1, AnnouncedGrows
    <2>3. \A b \in Alerts : /\ state'[b] = "new" => rung'[b] = 0
                            /\ state'[b] \in Pending => rung'[b] # 0
        BY <1>1, <1>2 DEF DeskInv, CountInv, Pending
    <2> QED BY <2>2, <2>3 DEF CountInv
<1>6. LockInv'
    <2>1. \A b \in Alerts : state'[b] \in Posting <=> poster' = b
        BY <1>1, <1>2, <1>3 DEF Posting
    <2>2. state'[a] = "again" BY <1>1, <1>2
    <2>3. \A b \in Alerts : state'[b] # "track" BY <1>1, <1>2, <1>3
    <2> QED BY <1>3, <2>1, <2>2, <2>3 DEF LockInv
<1>7. RoomInv'
    <2>1. Len(live) < maxLive BY <1>3, DeskConstants DEF DeskInv, RoomInv
    <2>2. Len(live') = 0 /\ Len(closing') = Len(live) BY <1>1
    <2>3. Len(live') + Len(closing') <= maxLive /\ Len(live') < maxLive BY ONLY <1>2, <2>1, <2>2
    <2> QED BY <2>3 DEF RoomInv
<1>8. NamesInv'
    <2>1. \A c \in Chats : chatNote'[c] = 0 BY <1>1
    <2>2. Desk!IsInjective(live)' BY <1>1 DEF Desk!IsInjective
    <2>3. 0 <= lastId BY DeskConstants DEF DeskInv, DeskBase
    <2> QED BY <2>1, <2>2, <2>3 DEF DeskInv, NamesInv
<1>9. ReplacedInv'
    <2>1. \A b \in Alerts : state'[b] # "track" BY <1>1, <1>2, <1>3
    <2> QED BY <2>1 DEF ReplacedInv
<1>10. ShownInv'
    <2>1. Desk!Range(closing) = {} BY DEF Desk!Range
    <2>2. Desk!Open' = Desk!Open BY DEF Desk!Open
    <2>3. (Desk!Open \ strays \subseteq Desk!Range(live) \cup Desk!Range(closing) \cup {given})'
        BY <1>1, <2>1, <2>2 DEF DeskInv, ShownInv, Desk!Range
    <2> QED BY <2>2, <2>3 DEF DeskInv, ShownInv, Desk!OpenOnesAreClickable
<1> QED BY <1>4, <1>5, <1>6, <1>7, <1>8, <1>9, <1>10 DEF DeskInv

LEMMA PostKeepsDesk ==
    ASSUME DeskInv, NEW a \in Alerts, Desk!Post(a) \/ Desk!PostAgain(a)
    PROVE  DeskInv'
<1>1. /\ state[a] \in {"post", "again"} /\ closing = <<>>
      /\ UNCHANGED <<maxLive, about, claimed, rung, actions, others, signals, strays>>
    BY DEF Desk!Post, Desk!PostAgain, Desk!desk, Desk!tables
<1>2. lastId + 1 \in Numbers BY <1>1, NumberIsLeft DEF Pending
<1>3. about[a] \in Chats /\ chatNote[about[a]] \in Numbers \cup {0} BY DEF DeskInv, DeskBase
<1>4. 0 \notin Desk!Open BY DeskConstants DEF Desk!Open, Numbers
<1>5. \/ /\ \E i \in Numbers : /\ Desk!Show(a, i)
                                /\ \/ i = lastId + 1 /\ chatNote[about[a]] \notin Desk!Open
                                   \/ i = chatNote[about[a]]
         /\ UNCHANGED <<poster, closing, live, chatNote, mishaps, told>>
      \/ /\ state[a] = "post" /\ Desk!TakeLive /\ Desk!At(a, "again")
         /\ UNCHANGED <<poster, given, screen, lastId, mishaps, told>>
      \/ /\ Desk!FailNotice(a) /\ (Desk!Mishap \/ mishaps' = mishaps)
         /\ UNCHANGED <<closing, live, chatNote>>
    <2>1. CASE Desk!Post(a) BY <1>2, <1>3, <2>1 DEF Desk!Post
    <2>2. CASE Desk!PostAgain(a)
        <3>1. chatNote[about[a]] \notin Desk!Open
            BY <1>3, <1>4, <2>2 DEF Desk!PostAgain, DeskInv, NamesInv
        <3> QED BY <1>2, <2>2, <3>1 DEF Desk!PostAgain, Desk!tables
    <2> QED BY <2>1, <2>2
<1>6. mishaps \in 0 .. MaxMishaps /\ MaxMishaps \in Nat BY DeskConstants DEF DeskInv, DeskBase
<1>7. Desk!Mishap \/ mishaps' = mishaps => mishaps' \in 0 .. MaxMishaps BY <1>6 DEF Desk!Mishap
<1> QED BY <1>1, <1>5, <1>7, ShowKeepsDesk, TakeLiveKeepsDesk, FailKeepsDesk

-----------------------------------------------------------------------------

LEMMA TrackKeepsDesk ==
    ASSUME DeskInv, NEW a \in Alerts, Desk!Track(a)
    PROVE  DeskInv'
<1> DEFINE c == about[a]
           old == chatNote[c]
           rest == IF old # given THEN Desk!Without(live, old) ELSE live
<1>1. /\ state[a] = "track" /\ actions' = [actions EXCEPT ![given] = c]
      /\ chatNote' = [chatNote EXCEPT ![c] = given]
      /\ live' = IF given \in Desk!Range(rest) THEN rest ELSE Append(rest, given)
      /\ state' = [state EXCEPT ![a] = "done"] /\ given' = 0
      /\ UNCHANGED <<maxLive, about, claimed, rung, closing, screen, others, signals, lastId,
                     mishaps, told, strays>>
    BY DEF Desk!Track, Desk!At, Desk!desk, Desk!session
<1>2. poster = a /\ (\A b \in Alerts : state[b] \in Posting => b = a) /\ poster' = None
    <2>1. poster = a /\ (\A b \in Alerts : state[b] \in Posting => b = a)
        BY <1>1, OneIsPosted DEF Posting
    <2> QED BY <2>1 DEF Desk!Track, Desk!Unlock
<1>3. /\ state \in [Alerts -> AlertStates] /\ live \in Seq(Numbers) /\ Len(live) \in Nat
      /\ maxLive \in Nat \ {0} /\ c \in Chats /\ given \in Numbers \cup {0}
      /\ chatNote \in [Chats -> Numbers \cup {0}] /\ actions \in [Numbers -> Chats \cup {None}]
    BY DeskConstants DEF DeskInv, DeskBase
<1>4. given # 0 /\ given \in Numbers BY <1>1, <1>3 DEF DeskInv, LockInv
<1>5. closing = <<>> BY <1>1, <1>2 DEF DeskInv, LockInv, Posting
<1>6. /\ \A d \in Chats : chatNote[d] = given => d = c
      /\ old = given \/ old \notin Desk!Open
      /\ given \in Desk!Open => screen[given] = a
    BY <1>1 DEF DeskInv, ReplacedInv
<1>7. Desk!IsInjective(live) /\ Len(live) < maxLive
    BY <1>2, DeskConstants DEF DeskInv, NamesInv, RoomInv
<1>8. /\ rest \in Seq(Numbers) /\ Len(rest) <= Len(live) /\ Desk!IsInjective(rest)
      /\ Desk!Range(live) \subseteq Desk!Range(rest) \cup {old}
      /\ old = given => rest = live
    BY <1>3, <1>7, WithoutIs
<1> HIDE DEF rest
<1>9. /\ live' \in Seq(Numbers) /\ Len(live') <= maxLive /\ Desk!IsInjective(live')
      /\ Desk!Range(rest) \cup {given} \subseteq Desk!Range(live')
    <2>1. CASE given \in Desk!Range(rest)
        BY <1>1, <1>3, <1>7, <1>8, <2>1
    <2>2. CASE given \notin Desk!Range(rest)
        <3>1. live' = Append(rest, given) BY <1>1, <2>2
        <3>2. live' \in Seq(Numbers) /\ Len(live') = Len(rest) + 1 /\ Len(rest) \in Nat
            BY <1>4, <1>8, <3>1
        <3>3. /\ \A k \in 1 .. Len(rest) : live'[k] = rest[k]
              /\ live'[Len(rest) + 1] = given
            BY <1>4, <1>8, <3>1
        <3>4. DOMAIN live' = 1 .. Len(rest) + 1 /\ DOMAIN rest = 1 .. Len(rest) BY <1>8, <3>2
        <3>5. Desk!Range(rest) \cup {given} \subseteq Desk!Range(live')
            <4>1. \A k \in 1 .. Len(rest) : k \in 1 .. Len(rest) + 1 BY <3>2
            <4>2. Len(rest) + 1 \in 1 .. Len(rest) + 1 BY <3>2
            <4> QED BY <3>3, <3>4, <4>1, <4>2 DEF Desk!Range
        <3>6. Desk!IsInjective(live')
            <4>1. \A k \in 1 .. Len(rest) : rest[k] # given BY <2>2, <3>4 DEF Desk!Range
            <4>2. \A k \in 1 .. Len(rest) + 1 : k \in 1 .. Len(rest) \/ k = Len(rest) + 1 BY <3>2
            <4> QED BY <1>8, <3>3, <3>4, <4>1, <4>2 DEF Desk!IsInjective
        <3> QED BY <1>3, <1>7, <1>8, <3>2, <3>5, <3>6
    <2> QED BY <2>1, <2>2
<1>10. DeskBase'
    <2>1. state' \in [Alerts -> AlertStates] BY <1>1, <1>3 DEF AlertStates
    <2>2. chatNote' \in [Chats -> Numbers \cup {0}] /\ actions' \in [Numbers -> Chats \cup {None}]
        BY <1>1, <1>3
    <2> QED BY <1>1, <1>2, <1>9, <2>1, <2>2 DEF DeskInv, DeskBase
<1>11. CountInv'
    <2>1. Announced \subseteq Announced' BY <1>1, <1>3 DEF Announced, Pending
    <2>2. lastId' <= Cardinality(Announced)' BY <1>1, <2>1, AnnouncedGrows
    <2>3. \A b \in Alerts : /\ state'[b] = "new" => rung'[b] = 0
                            /\ state'[b] \in Pending => rung'[b] # 0
        BY <1>1, <1>3 DEF DeskInv, CountInv, Pending
    <2> QED BY <2>2, <2>3 DEF CountInv
<1>12. \A b \in Alerts : state'[b] \notin Posting /\ b # None
    BY <1>1, <1>2, <1>3, DeskConstants DEF Posting
<1>13. LockInv' BY <1>1, <1>2, <1>5, <1>12 DEF LockInv, Posting
<1>14. RoomInv'
    <2>1. Len(closing) = 0 /\ closing' = closing BY <1>1, <1>5
    <2>2. Len(live') + 0 <= maxLive BY <1>9, <1>3
    <2> QED BY <1>1, <1>2, <2>1, <2>2 DEF RoomInv
<1>15. NamesInv'
    <2>1. \A d \in Chats : chatNote'[d] = IF d = c THEN given ELSE chatNote[d] BY <1>1, <1>3
    <2>2. \A d \in Chats : chatNote'[d] # 0 => chatNote'[d] \in Desk!Range(live')
        <3> SUFFICES ASSUME NEW d \in Chats, d # c, chatNote[d] # 0
                     PROVE  chatNote[d] \in Desk!Range(live')
            BY <1>9, <2>1
        <3>1. chatNote[d] # old BY <1>3 DEF DeskInv, NamesInv
        <3>2. chatNote[d] \in Desk!Range(live) BY DEF DeskInv, NamesInv
        <3> QED BY <1>8, <1>9, <3>1, <3>2
    <2>3. \A d, e \in Chats : chatNote'[d] # 0 /\ chatNote'[d] = chatNote'[e] => d = e
        BY <1>6, <2>1 DEF DeskInv, NamesInv
    <2>4. /\ given <= lastId /\ \A d \in Chats : chatNote[d] <= lastId
          /\ lastId \in Nat
        BY DeskConstants DEF DeskInv, DeskBase, NamesInv
    <2>5. given' <= lastId' /\ \A d \in Chats : chatNote'[d] <= lastId'
        BY <1>1, <2>1, <2>4
    <2>6. (\A d \in Chats : chatNote[d] # 0 => chatNote[d] \in Desk!Range(live))' BY <2>2
    <2>7. Desk!IsInjective(live)' BY <1>9
    <2> QED BY <1>12, <2>3, <2>5, <2>6, <2>7 DEF NamesInv, Posting
<1>16. ReplacedInv' BY <1>12 DEF ReplacedInv, Posting
<1>17. ShownInv'
    <2>1. Desk!Open' = Desk!Open BY <1>1 DEF Desk!Open
    <2>2. Desk!Range(closing) = {} BY <1>5 DEF Desk!Range
    <2>3. \A i \in Desk!Open \ strays : i \in Desk!Range(live')
        <3> SUFFICES ASSUME NEW i \in Desk!Open \ strays PROVE i \in Desk!Range(live')
            OBVIOUS
        <3>1. i \in Desk!Range(live) \cup {given} BY <2>2 DEF DeskInv, ShownInv
        <3>2. CASE old = given BY <1>8, <1>9, <3>1, <3>2
        <3>3. CASE old # given BY <1>6, <1>8, <1>9, <3>1, <3>3
        <3> QED BY <3>2, <3>3
    <2>4. \A i \in Desk!Open \ strays : actions'[i] = about[screen[i]]
        <3> SUFFICES ASSUME NEW i \in Desk!Open \ strays PROVE actions'[i] = about[screen[i]]
            OBVIOUS
        <3>1. CASE i = given BY <1>1, <1>3, <1>4, <1>6, <3>1
        <3>2. CASE i # given
            <4>1. actions[i] = about[screen[i]]
                BY <3>2 DEF DeskInv, ShownInv, Desk!OpenOnesAreClickable
            <4> QED BY <1>1, <1>3, <3>2, <4>1
        <3> QED BY <3>1, <3>2
    <2>5. (Desk!Open \ strays \subseteq Desk!Range(live))' BY <1>1, <2>1, <2>3
    <2>6. Desk!OpenOnesAreClickable' BY <1>1, <2>1, <2>4 DEF Desk!OpenOnesAreClickable
    <2> QED BY <2>5, <2>6 DEF ShownInv
<1> QED BY <1>10, <1>11, <1>13, <1>14, <1>15, <1>16, <1>17 DEF DeskInv

-----------------------------------------------------------------------------
(* The server and the reader.                                               *)
LEMMA ClosedByReader ==
    ASSUME DeskInv, NEW i \in Numbers, Desk!Dismiss(i) \/ Desk!Click(i)
    PROVE  DeskInv'
<1>1. /\ screen' = [screen EXCEPT ![i] = None] /\ strays' = strays \ {i}
      /\ UNCHANGED <<maxLive, about, claimed, rung, state, poster, given, closing, live, chatNote,
                     actions, others, lastId, mishaps, told>>
    BY DEF Desk!Dismiss, Desk!Click, Desk!desk, Desk!tables
<1>2. screen \in [Numbers -> Alerts \cup {None}] BY DEF DeskInv, DeskBase
<1>3. signals' \in Seq([id : Numbers, click : BOOLEAN])
    <2> DEFINE R == [id : Numbers, click : BOOLEAN]
               r == [id |-> i, click |-> FALSE]
               q == [id |-> i, click |-> TRUE]
    <2>1. signals \in Seq(R) /\ r \in R /\ q \in R BY DEF DeskInv, DeskBase
    <2>2. signals' = Append(signals, r) \/ signals' = signals \o <<q, r>>
        BY DEF Desk!Dismiss, Desk!Click
    <2> HIDE DEF R, r, q
    <2>3. <<q, r>> \in Seq(R) BY <2>1
    <2>4. signals \o <<q, r>> \in Seq(R) BY <2>1, <2>3, ConcatProperties
    <2>5. Append(signals, r) \in Seq(R) BY <2>1, AppendProperties
    <2>6. signals' \in Seq(R) BY <2>2, <2>4, <2>5, Zenon
    <2> QED BY <2>6 DEF R
<1>4. /\ Desk!Open' = Desk!Open \ {i} /\ \A j \in Desk!Open' : screen'[j] = screen[j]
    BY <1>1, <1>2 DEF Desk!Open, Numbers
<1>5. Desk!Open' \ strays' \subseteq Desk!Open \ strays BY <1>1, <1>4
<1>6. DeskBase' BY <1>1, <1>2, <1>3 DEF DeskInv, DeskBase
<1>7. CountInv' BY <1>1, SameStateKeeps
<1>8. LockInv' /\ RoomInv' /\ NamesInv' BY <1>1 DEF DeskInv, LockInv, RoomInv, NamesInv
<1>9. ReplacedInv' BY <1>1, <1>4 DEF DeskInv, ReplacedInv
<1>10. ShownInv' BY <1>1, <1>4, <1>5 DEF DeskInv, ShownInv, Desk!OpenOnesAreClickable
<1> QED BY <1>6, <1>7, <1>8, <1>9, <1>10 DEF DeskInv

LEMMA OtherProgramsKeepDesk == ASSUME DeskInv, Desk!OtherPrograms PROVE DeskInv'
<1>1. /\ UNCHANGED <<maxLive, about, claimed, rung, state, poster, given, closing, live, chatNote,
                     actions, screen, signals, lastId, mishaps, told, strays>>
    BY DEF Desk!OtherPrograms, Desk!desk, Desk!tables
<1>2. others' \in 0 .. ServerRoom
    <2>1. others \in 0 .. ServerRoom /\ ServerRoom \in Nat BY DeskConstants DEF DeskInv, DeskBase
    <2>2. Cardinality(Desk!Open) \in Nat
        <3>1. Desk!Open \in SUBSET Numbers BY DEF Desk!Open, Numbers
        <3>2. IsFiniteSet(Numbers)
            <4>1. 2 * Cardinality(Alerts) + MaxMishaps \in Int /\ 1 \in Int BY DeskConstants
            <4> QED BY <4>1, DeskConstants, FS_Interval
        <3> QED BY <3>1, <3>2, FS_Subset, FS_CardinalityType
    <2>3. \/ Cardinality(Desk!Open) + others < ServerRoom /\ others' = others + 1
          \/ others > 0 /\ others' = others - 1
        BY DeskCardinality DEF Desk!OtherPrograms
    <2> QED BY ONLY <2>1, <2>2, <2>3
<1>3. DeskBase' BY <1>1, <1>2 DEF DeskInv, DeskBase
<1>4. CountInv' BY <1>1, SameStateKeeps
<1>5. LockInv' /\ Screen' BY <1>1, OthersMove
<1> QED BY <1>3, <1>4, <1>5 DEF DeskInv, Screen

LEMMA watchActionsKeepsDesk == ASSUME DeskInv, Desk!watchActions PROVE DeskInv'
<1> DEFINE i == Head(signals).id
<1>1. /\ signals # <<>> /\ signals' = Tail(signals)
      /\ IF actions[i] = None THEN UNCHANGED <<actions, live, chatNote, strays>>
         ELSE /\ actions' = [actions EXCEPT ![i] = None] /\ Desk!Forget(i)
              /\ strays' = IF i \in Desk!Open THEN strays \cup {i} ELSE strays
      /\ UNCHANGED <<maxLive, about, claimed, rung, state, poster, given, closing, screen, others,
                     lastId, mishaps, told>>
    BY DEF Desk!watchActions, Desk!desk
<1>2. i \in Numbers /\ signals' \in Seq([id : Numbers, click : BOOLEAN])
    <2> DEFINE R == [id : Numbers, click : BOOLEAN]
    <2>1. signals \in Seq(R) BY DEF DeskInv, DeskBase
    <2> HIDE DEF R
    <2>2. Head(signals) \in R /\ Tail(signals) \in Seq(R) BY <1>1, <2>1
    <2> QED BY <1>1, <2>2 DEF R
<1> HIDE DEF i
<1>3. Desk!Open' = Desk!Open BY <1>1 DEF Desk!Open
<1>4. CountInv' BY <1>1, SameStateKeeps
<1>5. LockInv' BY <1>1 DEF DeskInv, LockInv
<1>6. CASE actions[i] = None
    <2>1. DeskBase' BY <1>1, <1>2, <1>6 DEF DeskInv, DeskBase
    <2>2. Screen' BY <1>1, <1>6, OthersMove
    <2> QED BY <1>4, <1>5, <2>1, <2>2 DEF DeskInv, Screen
<1>7. CASE actions[i] # None
    <2>1. /\ actions' = [actions EXCEPT ![i] = None] /\ Desk!Forget(i)
          /\ strays' = IF i \in Desk!Open THEN strays \cup {i} ELSE strays
        BY <1>1, <1>7
    <2>2. /\ live' \in Seq(Numbers) /\ Len(live') <= Len(live)
          /\ chatNote' \in [Chats -> Numbers \cup {0}]
          /\ NamesInv' /\ ReplacedInv'
          /\ Desk!Range(live) \subseteq Desk!Range(live') \cup {i}
        BY <1>1, <1>2, <1>3, <2>1, ForgetKeeps
    <2>3. actions \in [Numbers -> Chats \cup {None}] /\ strays \subseteq Numbers
        BY DEF DeskInv, DeskBase
    <2>4. DeskBase'
        <3>1. strays' \subseteq Numbers /\ actions' \in [Numbers -> Chats \cup {None}]
            BY <1>2, <2>1, <2>3
        <3> QED BY <1>1, <1>2, <2>2, <3>1 DEF DeskInv, DeskBase
    <2>5. RoomInv'
        <3>1. /\ Len(live) \in Nat /\ Len(live') \in Nat /\ Len(closing) \in Nat /\ maxLive \in Nat
              /\ Len(live) + Len(closing) <= maxLive /\ (poster # None => Len(live) < maxLive)
            BY <2>2, DeskConstants DEF DeskInv, DeskBase, RoomInv
        <3>2. Len(live') + Len(closing) <= maxLive /\ (Len(live) < maxLive => Len(live') < maxLive)
            BY ONLY <2>2, <3>1
        <3> QED BY <1>1, <3>1, <3>2 DEF RoomInv
    <2>6. \A j \in Desk!Open' \ strays' : j \in Desk!Open \ strays /\ j # i BY <1>3, <2>1
    <2>7. ShownInv'
        <3>1. Desk!Open' \ strays' \subseteq Desk!Range(live') \cup Desk!Range(closing) \cup {given}
            BY <2>2, <2>6 DEF DeskInv, ShownInv
        <3>2. (Desk!Open \ strays \subseteq Desk!Range(live) \cup Desk!Range(closing) \cup {given})'
            BY <1>1, <3>1
        <3>3. \A j \in Desk!Open' \ strays' : j = given \/ actions'[j] = about[screen[j]]
            BY <2>1, <2>3, <2>6 DEF DeskInv, ShownInv, Desk!OpenOnesAreClickable, Desk!Open, Numbers
        <3> QED BY <1>1, <3>2, <3>3 DEF ShownInv, Desk!OpenOnesAreClickable
    <2> QED BY <1>4, <1>5, <2>2, <2>4, <2>5, <2>7 DEF DeskInv
<1> QED BY <1>6, <1>7

LEMMA StepKeepsDesk == ASSUME DeskInv, [Desk!Next]_alertVars PROVE DeskInv'
<1>1. CASE UNCHANGED alertVars
    <2>1. DeskBase' BY <1>1 DEF alertVars, DeskInv, DeskBase
    <2>2. CountInv' BY <1>1, SameStateKeeps DEF alertVars
    <2>3. LockInv' /\ Screen' BY <1>1, OthersMove DEF alertVars
    <2> QED BY <2>1, <2>2, <2>3 DEF DeskInv, Screen
<1>2. CASE \E a \in Alerts : Desk!Goroutine(a) \/ Desk!OfferAgain(a)
    BY <1>2, AnnouncementKeepsDesk, MakeRoomKeepsDesk, PostKeepsDesk, TrackKeepsDesk
    DEF Desk!Goroutine
<1>3. CASE \E i \in Desk!Ids : Desk!Dismiss(i) \/ Desk!Click(i)
    BY <1>3, ClosedByReader DEF Numbers
<1>4. CASE Desk!CloseNotification BY <1>4, CloseKeepsDesk
<1>5. CASE Desk!OtherPrograms BY <1>5, OtherProgramsKeepDesk
<1>6. CASE Desk!watchActions BY <1>6, watchActionsKeepsDesk
<1> QED BY <1>1, <1>2, <1>3, <1>4, <1>5, <1>6 DEF Desk!Next

-----------------------------------------------------------------------------
(* What the invariant of the alerts says of the tables and of the screen.   *)
LEMMA RangeIsTyped == ASSUME NEW S, NEW s \in Seq(S) PROVE Desk!Range(s) \subseteq S
BY DEF Desk!Range

LEMMA DeskIsTyped == DeskInv => Desk!TypeOK
<1> SUFFICES ASSUME DeskInv PROVE Desk!TypeOK OBVIOUS
<1>1. DeskBase BY DEF DeskInv
<1>2. Desk!Range(claimed) \subseteq Alerts BY <1>1, RangeIsTyped DEF DeskBase
<1>3. Desk!Range(closing) \cup Desk!Range(live) \subseteq Numbers
    BY <1>1, RangeIsTyped DEF DeskBase
<1>4. Desk!Range(signals) \subseteq [id : Numbers, click : BOOLEAN]
    <2> DEFINE R == [id : Numbers, click : BOOLEAN]
    <2>1. signals \in Seq(R) BY <1>1 DEF DeskBase
    <2> HIDE DEF R
    <2>2. Desk!Range(signals) \subseteq R BY <2>1, RangeIsTyped
    <2> QED BY <2>2 DEF R
<1> QED BY <1>1, <1>2, <1>3, <1>4 DEF DeskBase, AlertStates, Numbers, Desk!TypeOK

(* Each open notification is on the list, being closed or just posted: so   *)
(* there is room for as many as there are places, and for the new one.      *)
LEMMA RangeIsShort ==
    ASSUME NEW S, NEW s \in Seq(S)
    PROVE  IsFiniteSet(Desk!Range(s)) /\ Cardinality(Desk!Range(s)) <= Len(s)
<1>1. Len(s) \in Nat /\ DOMAIN s = 1 .. Len(s) OBVIOUS
<1>2. IsFiniteSet(1 .. Len(s)) /\ Cardinality(1 .. Len(s)) = Len(s)
    <2>1. 1 \in Int /\ Len(s) \in Int BY <1>1
    <2>2. /\ IsFiniteSet(1 .. Len(s))
          /\ Cardinality(1 .. Len(s)) = IF 1 > Len(s) THEN 0 ELSE Len(s) - 1 + 1
        BY <2>1, FS_Interval
    <2> QED BY <1>1, <2>2
<1> DEFINE I == 1 .. Len(s)
           R == {s[k] : k \in I}
           f == [k \in I |-> s[k]]
<1>3. R = Desk!Range(s) BY <1>1 DEF Desk!Range
<1>4. f \in Surjection(I, R) BY DEF Surjection
<1> HIDE DEF I, R, f
<1>5. IsFiniteSet(I) BY <1>2 DEF I
<1>6. IsFiniteSet(R) /\ Cardinality(R) <= Cardinality(I) BY <1>4, <1>5, FS_Surjection
<1> QED BY <1>2, <1>3, <1>6 DEF I

LEMMA UnionIsShort ==
    ASSUME NEW A, NEW B, IsFiniteSet(A), IsFiniteSet(B)
    PROVE  IsFiniteSet(A \cup B) /\ Cardinality(A \cup B) <= Cardinality(A) + Cardinality(B)
<1>1. IsFiniteSet(A \cup B) BY FS_Union
<1>2. Cardinality(A \cup B) = Cardinality(A) + Cardinality(B) - Cardinality(A \cap B)
    BY FS_Union
<1>3. A \cap B \in SUBSET A OBVIOUS
<1>4. Cardinality(A \cap B) \in Nat BY <1>3, FS_Subset, FS_CardinalityType
<1>5. Cardinality(A) \in Nat /\ Cardinality(B) \in Nat BY FS_CardinalityType
<1> QED BY <1>1, <1>2, <1>4, <1>5

LEMMA OpenIsBounded == DeskInv => Desk!LiveWithinBound
<1> SUFFICES ASSUME DeskInv PROVE Cardinality(Desk!Open \ strays) <= maxLive
    BY DeskCardinality DEF Desk!LiveWithinBound
<1> DEFINE L == Desk!Range(live)
           C == Desk!Range(closing)
           G == IF given = 0 THEN {} ELSE {given}
           O == Desk!Open \ strays
<1>1. /\ live \in Seq(Numbers) /\ closing \in Seq(Numbers) /\ maxLive \in Nat \ {0}
      /\ 0 \notin Numbers /\ Desk!Open \subseteq Numbers
    BY DeskConstants DEF DeskInv, DeskBase, Desk!Open, Numbers
<1>2. O \subseteq L \cup C \cup G BY <1>1 DEF DeskInv, ShownInv
<1>3. /\ IsFiniteSet(L) /\ Cardinality(L) <= Len(live) /\ IsFiniteSet(C)
      /\ Cardinality(C) <= Len(closing)
    BY <1>1, RangeIsShort
<1>4. IsFiniteSet(G) /\ Cardinality(G) = IF given = 0 THEN 0 ELSE 1
    BY FS_EmptySet, FS_Singleton
<1> HIDE DEF L, C, G, O
<1>5. IsFiniteSet(L \cup C) /\ Cardinality(L \cup C) <= Cardinality(L) + Cardinality(C)
    BY <1>3, UnionIsShort
<1>6. /\ IsFiniteSet((L \cup C) \cup G)
      /\ Cardinality((L \cup C) \cup G) <= Cardinality(L \cup C) + Cardinality(G)
    BY <1>4, <1>5, UnionIsShort
<1>7. IsFiniteSet(O) /\ Cardinality(O) <= Cardinality((L \cup C) \cup G)
    BY <1>2, <1>6, FS_Subset
<1>8. /\ Cardinality(L) \in Nat /\ Cardinality(C) \in Nat /\ Cardinality(L \cup C) \in Nat
      /\ Cardinality((L \cup C) \cup G) \in Nat /\ Cardinality(O) \in Nat
      /\ Len(live) \in Nat /\ Len(closing) \in Nat /\ maxLive \in Nat
    BY <1>1, <1>3, <1>5, <1>6, <1>7, FS_CardinalityType
<1>9. Len(live) + Len(closing) + (IF given = 0 THEN 0 ELSE 1) <= maxLive
    <2>1. CASE given = 0 BY <1>8, <2>1 DEF DeskInv, RoomInv
    <2>2. CASE given # 0
        <3>1. closing = <<>> /\ Len(live) < maxLive
            <4>1. PICK a \in Alerts : state[a] = "track" BY <2>2 DEF DeskInv, LockInv
            <4>2. poster = a /\ \A b \in Alerts : state[b] \in {"post", "again"} => b = a
                BY <4>1, OneIsPosted DEF Posting
            <4>3. poster # None BY <4>2, DeskConstants
            <4> QED BY <4>1, <4>2, <4>3 DEF DeskInv, LockInv, RoomInv
        <3>2. Len(closing) = 0 BY <3>1
        <3> QED BY ONLY <1>8, <2>2, <3>1, <3>2
    <2> QED BY <2>1, <2>2
<1>10. Cardinality(O) <= maxLive BY ONLY <1>3, <1>4, <1>5, <1>6, <1>7, <1>8, <1>9
<1> QED BY <1>10 DEF O

LEMMA NotesAreNamed == DeskInv => Desk!OneNotePerChat
<1> SUFFICES ASSUME DeskInv PROVE Desk!OneNotePerChat OBVIOUS
<1>1. Len(live) \in Nat /\ Len(closing) \in Nat /\ maxLive \in Nat
    BY DeskConstants DEF DeskInv, DeskBase
<1>2. Len(live) + Len(closing) <= maxLive BY DEF DeskInv, RoomInv
<1>3. Len(live) <= maxLive BY ONLY <1>1, <1>2
<1> QED BY <1>3 DEF DeskInv, NamesInv, Desk!OneNotePerChat

-----------------------------------------------------------------------------
(* The gateway. *)
GatewayInv ==
    /\ FetchTypes /\ SweepInv /\ AccountInv /\ DeskInv /\ LinkingInv

gatewayVars == <<looking, vars, connectionVars, accountVars, alertVars, pairVars>>

LEMMA InitGatewayInv == GatewayInit => GatewayInv
BY FetchIsTyped, InitSweepInv, InitAccountInv, InitDeskInv, InitLinkingInv, LinkingAssumption
DEF GatewayInit, GatewayInv

LEMMA StepKeepsGateway == ASSUME GatewayInv, [GatewayNext]_gatewayVars PROVE GatewayInv'
<1>1. /\ [Next]_vars /\ [Connection!Next]_connectionVars /\ [Account!Next]_accountVars
      /\ [Desk!Next]_alertVars /\ [PairNext]_pairVars
    BY DEF GatewayNext, gatewayVars
<1>2. FetchTypes' BY <1>1, FetchIsTyped DEF GatewayInv
<1>3. SweepInv' BY <1>1, StepKeepsSweep DEF GatewayInv
<1>4. AccountInv' BY <1>1, StepKeepsAccount DEF GatewayInv
<1>5. DeskInv' BY <1>1, StepKeepsDesk DEF GatewayInv
<1>6. LinkingInv' BY <1>1, StepKeepsLinking, LinkingAssumption DEF GatewayInv
<1> QED BY <1>2, <1>3, <1>4, <1>5, <1>6 DEF GatewayInv

(* The variables of the five parts keep their types, whatever the number of *)
(* readers, alerts, pages, requests and attempts: above all the server      *)
(* never runs out of the numbers the alerts are given, the sweep stays      *)
(* within its rounds, and no caller of the settings loses its place.        *)
THEOREM GatewayTypes == GatewaySpec => []GatewayTypeOK
<1>1. GatewayInit => GatewayInv BY InitGatewayInv
<1>2. GatewayInv /\ [GatewayNext]_gatewayVars => GatewayInv' BY StepKeepsGateway
<1>3. GatewayInv => GatewayTypeOK
    BY FetchIsTyped, DeskIsTyped DEF GatewayInv, SweepInv, AccountInv, LinkingInv, GatewayTypeOK
<1> QED BY <1>1, <1>2, <1>3, PTL DEF GatewaySpec, gatewayVars

(* A conversation is marked as finished, for good, only where a sweep itself*)
(* asked for the next page or found no message to ask from, whatever the    *)
(* readers ask, the phone answers and the connection and the database do    *)
(* (collectHistory, collectChatHistory).                                    *)
THEOREM SweepsFinishByOwnLook == GatewaySpec => []Connection!FinishedByOwnLook
<1>1. GatewayInit => GatewayInv BY InitGatewayInv
<1>2. GatewayInv /\ [GatewayNext]_gatewayVars => GatewayInv' BY StepKeepsGateway
<1>3. GatewayInv => Connection!FinishedByOwnLook BY DEF GatewayInv, SweepInv
<1> QED BY <1>1, <1>2, <1>3, PTL DEF GatewaySpec, gatewayVars

(* The phone is not asked over and over for the whole collection, by however*)
(* many connections, changes and troubles, and the mark that the collection *)
(* was fetched as a whole is earned (requestAppStateRecovery,               *)
(* backfillAppState).                                                       *)
THEOREM PhoneIsLeftAlone ==
    GatewaySpec => []Account!MarkIsEarned /\ []Account!PhoneIsNotPestered
<1>1. GatewayInit => GatewayInv BY InitGatewayInv
<1>2. GatewayInv /\ [GatewayNext]_gatewayVars => GatewayInv' BY StepKeepsGateway
<1>3. GatewayInv => Account!MarkIsEarned /\ Account!PhoneIsNotPestered
    BY NobodyIsPestered DEF GatewayInv, AccountInv
<1> QED BY <1>1, <1>2, <1>3, PTL DEF GatewaySpec, gatewayVars

(* However many alerts come, for whatever chats and at whatever limit: what *)
(* is open on the server stays within the limit, each chat has one          *)
(* notification, and a click on one opens its chat (Notify, reserveLiveSlot-*)
(* Locked, takeLiveLocked, forgetLiveLocked, watchActions).                 *)
THEOREM DeskKeepsItsBounds ==
    GatewaySpec =>
        []Desk!LiveWithinBound /\ []Desk!OneNotePerChat /\ []Desk!OpenOnesAreClickable
<1>1. GatewayInit => GatewayInv BY InitGatewayInv
<1>2. GatewayInv /\ [GatewayNext]_gatewayVars => GatewayInv' BY StepKeepsGateway
<1>3. GatewayInv =>
          Desk!LiveWithinBound /\ Desk!OneNotePerChat /\ Desk!OpenOnesAreClickable
    BY OpenIsBounded, NotesAreNamed DEF GatewayInv, DeskInv, ShownInv
<1> QED BY <1>1, <1>2, <1>3, PTL DEF GatewaySpec, gatewayVars

=============================================================================
