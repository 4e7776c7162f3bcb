----------------------------- MODULE GroupEdits -----------------------------
(* The edits of one thing about a group: its name, its description, a       *)
(* permission, its photo, a member, a request to join, whether the account  *)
(* is in it, and of a community its description and whether a group belongs *)
(* to it. WhatsApp holds the value; other admins change it from their own   *)
(* devices; an edit reads it, compares it with what its editor showed and   *)
(* asks WhatsApp to set it, and the answer of WhatsApp can be lost.         *)
(*                                                                          *)
(* Sources: internal/whatsapp/groupedit.go, grouppermissions.go,            *)
(*          groupphoto.go, grouprequests.go, groups.go, features.go         *)
EXTENDS Naturals

CONSTANTS
    Editors,   \* editors that are open at the same time
    MaxEdits,  \* bound: edits that are submitted
    MaxOthers, \* bound: changes made by others
    None

EditsAssumption ==
    MaxEdits \in Nat /\ MaxOthers \in Nat /\ None \notin Editors /\ None \notin Nat

VARIABLES
    field,    \* what is edited
    current,  \* its value; of a request, which one is pending, 0 for none
    topic,    \* the version WhatsApp gives to descriptions
    changes,  \* changes made by others
    notice,   \* the newest change this device has not been told of
    edits,    \* edits submitted
    stage,    \* how far an edit is
    previous, \* the value its editor showed
    wanted,   \* the value it asks for
    reading,  \* what an edit under way read of the group
    outcome,  \* how the edit was answered
    display,   \* what a client shows that reads the group again at its events
    listed,   \* the title or photo in the list of chats
    foreign,  \* history: somebody else changed the value while the editor was open
    overtaken,    \* history: ... after the edit had read it
    replaced, \* history: the value the edit replaced
    hidden,   \* history: an edit was carried out and no event told of it
    unlisted  \* history: the list of chats took no value or one that was over

vars == <<field, current, topic, changes, notice, edits, stage, previous, wanted, reading,
          outcome, display, listed, foreign, overtaken, replaced, hidden, unlisted>>

edit == <<previous, wanted, reading, outcome>>

Fields == {"name", "description", "permission", "photo", "member", "request", "leave",
           "community", "link"}

Compared  == Fields \ {"photo", "leave"}  \* with what the editor showed
Repeated  == {"name", "description", "permission"}  \* a value already there is no error
Versioned == {"description", "community"} \* WhatsApp compares the version
ReadAgain == {"request", "link"}          \* admin rights are read first
AnyEnding == {"permission", "photo", "request"}  \* announced after errors too
Listed    == {"name", "photo"}            \* kept in the list of chats

Values == IF field \in {"name", "description", "photo", "community", "request"} THEN 0..2 ELSE 0..1

(* A request is decided, which leaves none; one that is made again is a     *)
(* request of another time.                                                 *)
Wishes == IF field = "request" THEN {0} ELSE Values

Init ==
    /\ field \in Fields
    /\ current = IF field = "request" THEN 1 ELSE 0
    /\ topic = 0 /\ changes = 0 /\ notice = None /\ edits = 0
    /\ stage = [e \in Editors |-> "closed"]
    /\ previous = [e \in Editors |-> 0] /\ wanted = [e \in Editors |-> 0]
    /\ reading = [e \in Editors |-> None]
    /\ outcome = [e \in Editors |-> "none"]
    /\ display = current /\ listed = current
    /\ foreign = [e \in Editors |-> FALSE] /\ overtaken = [e \in Editors |-> FALSE]
    /\ replaced = [e \in Editors |-> None]
    /\ hidden = FALSE /\ unlisted = FALSE

-----------------------------------------------------------------------------
(* Others. *)

(* Everybody but by has somebody else change what they look at.             *)
ChangedFor(by) ==
    /\ foreign' = [e \in Editors |-> foreign[e] \/ (e # by /\ stage[e] # "closed")]
    /\ overtaken' = [e \in Editors |->
           overtaken[e] \/ (e # by /\ stage[e] \in {"look", "decide", "set"})]

(* WhatsApp gives a new version to a description that is set.               *)
Renewed == topic' = IF field \in Versioned THEN topic + 1 ELSE topic

(* Another member changes it; nobody reports photos to this device.         *)
OthersChange ==
    /\ changes < MaxOthers /\ field # "photo"
    /\ \E v \in Values \ {current} : current' = v /\ notice' = v
    /\ Renewed /\ changes' = changes + 1
    /\ ChangedFor(None)
    /\ UNCHANGED <<field, edits, stage, edit, display, listed, replaced, hidden, unlisted>>

(* Mutant: the notice of a new name is announced and not kept.              *)
NotifiedOnly ==
    /\ notice # None
    /\ display' = current /\ notice' = None
    /\ UNCHANGED <<field, current, topic, changes, edits, stage, edit, listed, foreign, overtaken,
                   replaced, hidden, unlisted>>

(* The notice arrives. Clients read the group; a new name goes to the list. *)
Notified ==
    /\ notice # None
    /\ display' = current /\ notice' = None
    /\ listed' = IF field = "name" THEN notice ELSE listed
    /\ hidden' = FALSE
    /\ unlisted' = IF field = "name" THEN notice # current ELSE unlisted
    /\ UNCHANGED <<field, current, topic, changes, edits, stage, edit, foreign, overtaken,
                   replaced>>

-----------------------------------------------------------------------------
(* An editor. *)

(* The reader opens the editor, which reads the group, and drafts a value.  *)
Open(e) ==
    /\ stage[e] = "closed" /\ edits < MaxEdits
    /\ stage' = [stage EXCEPT ![e] = "draft"]
    /\ previous' = [previous EXCEPT ![e] = current]
    /\ \E v \in Wishes \ {current} : wanted' = [wanted EXCEPT ![e] = v]
    /\ UNCHANGED <<field, current, topic, changes, notice, edits, reading, outcome, display,
                   listed, foreign, overtaken, replaced, hidden, unlisted>>

Close(e) ==
    /\ stage[e] = "draft" /\ outcome[e] # "none"
    /\ stage' = [stage EXCEPT ![e] = "closed"]
    /\ outcome' = [outcome EXCEPT ![e] = "none"]
    /\ replaced' = [replaced EXCEPT ![e] = None]
    /\ previous' = [previous EXCEPT ![e] = 0] /\ wanted' = [wanted EXCEPT ![e] = 0]
    /\ foreign' = [foreign EXCEPT ![e] = FALSE] /\ overtaken' = [overtaken EXCEPT ![e] = FALSE]
    /\ UNCHANGED <<field, current, topic, changes, notice, edits, reading, display, listed,
                   hidden, unlisted>>

(* readGroup; the same draft may be submitted again after an error.         *)
ReadGroup(e) ==
    /\ stage[e] = "draft" /\ edits < MaxEdits /\ outcome[e] \in {"none", "error"}
    /\ edits' = edits + 1
    /\ stage' = [stage EXCEPT ![e] = IF field \in ReadAgain THEN "look" ELSE "decide"]
    /\ reading' = [reading EXCEPT ![e] = [value |-> current, topic |-> topic]]
    /\ outcome' = [outcome EXCEPT ![e] = "none"]
    /\ overtaken' = [overtaken EXCEPT ![e] = FALSE] /\ replaced' = [replaced EXCEPT ![e] = None]
    /\ UNCHANGED <<field, current, topic, changes, notice, previous, wanted, display, listed,
                   foreign, hidden, unlisted>>

(* The pending requests, or the group that is to be linked.                 *)
LookAgain(e) ==
    /\ stage[e] = "look"
    /\ stage' = [stage EXCEPT ![e] = "decide"]
    /\ reading' = [reading EXCEPT ![e] = [value |-> current, topic |-> topic]]
    /\ overtaken' = [overtaken EXCEPT ![e] = FALSE]
    /\ UNCHANGED <<field, current, topic, changes, notice, edits, previous, wanted, outcome,
                   display, listed, foreign, replaced, hidden, unlisted>>

(* The edit ends: clients read the group at its event, if there is one.     *)
Answer(e, how, announced) ==
    /\ stage' = [stage EXCEPT ![e] = "draft"]
    /\ outcome' = [outcome EXCEPT ![e] = how]
    /\ reading' = [reading EXCEPT ![e] = None]
    /\ display' = IF announced THEN current ELSE display
    /\ hidden' = (hidden /\ ~announced)

(* Mutant: the value is compared with the editor's before anything else.    *)
VerdictOfOnce(e) ==
    IF field \in Compared /\ reading[e].value # previous[e] THEN "changed" ELSE "set"

(* Mutant: what the editor showed is not compared.                          *)
VerdictWithoutPrevious(e) ==
    IF field \in Repeated /\ reading[e].value = wanted[e] THEN "ok" ELSE "set"

(* A value that is already there is a retry; one that is neither is new.    *)
Verdict(e) ==
    IF field \in Repeated /\ reading[e].value = wanted[e] THEN "ok"
    ELSE IF field \in Compared /\ reading[e].value # previous[e] THEN "changed" ELSE "set"

(* No connection, no such group, no right to edit it any more.              *)
Refuse(e) ==
    /\ stage[e] \in {"look", "decide"}
    /\ Answer(e, "error", stage[e] = "decide" /\ field \in AnyEnding)
    /\ UNCHANGED <<field, current, topic, changes, notice, edits, previous, wanted, listed,
                   foreign, overtaken, replaced, unlisted>>

Decide(e) ==
    /\ stage[e] = "decide"
    /\ IF Verdict(e) = "set"
       THEN stage' = [stage EXCEPT ![e] = "set"] /\ UNCHANGED <<outcome, reading, display, hidden>>
       ELSE Answer(e, Verdict(e), field \in AnyEnding)
    /\ UNCHANGED <<field, current, topic, changes, notice, edits, previous, wanted, listed,
                   foreign, overtaken, replaced, unlisted>>

(* WhatsApp carries the edit out, and answers or its answer is lost.        *)
Apply(e) ==
    /\ stage[e] = "set"
    /\ field \in Versioned => topic = reading[e].topic
    /\ current' = wanted[e] /\ Renewed
    /\ replaced' = [replaced EXCEPT ![e] = current]
    /\ \E next \in {"done", "failed"} : stage' = [stage EXCEPT ![e] = next]
    /\ hidden' = TRUE /\ unlisted' = TRUE
    /\ ChangedFor(e)
    /\ UNCHANGED <<field, changes, notice, edits, edit, display, listed>>

(* WhatsApp refuses it, or it never arrives.                                *)
Reject(e) ==
    /\ stage[e] = "set"
    /\ stage' = [stage EXCEPT ![e] = IF field = "member" THEN "partial" ELSE "failed"]
    /\ UNCHANGED <<field, current, topic, changes, notice, edits, edit, display, listed, foreign,
                   overtaken, replaced, hidden, unlisted>>

(* The list of chats takes the value unless the database fails; of a name   *)
(* that error is ignored, of a photo it is the answer.                      *)
Succeed(e) ==
    /\ stage[e] = "done"
    /\ \E kept \in BOOLEAN :
           /\ Answer(e, IF field = "photo" /\ ~kept THEN "error" ELSE "ok", TRUE)
           /\ listed' = IF field \in Listed /\ kept THEN wanted[e] ELSE listed
           /\ unlisted' = (field \in Listed /\ (~kept \/ current # wanted[e]))
    /\ UNCHANGED <<field, current, topic, changes, notice, edits, previous, wanted, foreign,
                   overtaken, replaced>>

(* Mutant: an edit that failed is not announced.                            *)
FailQuietly(e) ==
    /\ stage[e] \in {"failed", "partial"}
    /\ Answer(e, "error", stage[e] = "partial")
    /\ UNCHANGED <<field, current, topic, changes, notice, edits, previous, wanted, listed,
                   foreign, overtaken, replaced, unlisted>>

(* A lost answer may hide a change, so some edits are announced after       *)
(* errors; of members, when WhatsApp answered and could not change them.    *)
Fail(e) ==
    /\ stage[e] \in {"failed", "partial"}
    /\ Answer(e, "error", field \in AnyEnding \/ stage[e] = "partial")
    /\ UNCHANGED <<field, current, topic, changes, notice, edits, previous, wanted, listed,
                   foreign, overtaken, replaced, unlisted>>

Next ==
    \/ OthersChange \/ Notified
    \/ \E e \in Editors :
           \/ Open(e) \/ Close(e) \/ ReadGroup(e) \/ LookAgain(e) \/ Refuse(e) \/ Decide(e)
           \/ Apply(e) \/ Reject(e) \/ Succeed(e) \/ Fail(e)

Spec == Init /\ [][Next]_vars

-----------------------------------------------------------------------------
(* The variables stay in their types.                                       *)
Stages   == {"closed", "draft", "look", "decide", "set", "done", "failed", "partial"}
Outcomes == {"none", "ok", "changed", "error"}

TypeOK ==
    /\ field \in Fields
    /\ current \in Values /\ display \in Values /\ listed \in Values
    /\ topic \in Nat /\ changes \in 0..MaxOthers /\ edits \in 0..MaxEdits
    /\ notice \in Values \cup {None}
    /\ stage \in [Editors -> Stages]
    /\ previous \in [Editors -> Values] /\ wanted \in [Editors -> Values]
    /\ reading \in [Editors -> [value : Values, topic : Nat] \cup {None}]
    /\ outcome \in [Editors -> Outcomes]
    /\ replaced \in [Editors -> Values \cup {None}]
    /\ foreign \in [Editors -> BOOLEAN] /\ overtaken \in [Editors -> BOOLEAN]
    /\ hidden \in BOOLEAN /\ unlisted \in BOOLEAN

(* An edit replaces the value its editor showed, and decides about the      *)
(* request its editor showed, never a later one: of a description always,   *)
(* of the others unless it changed between reading it and setting it.       *)
EditReplacesWhatWasShown ==
    \A e \in Editors :
        (field \in Compared /\ replaced[e] # None) =>
            replaced[e] = previous[e] \/ (field \notin Versioned /\ overtaken[e])

(* A reader is told that the value has changed only when somebody else has  *)
(* changed it: submitting a draft again whose answer was lost succeeds      *)
(* (groupedit.go:45-48, grouppermissions.go:70-72).                         *)
ChangedMeansOthersChanged ==
    \A e \in Editors : (field \in Repeated /\ outcome[e] = "changed") => foreign[e]

(* With no edit under way a client shows the value the group has. After an  *)
(* edit that failed it may not: the event is left out although the change   *)
(* may have been made. Not so for permissions, photos and requests.         *)
GroupReadersCatchUp ==
    (/\ notice = None
     /\ \A e \in Editors : stage[e] \in {"closed", "draft"}
     /\ field \in AnyEnding \/ ~hidden) => display = current

(* The list of chats has the group's name or photo, whoever set it last,    *)
(* unless the database failed, the answer was lost, or what was stored last *)
(* had already been replaced by then.                                       *)
ListShowsTheGroup ==
    (/\ field \in Listed /\ notice = None /\ ~unlisted
     /\ \A e \in Editors : stage[e] \in {"closed", "draft"}) => listed = current

(* What an edit is answered is true: it replaced what its editor showed, or *)
(* somebody else had changed it.                                            *)
VerdictsAreTrue == EditReplacesWhatWasShown /\ ChangedMeansOthersChanged

(* Clients and the list of chats end with what the group has.               *)
GroupViewsCatchUp == GroupReadersCatchUp /\ ListShowsTheGroup

=============================================================================
