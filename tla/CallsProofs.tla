----------------------------- MODULE CallsProofs -----------------------------
(* What clients ask for, for any number of callers and editors: what an     *)
(* edit of a group is answered is true, and what clients show of it catches *)
(* up (GroupEdits); a call leaves the account, the database and the screens *)
(* in agreement, and tells what it changes (ServiceCalls).                  *)
EXTENDS MCChats, SequenceTheorems, TLAPS

-----------------------------------------------------------------------------
(* The edits of a group.                                                    *)

UnderWay == {"look", "decide", "set"}
Reading  == [value : Values, topic : Nat]

(* An edit under way has read the group, and has replaced nothing yet. What *)
(* it read is what the group has unless somebody came in between; WhatsApp  *)
(* compares the version of a description, so there it is what it has.       *)
ReadInv(e) ==
    stage[e] \in UnderWay =>
        /\ reading[e] \in Reading
        /\ replaced[e] = None
        /\ overtaken[e] \/ reading[e].value = current
        /\ reading[e].topic <= topic
        /\ (field \in Versioned /\ reading[e].topic = topic) => reading[e].value = current

(* An edit is sent for what its editor showed.                              *)
SetInv(e) == (stage[e] = "set" /\ field \in Compared) => reading[e].value = previous[e]

(* Unless somebody else changed it, the group has what the editor showed or *)
(* what its edits ask for, and that is what they read.                      *)
OwnInv(e) ==
    (stage[e] # "closed" /\ ~foreign[e]) =>
        /\ current \in {previous[e], wanted[e]}
        /\ stage[e] \in UnderWay => reading[e].value \in {previous[e], wanted[e]}

(* A closed editor has no answer and has replaced nothing.                  *)
ClosedInv(e) == stage[e] = "closed" => outcome[e] = "none" /\ replaced[e] = None

(* The two promises, for one editor.                                        *)
Shown(e) ==
    (field \in Compared /\ replaced[e] # None) =>
        replaced[e] = previous[e] \/ (field \notin Versioned /\ overtaken[e])
Told(e) == (field \in Repeated /\ outcome[e] = "changed") => foreign[e]

EditorInv(e) == ReadInv(e) /\ SetInv(e) /\ OwnInv(e) /\ ClosedInv(e) /\ Shown(e) /\ Told(e)

EditsInv == TypeOK /\ \A e \in Editors : EditorInv(e)

LEMMA InitEditsInv == ASSUME EditsAssumption, Init PROVE EditsInv
<1>1. TypeOK
    <2>1. {0, IF field = "request" THEN 1 ELSE 0} \subseteq Values BY DEF Values
    <2>2. /\ stage \in [Editors -> Stages] /\ outcome \in [Editors -> Outcomes]
          /\ foreign \in [Editors -> BOOLEAN] /\ overtaken \in [Editors -> BOOLEAN]
        BY DEF Init, Stages, Outcomes
    <2>3. current \in Values /\ display \in Values /\ listed \in Values
        BY <2>1 DEF Init
    <2>4. /\ previous \in [Editors -> Values] /\ wanted \in [Editors -> Values]
          /\ reading \in [Editors -> [value : Values, topic : Nat] \cup {None}]
          /\ replaced \in [Editors -> Values \cup {None}]
        BY <2>1 DEF Init
    <2>5. topic \in Nat /\ changes \in 0..MaxOthers /\ edits \in 0..MaxEdits
        BY DEF EditsAssumption, Init
    <2>6. field \in Fields /\ notice \in Values \cup {None}
        BY DEF Init
    <2>7. hidden \in BOOLEAN /\ unlisted \in BOOLEAN
        BY DEF Init
    <2> QED BY <2>2, <2>3, <2>4, <2>5, <2>6, <2>7 DEF TypeOK
<1>2. ASSUME NEW e \in Editors PROVE EditorInv(e)
    BY DEF Init, EditorInv, ReadInv, SetInv, OwnInv, ClosedInv, Shown, Told, UnderWay
<1> QED BY <1>1, <1>2 DEF EditsInv

-----------------------------------------------------------------------------

LEMMA AnswerKeepsEditTypes ==
    ASSUME TypeOK, NEW e \in Editors, NEW how \in {"ok", "changed", "error"},
           NEW announced \in BOOLEAN, Answer(e, how, announced)
    PROVE  /\ stage' \in [Editors -> Stages] /\ outcome' \in [Editors -> Outcomes]
           /\ reading' \in [Editors -> [value : Values, topic : Nat] \cup {None}]
           /\ display' \in Values /\ hidden' \in BOOLEAN
BY DEF TypeOK, Answer, Stages, Outcomes

LEMMA StepKeepsEditTypes == ASSUME EditsAssumption, TypeOK, [Next]_vars PROVE TypeOK'
<1> USE DEF TypeOK
<1>0. Wishes \subseteq Values /\ 0 \in Values BY DEF Wishes, Values
<1>v. field' = field => Values' = Values BY DEF Values
<1>1. CASE UNCHANGED vars BY <1>1, <1>v DEF vars
<1>2. CASE OthersChange
    <2>1. topic' \in Nat BY <1>2 DEF OthersChange, Renewed
    <2>2. /\ foreign' \in [Editors -> BOOLEAN] /\ overtaken' \in [Editors -> BOOLEAN]
        BY <1>2 DEF OthersChange, ChangedFor
    <2> QED BY <1>2, <1>v, <2>1, <2>2 DEF OthersChange, edit, EditsAssumption
<1>3. CASE Notified
    BY <1>3, <1>v DEF Notified, edit
<1>4. ASSUME NEW e \in Editors, Open(e) PROVE TypeOK'
    BY <1>0, <1>v, <1>4 DEF Open, Stages
<1>5. ASSUME NEW e \in Editors, Close(e) PROVE TypeOK'
    BY <1>0, <1>v, <1>5 DEF Close, Stages, Outcomes
<1>6. ASSUME NEW e \in Editors, ReadGroup(e) \/ LookAgain(e) PROVE TypeOK'
    <2>1. [value |-> current, topic |-> topic] \in [value : Values, topic : Nat] OBVIOUS
    <2>2. reading' \in [Editors -> [value : Values, topic : Nat] \cup {None}]
        BY <1>6, <2>1 DEF ReadGroup, LookAgain
    <2>3. stage' \in [Editors -> Stages] /\ outcome' \in [Editors -> Outcomes]
        BY <1>6 DEF ReadGroup, LookAgain, Stages, Outcomes
    <2>4. overtaken' \in [Editors -> BOOLEAN]
        BY <1>6 DEF ReadGroup, LookAgain
    <2>5. edits' \in 0..MaxEdits
        BY <1>6 DEF ReadGroup, LookAgain, EditsAssumption
    <2> QED BY <1>6, <1>v, <2>2, <2>3, <2>4, <2>5 DEF ReadGroup, LookAgain
<1>8. ASSUME NEW e \in Editors, Refuse(e) \/ Fail(e) PROVE TypeOK'
    <2>1. PICK announced \in BOOLEAN : Answer(e, "error", announced)
        BY <1>8 DEF Refuse, Fail
    <2> QED BY <1>8, <1>v, <2>1, AnswerKeepsEditTypes DEF Refuse, Fail
<1>9. ASSUME NEW e \in Editors, Decide(e) PROVE TypeOK'
    <2>1. CASE Verdict(e) = "set"
        BY <1>9, <1>v, <2>1 DEF Decide, Stages
    <2>2. CASE Verdict(e) # "set"
        <3>1. Verdict(e) \in {"ok", "changed", "error"} BY <2>2 DEF Verdict
        <3>2. PICK announced \in BOOLEAN : Answer(e, Verdict(e), announced)
            <4>1. Answer(e, Verdict(e), field \in AnyEnding) BY <1>9, <2>2 DEF Decide
            <4>2. (field \in AnyEnding) \in BOOLEAN OBVIOUS
            <4> QED BY <4>1, <4>2
        <3> QED BY <1>9, <1>v, <3>1, <3>2, <2>2, AnswerKeepsEditTypes DEF Decide
    <2> QED BY <2>1, <2>2
<1>10. ASSUME NEW e \in Editors, Apply(e) PROVE TypeOK'
    <2>1. topic' \in Nat BY <1>10 DEF Apply, Renewed
    <2>2. /\ foreign' \in [Editors -> BOOLEAN] /\ overtaken' \in [Editors -> BOOLEAN]
        BY <1>10 DEF Apply, ChangedFor
    <2>3. stage' \in [Editors -> Stages] BY <1>10 DEF Apply, Stages
    <2> QED BY <1>10, <1>v, <2>1, <2>2, <2>3 DEF Apply, edit
<1>11. ASSUME NEW e \in Editors, Reject(e) PROVE TypeOK'
    BY <1>11, <1>v DEF Reject, edit, Stages
<1>12. ASSUME NEW e \in Editors, Succeed(e) PROVE TypeOK'
    <2>1. PICK kept \in BOOLEAN :
              /\ Answer(e, IF field = "photo" /\ ~kept THEN "error" ELSE "ok", TRUE)
              /\ listed' = IF field \in Listed /\ kept THEN wanted[e] ELSE listed
              /\ unlisted' = (field \in Listed /\ (~kept \/ current # wanted[e]))
        BY <1>12 DEF Succeed
    <2>2. listed' \in Values /\ unlisted' \in BOOLEAN BY <2>1
    <2>3. /\ stage' \in [Editors -> Stages] /\ outcome' \in [Editors -> Outcomes]
          /\ reading' \in [Editors -> [value : Values, topic : Nat] \cup {None}]
          /\ display' \in Values /\ hidden' \in BOOLEAN
        BY <2>1, AnswerKeepsEditTypes
    <2> QED BY <1>12, <1>v, <2>2, <2>3 DEF Succeed
<1> QED
    BY <1>1, <1>2, <1>3, <1>4, <1>5, <1>6, <1>8, <1>9, <1>10, <1>11, <1>12 DEF Next

-----------------------------------------------------------------------------
Same(e) ==
    /\ stage'[e] = stage[e] /\ previous'[e] = previous[e] /\ wanted'[e] = wanted[e]
    /\ reading'[e] = reading[e] /\ outcome'[e] = outcome[e] /\ replaced'[e] = replaced[e]

(* An editor nothing happens to.                                            *)
LEMMA UntouchedEditor ==
    ASSUME NEW e \in Editors, EditorInv(e), Same(e),
           field' = field, current' = current, topic' = topic,
           foreign'[e] = foreign[e], overtaken'[e] = overtaken[e]
    PROVE  EditorInv(e)'
<1>1. Values' = Values BY DEF Values
<1> QED
    BY <1>1 DEF Same, EditorInv, ReadInv, SetInv, OwnInv, ClosedInv, Shown, Told, Reading, UnderWay

(* An editor under which the value is changed.                              *)
LEMMA OvertakenEditor ==
    ASSUME TypeOK, NEW by, NEW e \in Editors, e # by, EditorInv(e), Same(e), ChangedFor(by),
           Renewed, field' = field
    PROVE  EditorInv(e)'
<1> USE DEF EditorInv, Same
<1>1. Values' = Values BY DEF Values
<1>2. (stage[e] # "closed" \/ foreign[e]) => foreign'[e]
    BY DEF ChangedFor
<1>3. (stage[e] \in UnderWay \/ overtaken[e]) => overtaken'[e]
    BY DEF ChangedFor, UnderWay
<1>4. ReadInv(e)'
    <2> SUFFICES ASSUME stage[e] \in UnderWay PROVE ReadInv(e)'
        BY DEF ReadInv, UnderWay
    <2>1. /\ reading[e] \in Reading /\ reading[e].topic \in Nat /\ replaced[e] = None
          /\ reading[e].topic <= topic
        BY DEF ReadInv, Reading
    <2>2. topic' = (IF field \in Versioned THEN topic + 1 ELSE topic) /\ topic \in Nat
        BY DEF Renewed, TypeOK
    <2>3. reading[e].topic <= topic' /\ (field \in Versioned => reading[e].topic # topic')
        BY <2>1, <2>2
    <2> QED BY <1>1, <1>3, <2>1, <2>3 DEF ReadInv, Reading, UnderWay, Versioned
<1>5. SetInv(e)' BY DEF SetInv, Compared, Fields
<1>6. OwnInv(e)' BY <1>2 DEF OwnInv
<1>7. ClosedInv(e)' BY DEF ClosedInv
<1>8. Shown(e)' BY <1>3 DEF Shown, Compared, Fields, Versioned
<1>9. Told(e)'
    <2>1. outcome[e] = "changed" => stage[e] # "closed" BY DEF ClosedInv
    <2> QED BY <1>2, <2>1 DEF Told, Repeated
<1> QED BY <1>4, <1>5, <1>6, <1>7, <1>8, <1>9

(* The other editors, while one of them goes on.                            *)
LEMMA EditorLeavesOthers ==
    ASSUME EditsInv, NEW d \in Editors,
           \/ Open(d) \/ Close(d) \/ ReadGroup(d) \/ LookAgain(d) \/ Refuse(d) \/ Decide(d)
           \/ Apply(d) \/ Reject(d) \/ Succeed(d) \/ Fail(d),
           NEW e \in Editors, e # d
    PROVE  EditorInv(e)'
<1> USE DEF EditsInv, TypeOK
<1>1. Same(e)
    BY DEF Same, Open, Close, ReadGroup, LookAgain, Refuse, Decide, Apply, Reject, Succeed, Fail,
           Answer, edit
<1>2. CASE Apply(d)
    BY <1>1, <1>2, OvertakenEditor DEF Apply
<1>3. CASE ~Apply(d)
    <2>1. /\ field' = field /\ current' = current /\ topic' = topic
          /\ foreign'[e] = foreign[e] /\ overtaken'[e] = overtaken[e]
        BY <1>3 DEF Open, Close, ReadGroup, LookAgain, Refuse, Decide, Reject, Succeed, Fail,
                    Answer, edit
    <2> QED BY <1>1, <2>1, UntouchedEditor
<1> QED BY <1>2, <1>3

-----------------------------------------------------------------------------
(* The editor that goes on.                                                 *)
LEMMA OpenKeeps == ASSUME EditsInv, NEW e \in Editors, Open(e) PROVE EditorInv(e)'
<1> USE DEF EditsInv, TypeOK, Open
<1>1. stage'[e] = "draft" /\ previous'[e] = current OBVIOUS
<1>2. outcome'[e] = "none" /\ replaced'[e] = None BY DEF EditorInv, ClosedInv
<1> QED
    BY <1>1, <1>2 DEF EditorInv, ReadInv, SetInv, OwnInv, ClosedInv, Shown, Told, UnderWay

LEMMA CloseKeeps == ASSUME EditsInv, NEW e \in Editors, Close(e) PROVE EditorInv(e)'
<1>1. stage'[e] = "closed" /\ outcome'[e] = "none" /\ replaced'[e] = None
    BY DEF EditsInv, TypeOK, Close
<1> QED
    BY <1>1 DEF EditorInv, ReadInv, SetInv, OwnInv, ClosedInv, Shown, Told, UnderWay

LEMMA ReadKeeps ==
    ASSUME EditsInv, NEW e \in Editors, ReadGroup(e) \/ LookAgain(e) PROVE EditorInv(e)'
<1> USE DEF EditsInv
<1>1. /\ stage'[e] \in {"look", "decide"} /\ stage[e] # "closed"
      /\ reading'[e] = [value |-> current, topic |-> topic]
      /\ previous' = previous /\ wanted' = wanted /\ foreign' = foreign
      /\ field' = field /\ current' = current /\ topic' = topic
    BY DEF TypeOK, ReadGroup, LookAgain
<1>2. replaced'[e] = None
    BY DEF TypeOK, ReadGroup, LookAgain, EditorInv, ReadInv, UnderWay
<1>3. (outcome'[e] = "changed") => (outcome[e] = "changed")
    BY DEF TypeOK, ReadGroup, LookAgain
<1>4. current \in Values /\ topic \in Nat /\ Values' = Values
    BY <1>1 DEF TypeOK, Values
<1>5. ReadInv(e)'
    BY <1>1, <1>2, <1>4 DEF ReadInv, Reading
<1>6. OwnInv(e)' BY <1>1 DEF EditorInv, OwnInv
<1>7. Shown(e)' BY <1>2 DEF Shown
<1>8. Told(e)' BY <1>1, <1>3 DEF EditorInv, Told, Repeated
<1>9. SetInv(e)' /\ ClosedInv(e)' BY <1>1 DEF SetInv, ClosedInv
<1> QED BY <1>5, <1>6, <1>7, <1>8, <1>9 DEF EditorInv

(* The edit ends, with an answer that is true.                              *)
LEMMA AnswerKeeps ==
    ASSUME EditsInv, NEW e \in Editors, NEW how, NEW announced, Answer(e, how, announced),
           stage[e] # "closed",
           UNCHANGED <<field, current, previous, wanted, foreign, overtaken, replaced>>,
           (field \in Repeated /\ how = "changed") => foreign[e]
    PROVE  EditorInv(e)'
<1>1. stage'[e] = "draft" /\ outcome'[e] = how
    BY DEF EditsInv, TypeOK, Answer
<1>2. OwnInv(e)' BY <1>1 DEF EditsInv, EditorInv, OwnInv, UnderWay
<1>3. Shown(e)' BY DEF EditsInv, EditorInv, Shown, Compared, Fields, Versioned
<1>4. Told(e)' BY <1>1 DEF Told, Repeated
<1> QED BY <1>1, <1>2, <1>3, <1>4 DEF EditorInv, ReadInv, SetInv, ClosedInv, UnderWay

LEMMA DecideKeeps == ASSUME EditsInv, NEW e \in Editors, Decide(e) PROVE EditorInv(e)'
<1>1. /\ stage[e] = "decide" /\ EditorInv(e)
      /\ UNCHANGED <<field, current, topic, previous, wanted, foreign, overtaken, replaced>>
    BY DEF EditsInv, Decide
<1>2. CASE Verdict(e) = "set"
    <2>1. /\ stage'[e] = "set" /\ reading' = reading /\ outcome' = outcome
        BY <1>2 DEF EditsInv, TypeOK, Decide
    <2>2. field \in Compared => reading[e].value = previous[e]
        BY <1>2 DEF Verdict
    <2>3. Values' = Values BY <1>1 DEF Values
    <2>4. ReadInv(e)' BY <1>1, <2>1, <2>3 DEF EditorInv, ReadInv, UnderWay, Reading, Versioned
    <2>5. SetInv(e)' BY <1>1, <2>1, <2>2 DEF SetInv, Compared, Fields
    <2>6. OwnInv(e)' BY <1>1, <2>1 DEF EditorInv, OwnInv, UnderWay
    <2>7. ClosedInv(e)' BY <2>1 DEF ClosedInv
    <2>8. Shown(e)' /\ Told(e)'
        BY <1>1, <2>1 DEF EditorInv, Shown, Told, Compared, Fields, Versioned, Repeated
    <2> QED BY <2>4, <2>5, <2>6, <2>7, <2>8 DEF EditorInv
<1>3. CASE Verdict(e) # "set"
    <2>1. Answer(e, Verdict(e), field \in AnyEnding) BY <1>3 DEF Decide
    <2>2. (field \in Repeated /\ Verdict(e) = "changed") => foreign[e]
        <3> SUFFICES ASSUME field \in Repeated, Verdict(e) = "changed", ~foreign[e] PROVE FALSE
            OBVIOUS
        <3>1. reading[e].value # wanted[e] /\ reading[e].value # previous[e]
            BY DEF Verdict
        <3>2. reading[e].value \in {previous[e], wanted[e]}
            BY <1>1 DEF EditorInv, OwnInv, UnderWay
        <3> QED BY <3>1, <3>2
    <2> QED BY <1>1, <2>1, <2>2, AnswerKeeps
<1> QED BY <1>2, <1>3

LEMMA ApplyKeeps == ASSUME EditsInv, NEW e \in Editors, Apply(e) PROVE EditorInv(e)'
<1>1. /\ stage[e] = "set" /\ stage'[e] \in {"done", "failed"}
      /\ field' = field /\ previous' = previous /\ wanted' = wanted /\ outcome' = outcome
      /\ current' = wanted[e] /\ replaced'[e] = current
    BY DEF EditsInv, TypeOK, Apply, edit
<1>2. foreign'[e] = foreign[e] /\ overtaken'[e] = overtaken[e]
    BY DEF EditsInv, TypeOK, Apply, ChangedFor
<1>3. OwnInv(e)' BY <1>1 DEF OwnInv, UnderWay
<1>4. Shown(e)'
    <2> SUFFICES ASSUME field \in Compared PROVE Shown(e)'
        BY <1>1 DEF Shown, Compared, Fields
    <2>1. reading[e].value = previous[e] BY <1>1 DEF EditsInv, EditorInv, SetInv
    <2>2. CASE field \in Versioned
        <3>1. topic = reading[e].topic BY <2>2 DEF Apply
        <3>2. reading[e].value = current
            BY <1>1, <2>2, <3>1 DEF EditsInv, EditorInv, ReadInv, UnderWay
        <3> QED BY <1>1, <2>1, <3>2 DEF Shown
    <2>3. CASE field \notin Versioned
        <3>1. overtaken[e] \/ reading[e].value = current
            BY <1>1 DEF EditsInv, EditorInv, ReadInv, UnderWay
        <3> QED BY <1>1, <1>2, <2>1, <2>3, <3>1 DEF Shown, Versioned
    <2> QED BY <2>2, <2>3
<1>5. Told(e)' BY <1>1, <1>2 DEF EditsInv, EditorInv, Told, Repeated
<1> QED BY <1>1, <1>3, <1>4, <1>5 DEF EditorInv, ReadInv, SetInv, ClosedInv, UnderWay

LEMMA RejectKeeps == ASSUME EditsInv, NEW e \in Editors, Reject(e) PROVE EditorInv(e)'
<1>1. /\ stage[e] = "set" /\ stage'[e] \in {"partial", "failed"}
      /\ UNCHANGED <<field, current, edit, foreign, overtaken, replaced>>
    BY DEF EditsInv, TypeOK, Reject
<1>2. OwnInv(e)' BY <1>1 DEF EditsInv, EditorInv, OwnInv, UnderWay, edit
<1>3. Shown(e)' /\ Told(e)'
    BY <1>1 DEF EditsInv, EditorInv, Shown, Told, Compared, Fields, Versioned, Repeated, edit
<1> QED BY <1>1, <1>2, <1>3 DEF EditorInv, ReadInv, SetInv, ClosedInv, UnderWay

LEMMA EditorGoesOn ==
    ASSUME EditsInv, NEW e \in Editors,
           \/ Open(e) \/ Close(e) \/ ReadGroup(e) \/ LookAgain(e) \/ Refuse(e) \/ Decide(e)
           \/ Apply(e) \/ Reject(e) \/ Succeed(e) \/ Fail(e)
    PROVE  EditorInv(e)'
<1>1. CASE Refuse(e) \/ Fail(e)
    <2>1. \E announced \in BOOLEAN : Answer(e, "error", announced)
        BY <1>1 DEF Refuse, Fail
    <2>2. stage[e] # "closed" BY <1>1 DEF Refuse, Fail
    <2> QED BY <1>1, <2>1, <2>2, AnswerKeeps DEF Refuse, Fail
<1>2. CASE Succeed(e)
    <2>1. PICK how \in {"ok", "error"} : Answer(e, how, TRUE)
        BY <1>2 DEF Succeed
    <2> QED BY <1>2, <2>1, AnswerKeeps DEF Succeed
<1> QED
    BY <1>1, <1>2, OpenKeeps, CloseKeeps, ReadKeeps, DecideKeeps, ApplyKeeps, RejectKeeps

LEMMA StepKeepsEdits == ASSUME EditsAssumption, EditsInv, [Next]_vars PROVE EditsInv'
<1>1. TypeOK' BY StepKeepsEditTypes DEF EditsInv
<1>2. ASSUME NEW e \in Editors PROVE EditorInv(e)'
    <2>1. CASE UNCHANGED vars \/ Notified
        <3>1. /\ Same(e) /\ field' = field /\ current' = current /\ topic' = topic
              /\ foreign'[e] = foreign[e] /\ overtaken'[e] = overtaken[e]
            BY <2>1 DEF vars, Notified, edit, Same
        <3> QED BY <3>1, UntouchedEditor DEF EditsInv
    <2>2. CASE OthersChange
        <3>1. Same(e) /\ ChangedFor(None) /\ Renewed /\ field' = field
            BY <2>2 DEF OthersChange, edit, Same
        <3>2. e # None BY DEF EditsAssumption
        <3> QED BY <3>1, <3>2, OvertakenEditor DEF EditsInv
    <2>3. ASSUME NEW d \in Editors,
                 \/ Open(d) \/ Close(d) \/ ReadGroup(d) \/ LookAgain(d) \/ Refuse(d) \/ Decide(d)
                 \/ Apply(d) \/ Reject(d) \/ Succeed(d) \/ Fail(d)
          PROVE  EditorInv(e)'
        BY <2>3, EditorLeavesOthers, EditorGoesOn
    <2> QED BY <2>1, <2>2, <2>3 DEF Next
<1> QED BY <1>1, <1>2 DEF EditsInv

-----------------------------------------------------------------------------
(* What is shown and listed. A client shows the value unless a notice or an *)
(* event is still to come, or none was sent; the list has it likewise.      *)
Pending == \E e \in Editors : stage[e] \in {"done", "failed", "partial"}

ViewsInv ==
    /\ field = "photo" => notice = None
    /\ notice = None => display = current \/ hidden
    /\ (notice = None /\ field \in AnyEnding) => display = current \/ Pending
    /\ (notice = None /\ field \in Listed /\ ~unlisted) => listed = current

LEMMA InitViewsInv == ASSUME Init PROVE ViewsInv
BY DEF Init, ViewsInv

(* An edit that ends: only one that has not reached WhatsApp ends unheard.  *)
LEMMA AnswerKeepsViews ==
    ASSUME TypeOK, ViewsInv, NEW e \in Editors, NEW how, NEW announced \in BOOLEAN,
           Answer(e, how, announced), UNCHANGED <<field, current, notice, listed, unlisted>>,
           field \in AnyEnding => announced \/ stage[e] \notin {"done", "failed", "partial"}
    PROVE  ViewsInv'
<1>1. CASE announced
    BY <1>1 DEF ViewsInv, Answer, AnyEnding, Listed
<1>2. CASE ~announced
    <2>1. display' = display /\ hidden' = hidden BY <1>2 DEF Answer, TypeOK
    <2>2. (field \in AnyEnding /\ Pending) => Pending'
        <3> SUFFICES ASSUME field \in AnyEnding, NEW d \in Editors,
                            stage[d] \in {"done", "failed", "partial"}
                     PROVE  Pending'
            BY DEF Pending
        <3>1. d # e BY <1>2
        <3>2. stage'[d] = stage[d] BY <3>1 DEF Answer, TypeOK
        <3> QED BY <3>2 DEF Pending
    <2> QED BY <2>1, <2>2 DEF ViewsInv, AnyEnding, Listed
<1> QED BY <1>1, <1>2

LEMMA StepKeepsViews ==
    ASSUME EditsAssumption, TypeOK, ViewsInv, [Next]_vars PROVE ViewsInv'
<1>0. \A v \in Values : v # None BY DEF EditsAssumption, Values
<1>1. CASE UNCHANGED vars
    BY <1>1 DEF vars, ViewsInv, Pending, AnyEnding, Listed
<1>2. CASE OthersChange
    BY <1>0, <1>2 DEF OthersChange, ViewsInv
<1>3. CASE Notified
    BY <1>3 DEF Notified, ViewsInv, AnyEnding, Listed
<1>4. ASSUME NEW e \in Editors,
             Open(e) \/ Close(e) \/ ReadGroup(e) \/ LookAgain(e) \/ Reject(e)
      PROVE  ViewsInv'
    <2>1. UNCHANGED <<field, current, notice, display, listed, hidden, unlisted>>
        BY <1>4 DEF Open, Close, ReadGroup, LookAgain, Reject
    <2>2. Pending => Pending'
        <3> SUFFICES ASSUME NEW d \in Editors, stage[d] \in {"done", "failed", "partial"}
                     PROVE  stage'[d] \in {"done", "failed", "partial"}
            BY DEF Pending
        <3> QED BY <1>4 DEF TypeOK, Open, Close, ReadGroup, LookAgain, Reject
    <2> QED BY <2>1, <2>2 DEF ViewsInv, AnyEnding, Listed
<1>5. ASSUME NEW e \in Editors, Refuse(e) PROVE ViewsInv'
    <2>1. PICK announced \in BOOLEAN : Answer(e, "error", announced)
        BY <1>5 DEF Refuse
    <2> QED BY <1>5, <2>1, AnswerKeepsViews DEF Refuse
<1>6. ASSUME NEW e \in Editors, Decide(e) PROVE ViewsInv'
    <2>1. CASE Verdict(e) = "set"
        <3>1. UNCHANGED <<field, current, notice, display, listed, hidden, unlisted>>
            BY <1>6, <2>1 DEF Decide
        <3>2. Pending => Pending'
            <4> SUFFICES ASSUME NEW d \in Editors, stage[d] \in {"done", "failed", "partial"}
                         PROVE  stage'[d] \in {"done", "failed", "partial"}
                BY DEF Pending
            <4> QED BY <1>6, <2>1 DEF TypeOK, Decide
        <3> QED BY <3>1, <3>2 DEF ViewsInv, AnyEnding, Listed
    <2>2. CASE Verdict(e) # "set"
        <3>1. (field \in AnyEnding) \in BOOLEAN OBVIOUS
        <3>2. Answer(e, Verdict(e), field \in AnyEnding) BY <1>6, <2>2 DEF Decide
        <3>3. UNCHANGED <<field, current, notice, listed, unlisted>> BY <1>6 DEF Decide
        <3> QED BY <3>1, <3>2, <3>3, AnswerKeepsViews
    <2> QED BY <2>1, <2>2
<1>7. ASSUME NEW e \in Editors, Apply(e) PROVE ViewsInv'
    <2>1. stage'[e] \in {"done", "failed"} BY <1>7 DEF Apply, TypeOK
    <2>2. hidden' /\ unlisted' /\ notice' = notice /\ field' = field
        BY <1>7 DEF Apply
    <2> QED BY <2>1, <2>2 DEF ViewsInv, Pending
<1>8. ASSUME NEW e \in Editors, Succeed(e) PROVE ViewsInv'
    <2>1. PICK kept \in BOOLEAN :
              /\ Answer(e, IF field = "photo" /\ ~kept THEN "error" ELSE "ok", TRUE)
              /\ listed' = IF field \in Listed /\ kept THEN wanted[e] ELSE listed
              /\ unlisted' = (field \in Listed /\ (~kept \/ current # wanted[e]))
        BY <1>8 DEF Succeed
    <2>2. field' = field /\ current' = current /\ notice' = notice BY <1>8 DEF Succeed
    <2>3. display' = current BY <2>1 DEF Answer
    <2>4. (field \in Listed /\ ~unlisted') => listed' = current BY <2>1
    <2> QED BY <2>2, <2>3, <2>4 DEF ViewsInv, Listed
<1>9. ASSUME NEW e \in Editors, Fail(e) PROVE ViewsInv'
    <2>1. PICK announced \in BOOLEAN :
              Answer(e, "error", announced) /\ (field \in AnyEnding => announced)
        BY <1>9 DEF Fail
    <2> QED BY <1>9, <2>1, AnswerKeepsViews DEF Fail
<1> QED BY <1>1, <1>2, <1>3, <1>4, <1>5, <1>6, <1>7, <1>8, <1>9 DEF Next

-----------------------------------------------------------------------------
(* The variables of group and editors stay in their types.                  *)
THEOREM EditsTyped == ASSUME EditsAssumption PROVE Spec => []TypeOK
<1>1. Init => EditsInv BY InitEditsInv
<1>2. EditsInv /\ [Next]_vars => EditsInv' BY StepKeepsEdits
<1>3. EditsInv => TypeOK BY DEF EditsInv
<1> QED BY <1>1, <1>2, <1>3, PTL DEF Spec

(* However many editors are open, and whatever others do: an edit replaces  *)
(* what its editor showed, and only a change by somebody else is reported   *)
(* as one (groupedit.go, grouppermissions.go, grouprequests.go, features.go)*)
THEOREM VerdictsHold == ASSUME EditsAssumption PROVE Spec => []VerdictsAreTrue
<1>1. Init => EditsInv BY InitEditsInv
<1>2. EditsInv /\ [Next]_vars => EditsInv' BY StepKeepsEdits
<1>3. EditsInv => VerdictsAreTrue
    BY DEF EditsInv, EditorInv, Shown, Told, VerdictsAreTrue, EditReplacesWhatWasShown,
           ChangedMeansOthersChanged
<1> QED BY <1>1, <1>2, <1>3, PTL DEF Spec

(* However many edits fail or are answered late: with nothing under way,    *)
(* clients show what the group has and the list of chats names it, but for  *)
(* an edit no event told of and a list that could not be written.           *)
THEOREM ViewsHold == ASSUME EditsAssumption PROVE Spec => []GroupViewsCatchUp
<1>1. Init => EditsInv /\ ViewsInv BY InitEditsInv, InitViewsInv
<1>2. (EditsInv /\ ViewsInv) /\ [Next]_vars => (EditsInv /\ ViewsInv)'
    BY StepKeepsEdits, StepKeepsViews DEF EditsInv
<1>3. ViewsInv => GroupViewsCatchUp
    BY DEF ViewsInv, Pending, GroupViewsCatchUp, GroupReadersCatchUp, ListShowsTheGroup
<1> QED BY <1>1, <1>2, <1>3, PTL DEF Spec

-----------------------------------------------------------------------------
(* The programs of the calls. *)

Places(p, names) == {i \in 1 .. Len(p) : p[i] \in names}
Storing          == {"save", "keep"}
Announcing       == {"tell", "show", "hint"}

(* What every program keeps to: nothing is stored or told before WhatsApp   *)
(* is asked, what is told is told once, what is stored is announced after   *)
(* it is stored, and what is shown was read after it was stored.            *)
Sound(p) ==
    /\ p \in Seq(Calls!Steps)
    /\ Places(p, {"ask"}) # {} =>
           \A i \in Places(p, Storing \cup {"tell", "show"}) : \E k \in Places(p, {"ask"}) : k < i
    /\ \A i, j \in Places(p, {"tell", "show"}) : i = j
    /\ Places(p, {"save"}) # {} /\ Places(p, Announcing) # {} =>
           \A i \in Places(p, Storing) : \E j \in Places(p, Announcing) : i < j
    /\ \A j \in Places(p, {"show"}) :
           \E i \in Places(p, {"save"}), k \in Places(p, {"look"}) : i < k /\ k < j

(* Programs that ask, announce nothing and leave it to the handler.         *)
Asking(p) == Sound(p) /\ Places(p, {"ask"}) # {} /\ Places(p, Announcing) = {}

AskingPrograms == {<<"ask">>, <<"look", "ask">>, <<"look", "ask", "keep">>,
                   <<"look", "look", "ask", "keep">>}
OtherPrograms ==
    {<<"look">>, <<"look", "save", "look", "show">>, <<"ask", "save", "tell">>,
     <<"ask", "save", "hint">>, <<"ask", "tell">>, <<"ask", "hint">>,
     <<"look", "ask", "hint">>, <<"look", "ask", "save", "tell">>,
     <<"look", "ask", "save", "hint">>, <<"look", "ask", "save", "tell", "hint">>,
     <<"look", "ask", "save", "keep", "tell">>, <<"look", "ask", "keep", "hint">>,
     <<"look", "keep", "hint">>, <<"look", "save", "tell">>,
     <<"look", "save", "tell", "hint">>}
PlainPrograms ==
    {<<"check", "look">>, <<"check", "look", "keep">>, <<"check", "look", "ask">>,
     <<"check", "look", "save">>, <<"check", "look", "save", "tell">>,
     <<"check", "look", "save", "save", "tell">>, <<"check", "save", "tell">>,
     <<"check", "save", "look", "show">>, <<"look">>}

LEMMA AskingAsk == \A p \in AskingPrograms : Asking(p)
<1>1. ASSUME NEW p, p = <<"ask">> PROVE Asking(p)
    <2>1. p \in Seq(Calls!Steps) /\ Len(p) = 1 /\ p[1] = "ask"
        BY <1>1 DEF Calls!Steps
    <2> QED BY ONLY <2>1 DEF Asking, Sound, Places, Storing, Announcing
<1>2. ASSUME NEW p, p = <<"look", "ask">> PROVE Asking(p)
    <2>1. p \in Seq(Calls!Steps) /\ Len(p) = 2 /\ p[1] = "look" /\ p[2] = "ask"
        BY <1>2 DEF Calls!Steps
    <2> QED BY ONLY <2>1 DEF Asking, Sound, Places, Storing, Announcing
<1>3. ASSUME NEW p, p = <<"look", "ask", "keep">> PROVE Asking(p)
    <2>1. p \in Seq(Calls!Steps) /\ Len(p) = 3 /\ p[1] = "look" /\ p[2] = "ask" /\ p[3] = "keep"
        BY <1>3 DEF Calls!Steps
    <2> QED BY ONLY <2>1 DEF Asking, Sound, Places, Storing, Announcing
<1>4. ASSUME NEW p, p = <<"look", "look", "ask", "keep">> PROVE Asking(p)
    <2>1. p \in Seq(Calls!Steps) /\ Len(p) = 4
          /\ p[1] = "look" /\ p[2] = "look" /\ p[3] = "ask" /\ p[4] = "keep"
        BY <1>4 DEF Calls!Steps
    <2> QED BY ONLY <2>1 DEF Asking, Sound, Places, Storing, Announcing
<1> QED BY <1>1, <1>2, <1>3, <1>4 DEF AskingPrograms

LEMMA OthersAreSound == \A p \in OtherPrograms \cup PlainPrograms : Sound(p)
<1>1. ASSUME NEW p, p = <<"look">> PROVE Sound(p)
    <2>1. p \in Seq(Calls!Steps) /\ Len(p) = 1 /\ p[1] = "look"
        BY <1>1 DEF Calls!Steps
    <2> QED BY ONLY <2>1 DEF Sound, Places, Storing, Announcing
<1>2. ASSUME NEW p, p = <<"look", "save", "look", "show">> PROVE Sound(p)
    <2>1. p \in Seq(Calls!Steps) /\ Len(p) = 4
          /\ p[1] = "look" /\ p[2] = "save" /\ p[3] = "look" /\ p[4] = "show"
        BY <1>2 DEF Calls!Steps
    <2> QED BY ONLY <2>1 DEF Sound, Places, Storing, Announcing
<1>3. ASSUME NEW p, p = <<"ask", "save", "tell">> PROVE Sound(p)
    <2>1. p \in Seq(Calls!Steps) /\ Len(p) = 3 /\ p[1] = "ask" /\ p[2] = "save" /\ p[3] = "tell"
        BY <1>3 DEF Calls!Steps
    <2> QED BY ONLY <2>1 DEF Sound, Places, Storing, Announcing
<1>4. ASSUME NEW p, p = <<"ask", "save", "hint">> PROVE Sound(p)
    <2>1. p \in Seq(Calls!Steps) /\ Len(p) = 3 /\ p[1] = "ask" /\ p[2] = "save" /\ p[3] = "hint"
        BY <1>4 DEF Calls!Steps
    <2> QED BY ONLY <2>1 DEF Sound, Places, Storing, Announcing
<1>5. ASSUME NEW p, p = <<"ask", "tell">> PROVE Sound(p)
    <2>1. p \in Seq(Calls!Steps) /\ Len(p) = 2 /\ p[1] = "ask" /\ p[2] = "tell"
        BY <1>5 DEF Calls!Steps
    <2> QED BY ONLY <2>1 DEF Sound, Places, Storing, Announcing
<1>6. ASSUME NEW p, p = <<"ask", "hint">> PROVE Sound(p)
    <2>1. p \in Seq(Calls!Steps) /\ Len(p) = 2 /\ p[1] = "ask" /\ p[2] = "hint"
        BY <1>6 DEF Calls!Steps
    <2> QED BY ONLY <2>1 DEF Sound, Places, Storing, Announcing
<1>7. ASSUME NEW p, p = <<"look", "ask", "hint">> PROVE Sound(p)
    <2>1. p \in Seq(Calls!Steps) /\ Len(p) = 3 /\ p[1] = "look" /\ p[2] = "ask" /\ p[3] = "hint"
        BY <1>7 DEF Calls!Steps
    <2> QED BY ONLY <2>1 DEF Sound, Places, Storing, Announcing
<1>8. ASSUME NEW p, p = <<"look", "ask", "save", "tell">> PROVE Sound(p)
    <2>1. p \in Seq(Calls!Steps) /\ Len(p) = 4
          /\ p[1] = "look" /\ p[2] = "ask" /\ p[3] = "save" /\ p[4] = "tell"
        BY <1>8 DEF Calls!Steps
    <2> QED BY ONLY <2>1 DEF Sound, Places, Storing, Announcing
<1>9. ASSUME NEW p, p = <<"look", "ask", "save", "hint">> PROVE Sound(p)
    <2>1. p \in Seq(Calls!Steps) /\ Len(p) = 4
          /\ p[1] = "look" /\ p[2] = "ask" /\ p[3] = "save" /\ p[4] = "hint"
        BY <1>9 DEF Calls!Steps
    <2> QED BY ONLY <2>1 DEF Sound, Places, Storing, Announcing
<1>10. ASSUME NEW p, p = <<"look", "ask", "save", "tell", "hint">> PROVE Sound(p)
    <2>1. p \in Seq(Calls!Steps) /\ Len(p) = 5
          /\ p[1] = "look" /\ p[2] = "ask" /\ p[3] = "save" /\ p[4] = "tell" /\ p[5] = "hint"
        BY <1>10 DEF Calls!Steps
    <2> QED BY ONLY <2>1 DEF Sound, Places, Storing, Announcing
<1>11. ASSUME NEW p, p = <<"look", "ask", "save", "keep", "tell">> PROVE Sound(p)
    <2>1. p \in Seq(Calls!Steps) /\ Len(p) = 5
          /\ p[1] = "look" /\ p[2] = "ask" /\ p[3] = "save" /\ p[4] = "keep" /\ p[5] = "tell"
        BY <1>11 DEF Calls!Steps
    <2> QED BY ONLY <2>1 DEF Sound, Places, Storing, Announcing
<1>12. ASSUME NEW p, p = <<"look", "ask", "keep", "hint">> PROVE Sound(p)
    <2>1. p \in Seq(Calls!Steps) /\ Len(p) = 4
          /\ p[1] = "look" /\ p[2] = "ask" /\ p[3] = "keep" /\ p[4] = "hint"
        BY <1>12 DEF Calls!Steps
    <2> QED BY ONLY <2>1 DEF Sound, Places, Storing, Announcing
<1>13. ASSUME NEW p, p = <<"look", "keep", "hint">> PROVE Sound(p)
    <2>1. p \in Seq(Calls!Steps) /\ Len(p) = 3
          /\ p[1] = "look" /\ p[2] = "keep" /\ p[3] = "hint"
        BY <1>13 DEF Calls!Steps
    <2> QED BY ONLY <2>1 DEF Sound, Places, Storing, Announcing
<1>14. ASSUME NEW p, p = <<"look", "save", "tell">> PROVE Sound(p)
    <2>1. p \in Seq(Calls!Steps) /\ Len(p) = 3
          /\ p[1] = "look" /\ p[2] = "save" /\ p[3] = "tell"
        BY <1>14 DEF Calls!Steps
    <2> QED BY ONLY <2>1 DEF Sound, Places, Storing, Announcing
<1>15. ASSUME NEW p, p = <<"look", "save", "tell", "hint">> PROVE Sound(p)
    <2>1. p \in Seq(Calls!Steps) /\ Len(p) = 4
          /\ p[1] = "look" /\ p[2] = "save" /\ p[3] = "tell" /\ p[4] = "hint"
        BY <1>15 DEF Calls!Steps
    <2> QED BY ONLY <2>1 DEF Sound, Places, Storing, Announcing
<1>16. ASSUME NEW p, p = <<"check", "look">> PROVE Sound(p)
    <2>1. p \in Seq(Calls!Steps) /\ Len(p) = 2 /\ p[1] = "check" /\ p[2] = "look"
        BY <1>16 DEF Calls!Steps
    <2> QED BY ONLY <2>1 DEF Sound, Places, Storing, Announcing
<1>17. ASSUME NEW p, p = <<"check", "look", "keep">> PROVE Sound(p)
    <2>1. p \in Seq(Calls!Steps) /\ Len(p) = 3
          /\ p[1] = "check" /\ p[2] = "look" /\ p[3] = "keep"
        BY <1>17 DEF Calls!Steps
    <2> QED BY ONLY <2>1 DEF Sound, Places, Storing, Announcing
<1>18. ASSUME NEW p, p = <<"check", "look", "ask">> PROVE Sound(p)
    <2>1. p \in Seq(Calls!Steps) /\ Len(p) = 3
          /\ p[1] = "check" /\ p[2] = "look" /\ p[3] = "ask"
        BY <1>18 DEF Calls!Steps
    <2> QED BY ONLY <2>1 DEF Sound, Places, Storing, Announcing
<1>19. ASSUME NEW p, p = <<"check", "look", "save">> PROVE Sound(p)
    <2>1. p \in Seq(Calls!Steps) /\ Len(p) = 3
          /\ p[1] = "check" /\ p[2] = "look" /\ p[3] = "save"
        BY <1>19 DEF Calls!Steps
    <2> QED BY ONLY <2>1 DEF Sound, Places, Storing, Announcing
<1>20. ASSUME NEW p, p = <<"check", "look", "save", "tell">> PROVE Sound(p)
    <2>1. p \in Seq(Calls!Steps) /\ Len(p) = 4
          /\ p[1] = "check" /\ p[2] = "look" /\ p[3] = "save" /\ p[4] = "tell"
        BY <1>20 DEF Calls!Steps
    <2> QED BY ONLY <2>1 DEF Sound, Places, Storing, Announcing
<1>21. ASSUME NEW p, p = <<"check", "look", "save", "save", "tell">> PROVE Sound(p)
    <2>1. p \in Seq(Calls!Steps) /\ Len(p) = 5
          /\ p[1] = "check" /\ p[2] = "look" /\ p[3] = "save" /\ p[4] = "save" /\ p[5] = "tell"
        BY <1>21 DEF Calls!Steps
    <2> QED BY ONLY <2>1 DEF Sound, Places, Storing, Announcing
<1>22. ASSUME NEW p, p = <<"check", "save", "tell">> PROVE Sound(p)
    <2>1. p \in Seq(Calls!Steps) /\ Len(p) = 3
          /\ p[1] = "check" /\ p[2] = "save" /\ p[3] = "tell"
        BY <1>22 DEF Calls!Steps
    <2> QED BY ONLY <2>1 DEF Sound, Places, Storing, Announcing
<1>23. ASSUME NEW p, p = <<"check", "save", "look", "show">> PROVE Sound(p)
    <2>1. p \in Seq(Calls!Steps) /\ Len(p) = 4
          /\ p[1] = "check" /\ p[2] = "save" /\ p[3] = "look" /\ p[4] = "show"
        BY <1>23 DEF Calls!Steps
    <2> QED BY ONLY <2>1 DEF Sound, Places, Storing, Announcing
<1> QED BY <1>1, <1>2, <1>3, <1>4, <1>5, <1>6, <1>7, <1>8, <1>9, <1>10, <1>11, <1>12, <1>13,
           <1>14, <1>15, <1>16, <1>17, <1>18, <1>19, <1>20, <1>21, <1>22, <1>23
        DEF OtherPrograms, PlainPrograms


(* The operations whose message, mark or edit the handler stores and tells. *)
Sending ==
    {"MarkPlayed", "MarkRead", "SendText", "SendContactCard", "SendButtonPrompt", "SendListPrompt",
     "SendPromptAnswer", "SendMedia", "SendStoredSticker", "ForwardMessage", "EditText",
     "DeleteMessage"}

(* The operations of the gateway are sound, and those of Sending ask.       *)
LEMMA GatewayIsSound ==
    \A handler \in Calls!Gateway :
        handler[2] \in AskingPrograms \/ (handler[2] \in OtherPrograms /\ handler[1] \notin Sending)
<1> DEFINE Fine(T) == \A handler \in T : handler[2] \in AskingPrograms
                                     \/ (handler[2] \in OtherPrograms /\ handler[1] \notin Sending)
<1> USE DEF Calls!Rows, AskingPrograms, OtherPrograms, Sending
<1>1. Fine(Calls!Texts) /\ Fine(Calls!Cards) /\ Fine(Calls!Presses) /\ Fine(Calls!Media)
    BY DEF Calls!Texts, Calls!Cards, Calls!Presses, Calls!Media
<1>2. Fine(Calls!Stickers) /\ Fine(Calls!Buttons) /\ Fine(Calls!Choices) /\ Fine(Calls!Forwards)
    BY DEF Calls!Stickers, Calls!Buttons, Calls!Choices, Calls!Forwards
<1>3. Fine(Calls!MessageMarks) /\ Fine(Calls!Stars) /\ Fine(Calls!Receipts) /\ Fine(Calls!NewPolls)
    BY DEF Calls!MessageMarks, Calls!Stars, Calls!Receipts, Calls!NewPolls
<1>4. Fine(Calls!Votes) /\ Fine(Calls!Removal) /\ Fine(Calls!Clearing) /\ Fine(Calls!ChatFlags)
    BY DEF Calls!Votes, Calls!Removal, Calls!Clearing, Calls!ChatFlags
<1>5. Fine(Calls!Lists) /\ Fine(Calls!Reading) /\ Fine(Calls!Account) /\ Fine(Calls!DefaultTimers)
    BY DEF Calls!Lists, Calls!Reading, Calls!Account, Calls!DefaultTimers
<1>6. Fine(Calls!Photo) /\ Fine(Calls!Discovery) /\ Fine(Calls!Joining) /\ Fine(Calls!Channels)
    BY DEF Calls!Photo, Calls!Discovery, Calls!Joining, Calls!Channels
<1>7. Fine(Calls!Posts) /\ Fine(Calls!Statuses) /\ Fine(Calls!Previews)
    BY DEF Calls!Posts, Calls!Statuses, Calls!Previews
<1> QED
    <2> HIDE DEF Calls!Rows, AskingPrograms, OtherPrograms, Sending
    <2> QED BY <1>1, <1>2, <1>3, <1>4, <1>5, <1>6, <1>7 DEF Calls!Gateway

(* A handler runs steps of its own, or checks and calls one operation, and  *)
(* then has nothing left to do or stores and tells.                         *)
Operations ==
    {"ChannelMessages", "ClearChat", "CreateChannel", "CreateCommunity", "CreateGroup",
     "CreateLabel", "DeleteChat", "FollowChannelLink", "JoinGroupLink", "MarkAllChatsRead",
     "PinMessage", "PostMediaStatus", "PostTextStatus", "RefreshLinkPreview", "SendReaction",
     "SetAbout", "SetChannelFollowed", "SetChannelMuted", "SetChatArchived",
     "SetChatDisappearing", "SetChatFavorite", "SetChatLabeled", "SetChatMuted",
     "SetChatPinned", "SetChatRead", "SetContactBlocked", "SetDefaultDisappearingTimer",
     "SetMessageStarred", "SetPrivacySetting", "SetProfileName", "SetProfilePhoto",
     "SetTyping", "SubscribePresence", "UnpinMessage", "createPoll", "joinPreviewedGroup",
     "votePoll"}

Calling(s) == \E op \in Operations : s = <<op>> \/ s = <<"check", op>>
Storer(s)  == \E op \in Sending : \/ s = <<"check", op, "save", "tell">>
                                  \/ s = <<"check", op, "save", "keep", "tell">>
Form(s)    == s \in PlainPrograms \/ Calling(s) \/ Storer(s)

LEMMA HandlersHaveForms == \A handler \in Calls!Handlers : Form(handler[2])
<1> DEFINE Fine(T) == \A handler \in T : Form(handler[2])
<1>a. \A p \in PlainPrograms : Form(p)
    BY DEF Form
<1>b. \A op \in Operations : Form(<<op>>) /\ Form(<<"check", op>>)
    BY DEF Form, Calling
<1>c. \A op \in Sending : /\ Form(<<"check", op, "save", "tell">>)
                          /\ Form(<<"check", op, "save", "keep", "tell">>)
    BY DEF Form, Storer
<1> USE <1>a, <1>b, <1>c DEF Calls!Rows, PlainPrograms, Operations, Sending
<1>1. Fine(Calls!Settings)
    BY DEF Calls!Settings
<1>2. Fine(Calls!ChatLists)
    BY DEF Calls!ChatLists
<1>3. Fine(Calls!ListsAndBlocks)
    BY DEF Calls!ListsAndBlocks
<1>4. Fine(Calls!Features)
    BY DEF Calls!Features
<1>5. Fine(Calls!Groups)
    BY DEF Calls!Groups
<1>6. Fine(Calls!ChatsAndChannels)
    BY DEF Calls!ChatsAndChannels
<1>7. Fine(Calls!AccountSettings)
    BY DEF Calls!AccountSettings
<1>8. Fine(Calls!ChatChanges)
    BY DEF Calls!ChatChanges
<1>9. Fine(Calls!Listings)
    BY DEF Calls!Listings
<1>10. Fine(Calls!Sends)
    BY DEF Calls!Sends
<1>11. Fine(Calls!MoreSends)
    BY DEF Calls!MoreSends
<1>12. Fine(Calls!MessageChanges)
    BY DEF Calls!MessageChanges
<1>13. Fine(Calls!Contacts)
    BY DEF Calls!Contacts
<1> QED
    <2> HIDE DEF Calls!Rows, PlainPrograms, Operations, Sending
    <2> QED BY ONLY <1>1, <1>2, <1>3, <1>4, <1>5, <1>6, <1>7, <1>8, <1>9, <1>10, <1>11, <1>12, <1>13
            DEF Calls!Handlers


(* A program with another one in the place of its i-th step, ...            *)
Splice(s, i, inner) == SubSeq(s, 1, i - 1) \o inner \o SubSeq(s, i + 1, Len(s))

(* the others of which are steps.                                           *)
Hole(s, i) ==
    /\ Len(s) \in Nat /\ i \in 1 .. Len(s)
    /\ \A j \in 1 .. Len(s) : j # i => s[j] \in Calls!Steps

Filled(s, i, inner, p) ==
    /\ p \in Seq(Calls!Steps) /\ Len(p) = Len(s) + Len(inner) - 1
    /\ \A j \in 1 .. (i - 1) : p[j] = s[j]
    /\ \A j \in 1 .. Len(inner) : p[i - 1 + j] = inner[j]
    /\ \A j \in 1 .. (Len(s) - i) : p[i - 1 + Len(inner) + j] = s[i + j]

LEMMA SpliceProperties ==
    ASSUME NEW s, NEW i, Hole(s, i), NEW inner \in Seq(Calls!Steps)
    PROVE  Filled(s, i, inner, Splice(s, i, inner))
<1> DEFINE S == Calls!Steps
           p == Splice(s, i, inner)
<1> HIDE DEF p
<1>0. Len(s) \in Nat /\ i \in 1 .. Len(s) /\ \A j \in 1 .. Len(s) : j # i => s[j] \in S
    BY DEF Hole
<1> DEFINE pre  == SubSeq(s, 1, i - 1)
           post == SubSeq(s, i + 1, Len(s))
<1>1. pre \in Seq(S) /\ Len(pre) = i - 1 /\ \A j \in 1 .. (i - 1) : pre[j] = s[j]
    <2>1. \A j \in 1 .. (i - 1) : s[j] \in S
        BY <1>0
    <2>2. /\ pre \in Seq(S) /\ Len(pre) = IF 1 <= i - 1 THEN (i - 1) - 1 + 1 ELSE 0
          /\ \A j \in 1 .. (i - 1) - 1 + 1 : pre[j] = s[1 + j - 1]
        BY <1>0, <2>1, SubSeqProperties
    <2> HIDE DEF pre
    <2> QED BY <1>0, <2>2
<1>2. post \in Seq(S) /\ Len(post) = Len(s) - i /\ \A j \in 1 .. (Len(s) - i) : post[j] = s[i + j]
    <2>1. \A j \in (i + 1) .. Len(s) : s[j] \in S
        BY <1>0
    <2>2. /\ post \in Seq(S)
          /\ Len(post) = IF i + 1 <= Len(s) THEN Len(s) - (i + 1) + 1 ELSE 0
          /\ \A j \in 1 .. Len(s) - (i + 1) + 1 : post[j] = s[(i + 1) + j - 1]
        BY <1>0, <2>1, SubSeqProperties
    <2> HIDE DEF post
    <2> QED BY <1>0, <2>2
<1> HIDE DEF pre, post
<1>3. Len(inner) \in Nat
    OBVIOUS
<1> DEFINE front == pre \o inner
<1>4. /\ front \in Seq(S) /\ Len(front) = i - 1 + Len(inner)
      /\ \A j \in 1 .. (i - 1 + Len(inner)) :
             front[j] = IF j <= i - 1 THEN pre[j] ELSE inner[j - (i - 1)]
    <2>1. /\ front \in Seq(S) /\ Len(front) = Len(pre) + Len(inner)
          /\ \A j \in 1 .. Len(pre) + Len(inner) :
                 front[j] = IF j <= Len(pre) THEN pre[j] ELSE inner[j - Len(pre)]
        BY <1>1, ConcatProperties, Zenon
    <2> HIDE DEF front
    <2> QED BY <1>0, <1>1, <2>1
<1>5. /\ p \in Seq(S) /\ Len(p) = (i - 1 + Len(inner)) + (Len(s) - i)
      /\ \A j \in 1 .. (i - 1 + Len(inner)) + (Len(s) - i) :
             p[j] = IF j <= i - 1 + Len(inner) THEN front[j] ELSE post[j - (i - 1 + Len(inner))]
    <2>1. p = front \o post
        BY DEF p, Splice, pre, post
    <2> HIDE DEF front
    <2> DEFINE whole == front \o post
    <2>2. /\ whole \in Seq(S) /\ Len(whole) = Len(front) + Len(post)
          /\ \A j \in 1 .. Len(front) + Len(post) :
                 whole[j] = IF j <= Len(front) THEN front[j] ELSE post[j - Len(front)]
        BY <1>2, <1>4, ConcatProperties, Zenon
    <2> HIDE DEF whole
    <2>3. p = whole
        BY <2>1 DEF whole
    <2> QED BY <1>0, <1>2, <1>4, <2>2, <2>3
<1> HIDE DEF front
<1>6. \A j \in 1 .. (i - 1) : p[j] = s[j]
    <2> TAKE j \in 1 .. (i - 1)
    <2>1. /\ j \in 1 .. (i - 1 + Len(inner)) /\ j <= i - 1 /\ j <= i - 1 + Len(inner)
          /\ j \in 1 .. (i - 1 + Len(inner)) + (Len(s) - i)
        BY <1>0, <1>3
    <2>2. front[j] = s[j]
        BY <1>0, <1>1, <1>4, <2>1
    <2> QED BY <1>0, <1>5, <2>1, <2>2
<1>7. \A j \in 1 .. Len(inner) : p[i - 1 + j] = inner[j]
    <2> TAKE j \in 1 .. Len(inner)
    <2>1. /\ i - 1 + j \in 1 .. (i - 1 + Len(inner)) /\ ~(i - 1 + j <= i - 1)
          /\ (i - 1 + j) - (i - 1) = j /\ i - 1 + j <= i - 1 + Len(inner)
          /\ i - 1 + j \in 1 .. (i - 1 + Len(inner)) + (Len(s) - i)
        BY <1>0, <1>3
    <2>2. front[i - 1 + j] = inner[j]
        BY <1>0, <1>4, <2>1
    <2> QED BY <1>0, <1>5, <2>1, <2>2
<1>8. \A j \in 1 .. (Len(s) - i) : p[i - 1 + Len(inner) + j] = s[i + j]
    <2> TAKE j \in 1 .. (Len(s) - i)
    <2>1. /\ i - 1 + Len(inner) + j \in 1 .. (i - 1 + Len(inner)) + (Len(s) - i)
          /\ ~(i - 1 + Len(inner) + j <= i - 1 + Len(inner))
          /\ (i - 1 + Len(inner) + j) - (i - 1 + Len(inner)) = j
        BY <1>0, <1>3
    <2> QED BY <1>0, <1>2, <1>5, <2>1
<1>9. Len(p) = Len(s) + Len(inner) - 1
    BY <1>0, <1>3, <1>5
<1> QED BY <1>5, <1>6, <1>7, <1>8, <1>9 DEF Filled, p

(* A handler that checks and calls a sound operation is sound, ...          *)
LEMMA CallingIsSound ==
    ASSUME NEW p, NEW k \in Nat, NEW inner, Sound(inner), p \in Seq(Calls!Steps),
           Len(p) = k + Len(inner),
           \A j \in 1 .. k : p[j] = "check",
           \A j \in 1 .. Len(inner) : p[k + j] = inner[j]
    PROVE  Sound(p)
<1>1. Len(inner) \in Nat
    BY DEF Sound
<1>2. ASSUME NEW names, "check" \notin names
      PROVE  \A i \in Int : i \in Places(p, names) <=> i - k \in Places(inner, names)
    <2>1. \A j \in 1 .. Len(p) : j <= k \/ (j - k \in 1 .. Len(inner) /\ p[j] = inner[j - k])
        BY <1>1
    <2>2. \A j \in 1 .. Len(inner) : k + j \in 1 .. Len(p) /\ p[k + j] = inner[j]
        BY <1>1
    <2> QED BY <1>1, <1>2, <2>1, <2>2 DEF Places
<1>3. ASSUME NEW names, "check" \notin names
      PROVE  /\ \A i \in Places(p, names) : i \in Int /\ i - k \in Places(inner, names)
             /\ \A i \in Places(inner, names) : i + k \in Places(p, names) /\ i \in Int
    <2>1. \A i \in Int : (i + k) - k = i
        OBVIOUS
    <2>2. Places(p, names) \subseteq Int /\ Places(inner, names) \subseteq Int
        BY DEF Places
    <2>3. \A i \in Int : i \in Places(p, names) <=> i - k \in Places(inner, names)
        BY <1>2, <1>3
    <2>4. \A i \in Places(inner, names) : i + k \in Int /\ (i + k) - k = i
        BY <2>2
    <2> QED BY <2>2, <2>3, <2>4
<1> DEFINE Moved(names) ==
        /\ \A i \in Places(p, names) : i \in Int /\ i - k \in Places(inner, names)
        /\ \A i \in Places(inner, names) : i + k \in Places(p, names) /\ i \in Int
<1>4. /\ Moved({"ask"}) /\ Moved(Storing \cup {"tell", "show"}) /\ Moved({"tell", "show"})
      /\ Moved({"save"}) /\ Moved(Announcing) /\ Moved(Storing) /\ Moved({"show"})
         /\ Moved({"look"})
    BY <1>3 DEF Storing, Announcing
<1>5. Places(p, {"ask"}) # {} =>
          \A i \in Places(p, Storing \cup {"tell", "show"}) : \E j \in Places(p, {"ask"}) : j < i
    <2> SUFFICES ASSUME Places(p, {"ask"}) # {}, NEW i \in Places(p, Storing \cup {"tell", "show"})
                 PROVE  \E j \in Places(p, {"ask"}) : j < i
        OBVIOUS
    <2>1. PICK j \in Places(inner, {"ask"}) : j < i - k
        BY <1>4 DEF Sound
    <2>2. j + k \in Places(p, {"ask"}) /\ i \in Int /\ j \in Int
        BY <1>4
    <2>3. j + k < i
        BY <2>1, <2>2
    <2> QED BY <2>2, <2>3
<1>6. \A i, j \in Places(p, {"tell", "show"}) : i = j
    <2> TAKE i, j \in Places(p, {"tell", "show"})
    <2>1. i - k = j - k
        BY <1>4 DEF Sound
    <2> QED BY <1>4, <2>1
<1>7. Places(p, {"save"}) # {} /\ Places(p, Announcing) # {} =>
          \A i \in Places(p, Storing) : \E j \in Places(p, Announcing) : i < j
    <2> SUFFICES ASSUME Places(p, {"save"}) # {}, Places(p, Announcing) # {},
                        NEW i \in Places(p, Storing)
                 PROVE  \E j \in Places(p, Announcing) : i < j
        OBVIOUS
    <2>1. PICK j \in Places(inner, Announcing) : i - k < j
        BY <1>4 DEF Sound
    <2> QED BY <1>4, <2>1
<1>8. \A j \in Places(p, {"show"}) :
          \E i \in Places(p, {"save"}), l \in Places(p, {"look"}) : i < l /\ l < j
    <2> TAKE j \in Places(p, {"show"})
    <2>1. PICK i \in Places(inner, {"save"}), l \in Places(inner, {"look"}) : i < l /\ l < j - k
        BY <1>4 DEF Sound
    <2>2. /\ i + k \in Places(p, {"save"}) /\ l + k \in Places(p, {"look"})
          /\ i \in Int /\ j \in Int /\ l \in Int
        BY <1>4
    <2>3. i + k < l + k /\ l + k < j
        BY <2>1, <2>2
    <2> QED BY <2>2, <2>3
<1> QED BY <1>5, <1>6, <1>7, <1>8 DEF Sound

(* ... and so is one that stores and tells what an operation asked.         *)
LEMMA StoringIsSound ==
    ASSUME NEW p, NEW inner, Asking(inner), p \in Seq(Calls!Steps), p[1] = "check",
           \A j \in 1 .. Len(inner) : p[1 + j] = inner[j],
           NEW n, n = 1 + Len(inner),
           \/ Len(p) = n + 2 /\ p[n + 1] = "save" /\ p[n + 2] = "tell"
           \/ Len(p) = n + 3 /\ p[n + 1] = "save" /\ p[n + 2] = "keep" /\ p[n + 3] = "tell"
    PROVE  Sound(p)
<1>1. Len(inner) \in Nat /\ n \in Nat
    BY DEF Asking, Sound
<1>2. \A x \in 1 .. Len(p) :
          \/ x \in 1 .. 1 /\ p[x] = "check"
          \/ x - 1 \in 1 .. Len(inner) /\ p[x] = inner[x - 1]
          \/ x > n
    <2> TAKE x \in 1 .. Len(p)
    <2>1. 1 + (x - 1) = x /\ Len(p) \in Nat
        BY <1>1
    <2>2. x \in 1 .. 1 \/ x - 1 \in 1 .. Len(inner) \/ x > n
        BY <1>1, <2>1
    <2>3. x - 1 \in 1 .. Len(inner) => p[1 + (x - 1)] = inner[x - 1]
        OBVIOUS
    <2>4. x - 1 \in 1 .. Len(inner) => p[x] = inner[x - 1]
        BY ONLY <2>1, <2>3
    <2>5. x \in 1 .. 1 => p[x] = "check"
        OBVIOUS
    <2> QED BY <2>2, <2>4, <2>5
<1>3. \A y \in 1 .. Len(inner) : inner[y] \notin {"tell", "show", "hint"}
                                 /\ y + 1 \in 1 .. n /\ p[y + 1] = inner[y]
    <2> TAKE y \in 1 .. Len(inner)
    <2>1. y + 1 = 1 + y /\ y + 1 \in 1 .. n
        BY <1>1
    <2>2. y \notin Places(inner, {"tell", "show", "hint"})
        BY DEF Asking, Announcing
    <2> QED BY <2>1, <2>2 DEF Places
<1>4. /\ p[Len(p)] = "tell" /\ Len(p) > n /\ Len(p) \in Nat
      /\ \A x \in 1 .. Len(p) : p[x] \in {"tell", "show", "hint"} => x = Len(p)
    <2>1. \A x \in 1 .. Len(p) : x > n \/ p[x] \notin {"tell", "show", "hint"}
        BY <1>2, <1>3
    <2>2. \A x \in 1 .. Len(p) : x > n => x = Len(p) \/ p[x] \in {"save", "keep"}
        BY <1>1
    <2> QED BY <1>1, <2>1, <2>2
<1>5. PICK a \in 1 .. Len(inner) : inner[a] = "ask"
    BY DEF Asking, Places
<1>6. ASSUME NEW i \in Places(p, Storing \cup {"tell", "show"})
      PROVE  \E j \in Places(p, {"ask"}) : j < i
    <2>1. CASE i > n
        <3>1. a + 1 \in Places(p, {"ask"}) /\ a + 1 < i
            BY <1>1, <1>3, <1>4, <1>5, <2>1 DEF Places
        <3> QED BY <3>1
    <2>2. CASE ~(i > n)
        <3>1. i - 1 \in Places(inner, Storing \cup {"tell", "show"}) /\ i \in Int
            BY <1>2, <2>2 DEF Places, Storing
        <3>2. PICK j \in Places(inner, {"ask"}) : j < i - 1
            BY <1>5, <3>1 DEF Asking, Sound, Places
        <3>3. j + 1 \in Places(p, {"ask"}) /\ j \in Int
            BY <1>1, <1>3, <1>4 DEF Places
        <3>4. j + 1 < i
            BY <3>1, <3>2, <3>3
        <3> QED BY <3>3, <3>4
    <2> QED BY <2>1, <2>2
<1>7. \A i, j \in Places(p, {"tell", "show"}) : i = j
    BY <1>4 DEF Places
<1>8. \A i \in Places(p, Storing) : \E j \in Places(p, Announcing) : i < j
    <2> TAKE i \in Places(p, Storing)
    <2>1. Len(p) \in Places(p, Announcing) /\ i \in 1 .. Len(p) /\ i # Len(p)
        BY <1>1, <1>4 DEF Places, Storing, Announcing
    <2> QED BY <1>4, <2>1
<1>9. Places(p, {"show"}) = {}
    BY <1>4 DEF Places
<1> QED BY <1>6, <1>7, <1>8, <1>9 DEF Sound

(* Each program of each handler is sound.                                   *)
LEMMA ProgramsAreSound == \A m \in Calls!Methods : \A p \in Calls!Programs[m] : Sound(p)
<1> SUFFICES ASSUME NEW s, Form(s), NEW p \in Calls!Expanded(s) PROVE Sound(p)
    BY HandlersHaveForms DEF Calls!Programs, Calls!Under
<1>1. CASE s \in PlainPrograms
    <2>1. Sound(s)
        BY <1>1, OthersAreSound
    <2>2. \A i \in DOMAIN s : s[i] \in Calls!Steps
        BY <2>1 DEF Sound
    <2> QED BY <2>1, <2>2 DEF Calls!Expanded
<1>2. \A entry \in Calls!Gateway :
          /\ Sound(entry[2]) /\ entry[2] \in Seq(Calls!Steps)
          /\ entry[1] \in Sending => Asking(entry[2])
    BY GatewayIsSound, AskingAsk, OthersAreSound DEF Asking, Sound
<1>3. ASSUME NEW i, Hole(s, i), DOMAIN s = 1 .. Len(s), s[i] \notin Calls!Steps
      PROVE  \E entry \in Calls!Gateway : entry[1] = s[i] /\ Filled(s, i, entry[2], p)
    <2>1. i = CHOOSE j \in DOMAIN s : s[j] \notin Calls!Steps
        BY <1>3 DEF Hole
    <2>2. PICK inner \in Calls!Under(Calls!Gateway, s[i]) : p = Splice(s, i, inner)
        BY <1>3, <2>1 DEF Calls!Expanded, Splice, Hole
    <2>3. PICK entry \in Calls!Gateway : entry[1] = s[i] /\ inner = entry[2]
        BY <2>2 DEF Calls!Under
    <2> QED BY <1>2, <1>3, <2>2, <2>3, SpliceProperties
<1>4. \A op \in Operations \cup Sending : op \notin Calls!Steps
    BY DEF Operations, Sending, Calls!Steps
<1>5. CASE Calling(s)
    <2>1. PICK op \in Operations : s = <<op>> \/ s = <<"check", op>>
        BY <1>5 DEF Calling
    <2>2. PICK k \in {0, 1} : /\ Len(s) = k + 1 /\ DOMAIN s = 1 .. Len(s) /\ s[k + 1] = op
                              /\ k = 1 => s[1] = "check"
        <3>1. CASE s = <<op>>
            BY <3>1
        <3>2. CASE s = <<"check", op>>
            BY <3>2
        <3> QED BY <2>1, <3>1, <3>2
    <2>3. Hole(s, k + 1) /\ s[k + 1] \notin Calls!Steps
        <3>1. Len(s) \in Nat /\ k + 1 \in 1 .. Len(s) /\ s[k + 1] \notin Calls!Steps
            BY <1>4, <2>2
        <3>2. \A j \in 1 .. Len(s) : j # k + 1 => s[j] \in Calls!Steps
            BY <2>2 DEF Calls!Steps
        <3> QED BY <3>1, <3>2 DEF Hole
    <2>4. PICK entry \in Calls!Gateway : Filled(s, k + 1, entry[2], p)
        BY <1>3, <2>2, <2>3
    <2> DEFINE inner == entry[2]
    <2>5. Sound(inner) /\ Len(inner) \in Nat
        <3>1. Sound(inner) /\ inner \in Seq(Calls!Steps)
            BY <1>2, <2>4
        <3> HIDE DEF inner
        <3> QED BY <3>1
    <2>6. Filled(s, k + 1, inner, p)
        BY <2>4
    <2> HIDE DEF inner
    <2>7. k \in Nat /\ k + 1 - 1 = k
        BY <2>2
    <2>8. /\ p \in Seq(Calls!Steps) /\ Len(p) = k + Len(inner)
          /\ \A j \in 1 .. k : p[j] = s[j]
          /\ \A j \in 1 .. Len(inner) : p[k + j] = inner[j]
        BY <2>2, <2>5, <2>6, <2>7 DEF Filled
    <2>9. \A j \in 1 .. k : p[j] = "check"
        BY <2>2, <2>8
    <2> QED BY <2>5, <2>7, <2>8, <2>9, CallingIsSound
<1>6. CASE Storer(s)
    <2>1. PICK op \in Sending : \/ s = <<"check", op, "save", "tell">>
                                \/ s = <<"check", op, "save", "keep", "tell">>
        BY <1>6 DEF Storer
    <2>2. /\ DOMAIN s = 1 .. Len(s) /\ s[1] = "check" /\ s[2] = op
          /\ \/ Len(s) = 4 /\ s[3] = "save" /\ s[4] = "tell"
             \/ Len(s) = 5 /\ s[3] = "save" /\ s[4] = "keep" /\ s[5] = "tell"
        <3>1. CASE s = <<"check", op, "save", "tell">>
            BY <3>1
        <3>2. CASE s = <<"check", op, "save", "keep", "tell">>
            BY <3>2
        <3> QED BY <2>1, <3>1, <3>2
    <2>3. Hole(s, 2) /\ s[2] \notin Calls!Steps
        BY <1>4, <2>2 DEF Hole, Calls!Steps
    <2>4. PICK entry \in Calls!Gateway : entry[1] = op /\ Filled(s, 2, entry[2], p)
        BY <1>3, <2>2, <2>3
    <2> DEFINE inner == entry[2]
               n     == 1 + Len(inner)
    <2>5. Asking(inner) /\ Len(inner) \in Nat /\ n \in Nat /\ n = 1 + Len(inner)
        BY <1>2, <2>4 DEF Sound
    <2>6. Filled(s, 2, inner, p)
        BY <2>4
    <2> HIDE DEF inner, n
    <2>7. /\ p \in Seq(Calls!Steps) /\ Len(p) = n + Len(s) - 2
          /\ p[1] = "check" /\ \A j \in 1 .. Len(inner) : p[1 + j] = inner[j]
        BY <2>2, <2>5, <2>6 DEF Filled
    <2>8. \A j \in 1 .. (Len(s) - 2) : p[n + j] = s[2 + j]
        <3>1. 2 - 1 + Len(inner) = n
            BY <2>5
        <3> QED BY <2>6, <3>1 DEF Filled
    <2>9. \/ Len(p) = n + 2 /\ p[n + 1] = "save" /\ p[n + 2] = "tell"
          \/ Len(p) = n + 3 /\ p[n + 1] = "save" /\ p[n + 2] = "keep" /\ p[n + 3] = "tell"
        <3>1. CASE Len(s) = 4
            BY <2>2, <2>5, <2>7, <2>8, <3>1
        <3>2. CASE Len(s) = 5
            BY <2>2, <2>5, <2>7, <2>8, <3>2
        <3> QED BY <2>2, <3>1, <3>2
    <2> QED BY <2>5, <2>7, <2>9, StoringIsSound
<1> QED BY <1>1, <1>5, <1>6 DEF Form

-----------------------------------------------------------------------------
(* The calls. Values have their types, and a running call is somewhere in a *)
(* program of its method.                                                   *)
CallsBase ==
    /\ method \in Calls!Methods
    /\ path \in [Callers -> Calls!Programs[method] \cup {<<>>}]
    /\ at \in [Callers -> Nat]
    /\ \A c \in Callers : at[c] # 0 => path[c] \in Calls!Programs[method]
                          /\ at[c] <= Len(path[c]) + 1
    /\ answer \in [Callers -> {"none", "ok", "error"}]
    /\ begun \in 0 .. MaxCalls
    /\ {agreed, stored, screen, reread, latest} \subseteq Calls!Values
    /\ accepted \subseteq Callers
    /\ snapshot \in [Callers -> Calls!Values]
    /\ told \in [Callers -> 0 .. 1]
    /\ unannounced \in BOOLEAN /\ overlapped \in BOOLEAN

(* Before the n-th step of a program there is a step, two steps in order,   *)
(* and a change that is stored and not announced.                           *)
Made(p, n, names) == \E i \in Places(p, names) : i < n
MadeBoth(p, n, first, second) ==
    \E i \in Places(p, first), j \in Places(p, second) : i < j /\ j < n
Unsaid(p, n) ==
    \E i \in 1 .. (n - 1) : p[i] \in Storing /\ \A j \in i .. (n - 1) : p[j] \notin Announcing

(* A call has told its change only where its program does.                  *)
ToldInv ==
    \A c \in Callers : at[c] # 0 /\ told[c] # 0 => Made(path[c], at[c], {"tell", "show"})

(* Who goes on after asking was accepted, and of what was not accepted      *)
(* nothing is stored, read or shown.                                        *)
AcceptedInv ==
    /\ \A c \in Callers : at[c] # 0 /\ Made(path[c], at[c], {"ask"}) => c \in accepted
    /\ Calls!Does("ask") =>
           /\ {stored, screen, reread} \subseteq accepted \cup {None}
           /\ \A c \in Callers : snapshot[c] \in accepted \cup {None}

(* What clients read again is behind only while a running call has yet to   *)
(* say what it stored.                                                      *)
RereadInv ==
    Calls!Saves /\ Calls!Announces /\ ~unannounced /\ reread # stored =>
        \E c \in Callers : at[c] # 0 /\ Unsaid(path[c], at[c])

(* A call that runs alone finds what its own steps have left, ...           *)
Left(c, n) ==
    /\ Made(path[c], n, {"ask"}) => agreed = c
    /\ Made(path[c], n, {"save"}) => stored = c
    /\ MadeBoth(path[c], n, {"save"}, {"look"}) => snapshot[c] = c
    /\ Made(path[c], n, {"tell", "show"}) => screen = c
    /\ MadeBoth(path[c], n, {"save"}, Announcing) => reread = c

(* ... and so does whoever comes after it.                                  *)
AloneInv ==
    ~overlapped =>
        /\ \A c, d \in Callers : at[c] # 0 /\ at[d] # 0 => c = d
        /\ \A c \in Callers : at[c] # 0 => Left(c, at[c])
        /\ Calls!Running = {} /\ latest # None /\ answer[latest] = "ok" =>
               path[latest] \in Calls!Programs[method] /\ Left(latest, Len(path[latest]) + 1)

CallsInv == CallsBase /\ ToldInv /\ AcceptedInv /\ RereadInv /\ AloneInv

(* A call that goes on has made one step more.                              *)
LEMMA OneStepMore ==
    ASSUME NEW p \in Seq(Calls!Steps), NEW n \in 1 .. Len(p)
    PROVE  /\ \A names : Made(p, n + 1, names) <=> Made(p, n, names) \/ p[n] \in names
           /\ \A first, second :
                  MadeBoth(p, n + 1, first, second) =>
                      MadeBoth(p, n, first, second) \/ (Made(p, n, first) /\ p[n] \in second)
           /\ Unsaid(p, n) /\ p[n] \notin Announcing => Unsaid(p, n + 1)
           /\ p[n] \in Storing => Unsaid(p, n + 1)
<1>1. Len(p) \in Nat /\ \A i \in 1 .. Len(p) : i < n + 1 <=> i < n \/ i = n
    OBVIOUS
<1>2. ASSUME NEW names PROVE Made(p, n + 1, names) <=> Made(p, n, names) \/ p[n] \in names
    BY <1>1 DEF Made, Places
<1>3. ASSUME NEW first, NEW second, MadeBoth(p, n + 1, first, second)
      PROVE  MadeBoth(p, n, first, second) \/ (Made(p, n, first) /\ p[n] \in second)
    BY <1>1, <1>3 DEF MadeBoth, Made, Places
<1>4. ASSUME Unsaid(p, n), p[n] \notin Announcing PROVE Unsaid(p, n + 1)
    <2>1. PICK i \in 1 .. (n - 1) : /\ p[i] \in Storing
                                    /\ \A j \in i .. (n - 1) : p[j] \notin Announcing
        BY <1>4 DEF Unsaid
    <2>2. i \in 1 .. (n + 1 - 1) /\ \A j \in i .. (n + 1 - 1) : j \in i .. (n - 1) \/ j = n
        BY <1>1
    <2>3. \A j \in i .. (n + 1 - 1) : p[j] \notin Announcing
        BY <1>4, <2>1, <2>2
    <2> QED BY <2>1, <2>2, <2>3 DEF Unsaid
<1>5. ASSUME p[n] \in Storing PROVE Unsaid(p, n + 1)
    <2>1. n \in 1 .. (n + 1 - 1) /\ \A j \in n .. (n + 1 - 1) : j = n
        BY <1>1
    <2>2. p[n] \notin Announcing
        BY <1>5 DEF Storing, Announcing
    <2> QED BY <1>5, <2>1, <2>2 DEF Unsaid
<1> QED BY <1>2, <1>3, <1>4, <1>5

LEMMA RunningIsSound ==
    ASSUME CallsBase, NEW c \in Callers, path[c] \in Calls!Programs[method]
    PROVE  Sound(path[c]) /\ path[c] \in Seq(Calls!Steps) /\ Len(path[c]) \in Nat
<1>1. Sound(path[c])
    BY ProgramsAreSound DEF CallsBase
<1>2. path[c] \in Seq(Calls!Steps)
    BY <1>1 DEF Sound
<1> QED BY <1>1, <1>2

(* A call goes on: what each step does.                                     *)
GoesOn(c) ==
    LET step == path[c][at[c]]
    IN  /\ at[c] \in 1 .. Len(path[c]) /\ Calls!GoOn(c)
        /\ UNCHANGED <<method, path, begun, overlapped>>
        /\ \/ step = "ask" /\ agreed' = c /\ accepted' = accepted \cup {c}
           \/ step # "ask" /\ UNCHANGED <<agreed, accepted>>
        /\ \/ step \in Storing /\ stored' = c
           \/ step # "save" /\ stored' = stored
        /\ snapshot' = IF step = "look" THEN [snapshot EXCEPT ![c] = stored] ELSE snapshot
        /\ step = "tell" => screen' = c
        /\ step = "show" => screen' = snapshot[c]
        /\ step \notin {"tell", "show"} => screen' = screen
        /\ told' = IF step \in {"tell", "show"} THEN [told EXCEPT ![c] = @ + 1] ELSE told
        /\ reread' = IF step \in Announcing THEN stored ELSE reread
        /\ unannounced' = IF step \in Announcing THEN FALSE ELSE unannounced

LEMMA StepsGoOn ==
    ASSUME CallsBase, NEW c \in Callers,
           \/ Calls!Check(c) \/ Calls!Look(c) \/ Calls!Ask(c) \/ Calls!Save(c) \/ Calls!Publish(c)
           \/ Calls!SaveFails(c) /\ Calls!AtStep(c, "keep")
    PROVE  GoesOn(c)
<1> USE DEF GoesOn, Calls!AtStep, Storing, Announcing
<1>1. ASSUME at[c] \in DOMAIN path[c] PROVE at[c] \in 1 .. Len(path[c])
    <2>1. at[c] # 0 => path[c] \in Seq(Calls!Steps)
        BY RunningIsSound DEF CallsBase
    <2>2. path[c] = <<>> \/ path[c] \in Seq(Calls!Steps)
        BY RunningIsSound DEF CallsBase
    <2> QED BY <1>1, <2>2
<1>2. CASE Calls!Check(c)
    BY <1>1, <1>2 DEF Calls!Check
<1>3. CASE Calls!Look(c)
    BY <1>1, <1>3 DEF Calls!Look
<1>4. CASE Calls!Ask(c)
    BY <1>1, <1>4 DEF Calls!Ask, Calls!Accept
<1>5. CASE Calls!Save(c)
    BY <1>1, <1>5 DEF Calls!Save
<1>6. CASE Calls!Publish(c)
    BY <1>1, <1>6 DEF Calls!Publish
<1>7. CASE Calls!SaveFails(c) /\ Calls!AtStep(c, "keep")
    BY <1>1, <1>7 DEF Calls!SaveFails
<1> QED BY <1>2, <1>3, <1>4, <1>5, <1>6, <1>7

LEMMA GoingOnKeepsBase ==
    ASSUME CallsBase, ToldInv, NEW c \in Callers, GoesOn(c)
    PROVE  CallsBase' /\ ToldInv'
<1> DEFINE n == at[c]
           p == path[c]
<1>1. /\ p \in Calls!Programs[method] /\ p \in Seq(Calls!Steps) /\ Sound(p) /\ Len(p) \in Nat
      /\ n \in 1 .. Len(p) /\ n # 0
    BY RunningIsSound DEF CallsBase, GoesOn
<1>2. at' = [at EXCEPT ![c] = n + 1] /\ path' = path /\ method' = method
    BY DEF GoesOn, Calls!GoOn
<1>3. p[n] \in {"tell", "show"} => told[c] = 0
    <2> SUFFICES ASSUME p[n] \in {"tell", "show"}, told[c] # 0 PROVE FALSE
        BY DEF CallsBase
    <2>1. PICK i \in Places(p, {"tell", "show"}) : i < n
        BY <1>1 DEF ToldInv, Made
    <2>2. n \in Places(p, {"tell", "show"})
        BY <1>1 DEF Places
    <2>3. i = n
        BY <1>1, <2>1, <2>2 DEF Sound
    <2> QED BY <1>1, <2>1, <2>3
<1>4. told' \in [Callers -> 0 .. 1] /\ \A d \in Callers : d # c => told'[d] = told[d]
    BY <1>3 DEF CallsBase, GoesOn
<1>5. told'[c] # 0 => told[c] # 0 \/ p[n] \in {"tell", "show"}
    BY DEF GoesOn
<1> HIDE DEF n, p
<1>6. at' \in [Callers -> Nat] /\ at'[c] = n + 1 /\ \A d \in Callers : d # c => at'[d] = at[d]
    BY <1>1, <1>2 DEF CallsBase
<1>7. ToldInv'
    <2>1. ASSUME NEW d \in Callers, d # c, at'[d] # 0, told'[d] # 0
          PROVE  Made(path[d], at'[d], {"tell", "show"})
        BY <1>4, <1>6, <2>1 DEF ToldInv
    <2>2. ASSUME told'[c] # 0 PROVE Made(path[c], at'[c], {"tell", "show"})
        <3>1. Made(p, n, {"tell", "show"}) \/ p[n] \in {"tell", "show"}
            BY <1>1, <1>5, <2>2 DEF ToldInv, n, p
        <3> QED BY <1>1, <1>6, <3>1, OneStepMore DEF p
    <2> QED BY <1>2, <2>1, <2>2 DEF ToldInv
<1>8. \A d \in Callers :
          at'[d] # 0 => path[d] \in Calls!Programs[method] /\ at'[d] <= Len(path[d]) + 1
    BY <1>1, <1>6 DEF CallsBase, p
<1>9. snapshot' \in [Callers -> Calls!Values] /\ {agreed', stored'} \subseteq Calls!Values
    BY DEF CallsBase, GoesOn, Calls!Values
<1>10. {screen', reread', latest'} \subseteq Calls!Values
    BY DEF CallsBase, GoesOn, Calls!GoOn, Calls!Values
<1>11. /\ answer' \in [Callers -> {"none", "ok", "error"}] /\ begun' \in 0 .. MaxCalls
       /\ accepted' \subseteq Callers /\ unannounced' \in BOOLEAN /\ overlapped' \in BOOLEAN
    BY DEF CallsBase, GoesOn, Calls!GoOn
<1>12. CallsBase'
    BY <1>2, <1>4, <1>6, <1>8, <1>9, <1>10, <1>11 DEF CallsBase, Calls!Values
<1> QED BY <1>7, <1>12

LEMMA GoingOnKeepsAccepted ==
    ASSUME CallsBase, AcceptedInv, NEW c \in Callers, GoesOn(c)
    PROVE  AcceptedInv'
<1> DEFINE n == at[c]
           p == path[c]
<1>1. /\ p \in Calls!Programs[method] /\ p \in Seq(Calls!Steps) /\ Sound(p) /\ Len(p) \in Nat
      /\ n \in 1 .. Len(p) /\ n # 0
    BY RunningIsSound DEF CallsBase, GoesOn
<1>2. at' = [at EXCEPT ![c] = n + 1] /\ path' = path /\ method' = method
    BY DEF GoesOn, Calls!GoOn
<1>3. accepted \subseteq accepted' /\ (p[n] = "ask" => c \in accepted')
    BY DEF GoesOn
<1>4. /\ stored' = stored \/ (stored' = c /\ p[n] \in Storing)
      /\ screen' \in {screen, snapshot[c]} \/ (screen' = c /\ p[n] = "tell")
      /\ reread' \in {reread, stored}
    BY DEF GoesOn
<1>5. \A d \in Callers : snapshot'[d] \in {snapshot[d], stored}
    BY DEF GoesOn, CallsBase
<1> HIDE DEF n, p
<1>6. at'[c] = n + 1 /\ \A d \in Callers : d # c => at'[d] = at[d]
    BY <1>2 DEF CallsBase
<1>7. ASSUME NEW d \in Callers, at'[d] # 0, Made(path[d], at'[d], {"ask"}) PROVE d \in accepted'
    <2>1. CASE d # c
        BY <1>3, <1>6, <1>7, <2>1 DEF AcceptedInv
    <2>2. CASE d = c
        <3>1. Made(p, n, {"ask"}) \/ p[n] = "ask"
            BY <1>1, <1>6, <1>7, <2>2, OneStepMore DEF p
        <3> QED BY <1>1, <1>3, <2>2, <3>1 DEF AcceptedInv, n, p
    <2> QED BY <2>1, <2>2
<1>8. ASSUME Calls!Does("ask"), p[n] \in Storing \cup {"tell"} PROVE c \in accepted
    <2>1. Places(p, {"ask"}) # {} /\ n \in Places(p, Storing \cup {"tell", "show"})
        BY <1>1, <1>8 DEF Calls!Does, Places
    <2>2. Made(p, n, {"ask"})
        BY <1>1, <2>1 DEF Sound, Made
    <2> QED BY <1>1, <2>2 DEF AcceptedInv, n, p
<1>9. ASSUME Calls!Does("ask")
      PROVE  /\ {stored', screen', reread'} \subseteq accepted' \cup {None}
             /\ \A d \in Callers : snapshot'[d] \in accepted' \cup {None}
    <2>1. /\ {stored, screen, reread} \subseteq accepted' \cup {None}
          /\ \A d \in Callers : snapshot[d] \in accepted' \cup {None}
        BY <1>3, <1>9 DEF AcceptedInv
    <2>2. p[n] \in Storing \/ p[n] = "tell" => c \in accepted'
        BY <1>3, <1>8, <1>9
    <2> QED BY <1>4, <1>5, <2>1, <2>2
<1>10. Calls!Does("ask")' = Calls!Does("ask")
    BY <1>2 DEF Calls!Does
<1> QED BY <1>2, <1>7, <1>9, <1>10 DEF AcceptedInv

LEMMA GoingOnKeepsReread ==
    ASSUME CallsBase, RereadInv, NEW c \in Callers, GoesOn(c)
    PROVE  RereadInv'
<1> DEFINE n == at[c]
           p == path[c]
<1>1. p \in Seq(Calls!Steps) /\ Len(p) \in Nat /\ n \in 1 .. Len(p) /\ n # 0
    BY RunningIsSound DEF CallsBase, GoesOn
<1>2. at' = [at EXCEPT ![c] = n + 1] /\ path' = path /\ method' = method
    BY DEF GoesOn, Calls!GoOn
<1>3. \/ p[n] \in Storing
      \/ p[n] \in Announcing /\ reread' = stored /\ stored' = stored
      \/ p[n] \notin Announcing /\ UNCHANGED <<stored, reread, unannounced>>
    BY DEF GoesOn, Storing, Announcing
<1>4. p[n] \in Storing => UNCHANGED <<reread, unannounced>>
    BY DEF GoesOn, Storing, Announcing
<1> HIDE DEF n, p
<1>5. at'[c] = n + 1 /\ \A d \in Callers : d # c => at'[d] = at[d]
    BY <1>2 DEF CallsBase
<1>6. Calls!Saves' = Calls!Saves /\ Calls!Announces' = Calls!Announces
    BY <1>2 DEF Calls!Saves, Calls!Announces, Calls!Does
<1> SUFFICES ASSUME Calls!Saves, Calls!Announces, ~unannounced', reread' # stored'
             PROVE  \E d \in Callers : at'[d] # 0 /\ Unsaid(path[d], at'[d])
    BY <1>2, <1>6 DEF RereadInv
<1>7. CASE p[n] \in Storing
    <2>1. Unsaid(path[c], at'[c])
        BY <1>1, <1>5, <1>7, OneStepMore DEF p
    <2> QED BY <1>1, <1>5, <2>1
<1>8. CASE p[n] \notin Announcing /\ UNCHANGED <<stored, reread, unannounced>>
    <2>1. PICK d \in Callers : at[d] # 0 /\ Unsaid(path[d], at[d])
        BY <1>8 DEF RereadInv
    <2>2. CASE d = c
        <3>1. Unsaid(path[c], at'[c])
            BY <1>1, <1>5, <1>8, <2>1, <2>2, OneStepMore DEF n, p
        <3> QED BY <1>1, <1>5, <3>1
    <2>3. CASE d # c
        BY <1>5, <2>1, <2>3
    <2> QED BY <2>2, <2>3
<1> QED BY <1>3, <1>7, <1>8

LEMMA GoingOnKeepsAlone ==
    ASSUME CallsBase, AloneInv, NEW c \in Callers, GoesOn(c)
    PROVE  AloneInv'
<1> DEFINE n == at[c]
           p == path[c]
<1>1. /\ p \in Calls!Programs[method] /\ p \in Seq(Calls!Steps) /\ Sound(p) /\ Len(p) \in Nat
      /\ n \in 1 .. Len(p) /\ n # 0
    BY RunningIsSound DEF CallsBase, GoesOn
<1>2. at' = [at EXCEPT ![c] = n + 1] /\ path' = path /\ overlapped' = overlapped
    BY DEF GoesOn, Calls!GoOn
<1>3. /\ agreed' = c \/ (agreed' = agreed /\ p[n] # "ask")
      /\ stored' = c \/ (stored' = stored /\ p[n] # "save")
      /\ snapshot'[c] = IF p[n] = "look" THEN stored ELSE snapshot[c]
    BY DEF GoesOn, CallsBase
<1>4. /\ p[n] = "tell" => screen' = c
      /\ p[n] = "show" => screen' = snapshot[c]
      /\ p[n] \notin {"tell", "show"} => screen' = screen
      /\ reread' = IF p[n] \in Announcing THEN stored ELSE reread
    BY DEF GoesOn
<1> HIDE DEF n, p
<1>5. at'[c] = n + 1 /\ \A d \in Callers : d # c => at'[d] = at[d]
    BY <1>2 DEF CallsBase
<1> SUFFICES ASSUME ~overlapped
             PROVE  /\ \A d, e \in Callers : at'[d] # 0 /\ at'[e] # 0 => d = e
                    /\ \A d \in Callers : at'[d] # 0 => Left(d, at[d])'
                    /\ Calls!Running' # {}
    BY <1>2 DEF AloneInv
<1>6. \A d \in Callers : d # c => at[d] = 0
    BY <1>1 DEF AloneInv, n
<1>7. Left(c, n)
    BY <1>1 DEF AloneInv, n
<1>8. Made(p, n + 1, {"ask"}) => agreed' = c
    BY <1>1, <1>3, <1>7, OneStepMore DEF Left, p
<1>9. Made(p, n + 1, {"save"}) => stored' = c
    BY <1>1, <1>3, <1>7, OneStepMore DEF Left, p
<1>10. MadeBoth(p, n + 1, {"save"}, {"look"}) => snapshot'[c] = c
    <2>1. MadeBoth(p, n, {"save"}, {"look"}) => Made(p, n, {"save"})
        BY <1>1 DEF MadeBoth, Made, Places
    <2> QED BY <1>1, <1>3, <1>7, <2>1, OneStepMore DEF Left, p
<1>11. Made(p, n + 1, {"tell", "show"}) => screen' = c
    <2>1. ASSUME p[n] = "show" PROVE snapshot[c] = c
        <3>1. n \in Places(p, {"show"})
            BY <1>1, <2>1 DEF Places
        <3>2. MadeBoth(p, n, {"save"}, {"look"})
            BY <1>1, <3>1 DEF Sound, MadeBoth
        <3> QED BY <1>7, <3>2 DEF Left, p
    <2>2. Made(p, n, {"tell", "show"}) => screen = c
        BY <1>7 DEF Left, p
    <2> QED BY <1>1, <1>4, <2>1, <2>2, OneStepMore
<1>12. MadeBoth(p, n + 1, {"save"}, Announcing) => reread' = c
    <2>1. MadeBoth(p, n, {"save"}, Announcing) => Made(p, n, {"save"}) /\ reread = c
        BY <1>1, <1>7 DEF MadeBoth, Made, Places, Left, p
    <2>2. Made(p, n, {"save"}) => stored = c
        BY <1>7 DEF Left, p
    <2> QED BY <1>1, <1>4, <2>1, <2>2, OneStepMore
<1>13. Left(c, at[c])'
    BY <1>2, <1>5, <1>8, <1>9, <1>10, <1>11, <1>12 DEF Left, p
<1>14. at'[c] # 0
    BY <1>1, <1>5
<1> QED BY <1>5, <1>6, <1>13, <1>14 DEF Calls!Running

(* A call starts, fails or is answered.                                     *)
LEMMA HandleKeepsCalls ==
    ASSUME CallsInv, NEW c \in Callers, Calls!Handle(c)
    PROVE  CallsInv'
<1> USE DEF CallsInv
<1>1. PICK p \in Calls!Programs[method] : path' = [path EXCEPT ![c] = p]
    BY DEF Calls!Handle
<1>2. /\ at[c] = 0 /\ at' = [at EXCEPT ![c] = 1] /\ method' = method
      /\ told' = [told EXCEPT ![c] = 0] /\ overlapped' = (Calls!Running # {})
      /\ begun < MaxCalls /\ begun' = begun + 1 /\ answer' = [answer EXCEPT ![c] = "none"]
      /\ UNCHANGED <<agreed, accepted, stored, snapshot, screen, reread, unannounced, latest>>
    BY DEF Calls!Handle
<1>3. p \in Seq(Calls!Steps) /\ Len(p) \in Nat
    <2>1. Sound(p)
        BY ProgramsAreSound DEF CallsBase
    <2>2. p \in Seq(Calls!Steps)
        BY <2>1 DEF Sound
    <2> QED BY <2>2
<1>4. /\ at'[c] = 1 /\ path'[c] = p /\ told'[c] = 0
      /\ \A d \in Callers : d # c => at'[d] = at[d] /\ path'[d] = path[d] /\ told'[d] = told[d]
    BY <1>1, <1>2 DEF CallsBase
<1>5. CallsBase'
    <2>1. /\ path' \in [Callers -> Calls!Programs[method] \cup {<<>>}] /\ at' \in [Callers -> Nat]
          /\ told' \in [Callers -> 0 .. 1] /\ answer' \in [Callers -> {"none", "ok", "error"}]
        BY <1>1, <1>2 DEF CallsBase
    <2>2. begun' \in 0 .. MaxCalls
        BY <1>2, ConstantsAssumption DEF CallsBase, Calls!CallsAssumption
    <2>3. \A d \in Callers :
              at'[d] # 0 => path'[d] \in Calls!Programs[method] /\ at'[d] <= Len(path'[d]) + 1
        BY <1>3, <1>4 DEF CallsBase
    <2>4. overlapped' \in BOOLEAN
        BY <1>2
    <2> QED BY <1>2, <2>1, <2>2, <2>3, <2>4 DEF CallsBase, Calls!Values
<1>6. \A names : ~Made(p, 1, names)
    BY <1>3 DEF Made, Places
<1>7. ToldInv'
    BY <1>4 DEF ToldInv
<1>8. AcceptedInv'
    <2>1. Calls!Does("ask")' = Calls!Does("ask")
        BY <1>2 DEF Calls!Does
    <2>2. \A d \in Callers : at'[d] # 0 /\ Made(path'[d], at'[d], {"ask"}) => d \in accepted
        BY <1>4, <1>6 DEF AcceptedInv
    <2> QED BY <1>2, <2>1, <2>2 DEF AcceptedInv
<1>9. RereadInv'
    <2>1. Calls!Saves' = Calls!Saves /\ Calls!Announces' = Calls!Announces
        BY <1>2 DEF Calls!Saves, Calls!Announces, Calls!Does
    <2>2. \A d \in Callers : at[d] # 0 /\ Unsaid(path[d], at[d])
                             => at'[d] # 0 /\ Unsaid(path'[d], at'[d])
        BY <1>2, <1>4
    <2> QED BY <1>2, <2>1, <2>2 DEF RereadInv
<1>10. AloneInv'
    <2> SUFFICES ASSUME Calls!Running = {}
                 PROVE  /\ \A d, e \in Callers : at'[d] # 0 /\ at'[e] # 0 => d = e
                        /\ \A d \in Callers : at'[d] # 0 => Left(d, at[d])'
                        /\ Calls!Running' # {}
        BY <1>2 DEF AloneInv
    <2>1. \A d \in Callers : at'[d] # 0 <=> d = c
        BY <1>4 DEF Calls!Running
    <2>2. ~MadeBoth(p, 1, {"save"}, {"look"}) /\ ~MadeBoth(p, 1, {"save"}, Announcing)
        BY <1>3 DEF MadeBoth, Places
    <2>3. Left(c, at[c])'
        BY <1>4, <1>6, <2>2 DEF Left
    <2> QED BY <2>1, <2>3 DEF Calls!Running
<1> QED BY <1>5, <1>7, <1>8, <1>9, <1>10

LEMMA FailureKeepsCalls ==
    ASSUME CallsInv, NEW c \in Callers, at[c] # 0, Calls!Fail(c),
           Calls!Accept(c) \/ UNCHANGED <<agreed, accepted>>,
           UNCHANGED <<method, path, begun, stored, snapshot, told, screen, reread, overlapped>>
    PROVE  CallsInv'
<1> USE DEF CallsInv
<1>1. /\ at' = [at EXCEPT ![c] = 0] /\ answer' = [answer EXCEPT ![c] = "error"] /\ latest' = c
      /\ unannounced' = (unannounced \/ Calls!StoredUnsaid(c))
    BY DEF Calls!Fail
<1>2. at'[c] = 0 /\ answer'[c] = "error" /\ \A d \in Callers : d # c => at'[d] = at[d]
    BY <1>1 DEF CallsBase
<1>3. /\ accepted \subseteq accepted' /\ accepted' \subseteq Callers
      /\ agreed' \in Calls!Values /\ latest' \in Calls!Values
    BY <1>1 DEF CallsBase, Calls!Accept, Calls!Values
<1>4. CallsBase'
    <2>1. /\ at' \in [Callers -> Nat] /\ answer' \in [Callers -> {"none", "ok", "error"}]
          /\ unannounced' \in BOOLEAN
        BY <1>1 DEF CallsBase, Calls!StoredUnsaid
    <2>2. \A d \in Callers : at'[d] # 0 => at[d] # 0 /\ at'[d] = at[d]
        BY <1>2
    <2> QED BY <1>3, <2>1, <2>2 DEF CallsBase, Calls!Values
<1>5. ToldInv'
    BY <1>2 DEF ToldInv
<1>6. AcceptedInv'
    <2>1. Calls!Does("ask")' = Calls!Does("ask")
        BY DEF Calls!Does
    <2>2. \A d \in Callers : at'[d] # 0 /\ Made(path'[d], at'[d], {"ask"}) => d \in accepted'
        BY <1>2, <1>3 DEF AcceptedInv
    <2> QED BY <1>3, <2>1, <2>2 DEF AcceptedInv
<1>7. RereadInv'
    <2>1. Calls!Saves' = Calls!Saves /\ Calls!Announces' = Calls!Announces
        BY DEF Calls!Saves, Calls!Announces, Calls!Does
    <2>2. Unsaid(path[c], at[c]) => Calls!StoredUnsaid(c)
        BY DEF Unsaid, Calls!StoredUnsaid, Storing, Announcing
    <2>3. ASSUME ~unannounced', NEW d \in Callers, at[d] # 0, Unsaid(path[d], at[d])
          PROVE  at'[d] # 0 /\ Unsaid(path'[d], at'[d])
        BY <1>1, <1>2, <2>2, <2>3
    <2>4. ~unannounced' => ~unannounced
        BY <1>1
    <2> QED BY <2>1, <2>3, <2>4 DEF RereadInv
<1>8. AloneInv'
    <2> SUFFICES ASSUME ~overlapped
                 PROVE  /\ \A d, e \in Callers : at'[d] # 0 /\ at'[e] # 0 => d = e
                        /\ \A d \in Callers : at'[d] = 0
                        /\ answer'[latest'] # "ok"
        BY DEF AloneInv
    <2>1. \A d \in Callers : d # c => at[d] = 0
        BY DEF AloneInv
    <2> QED BY <1>1, <1>2, <2>1
<1> QED BY <1>4, <1>5, <1>6, <1>7, <1>8

LEMMA AnswerKeepsCalls ==
    ASSUME CallsInv, NEW c \in Callers, Calls!Answer(c)
    PROVE  CallsInv'
<1> USE DEF CallsInv
<1>1. /\ at' = [at EXCEPT ![c] = 0] /\ answer' = [answer EXCEPT ![c] = "ok"] /\ latest' = c
      /\ UNCHANGED <<method, path, begun, agreed, accepted, stored, snapshot, told, screen, reread,
                     unannounced, overlapped>>
    BY DEF Calls!Answer
<1>2. at'[c] = 0 /\ answer'[c] = "ok" /\ \A d \in Callers : d # c => at'[d] = at[d]
    BY <1>1 DEF CallsBase
<1>3. CASE at[c] = 0
    <2>1. at[c] > Len(path[c])
        BY DEF Calls!Answer
    <2>2. path[c] = <<>> \/ path[c] \in Calls!Programs[method]
        BY DEF CallsBase
    <2>3. Len(path[c]) \in Nat
        BY <2>2, RunningIsSound
    <2> QED BY <1>3, <2>1, <2>3
<1>4. CASE at[c] # 0
    <2>1. path[c] \in Calls!Programs[method] /\ Sound(path[c]) /\ at[c] = Len(path[c]) + 1
        <3>1. at[c] > Len(path[c]) /\ at[c] \in Nat
            BY DEF Calls!Answer, CallsBase
        <3> QED BY <1>4, <3>1, RunningIsSound DEF CallsBase
    <2>2. CallsBase'
        <3>1. /\ at' \in [Callers -> Nat] /\ answer' \in [Callers -> {"none", "ok", "error"}]
              /\ latest' \in Calls!Values
            BY <1>1 DEF CallsBase, Calls!Values
        <3>2. \A d \in Callers : at'[d] # 0 => at[d] # 0 /\ at'[d] = at[d]
            BY <1>2
        <3> QED BY <1>1, <3>1, <3>2 DEF CallsBase, Calls!Values
    <2>3. ToldInv'
        BY <1>1, <1>2 DEF ToldInv
    <2>4. AcceptedInv'
        <3>1. Calls!Does("ask")' = Calls!Does("ask")
            BY <1>1 DEF Calls!Does
        <3> QED BY <1>1, <1>2, <3>1 DEF AcceptedInv
    <2>5. RereadInv'
        <3>1. Calls!Saves' = Calls!Saves /\ Calls!Announces' = Calls!Announces
            BY <1>1 DEF Calls!Saves, Calls!Announces, Calls!Does
        <3>2. ASSUME Calls!Saves, Calls!Announces PROVE ~Unsaid(path[c], at[c])
            <4> SUFFICES ASSUME Unsaid(path[c], at[c]) PROVE FALSE
                OBVIOUS
            <4>1. Len(path[c]) \in Nat
                BY <2>1, RunningIsSound
            <4>2. PICK i \in 1 .. Len(path[c]) :
                      /\ path[c][i] \in Storing
                      /\ \A j \in i .. Len(path[c]) : path[c][j] \notin Announcing
                BY <2>1, <4>1 DEF Unsaid
            <4>3. Places(path[c], {"save"}) # {}
                BY <2>1, <3>2 DEF Calls!Saves, Calls!Does, Places
            <4>4. Places(path[c], Announcing) # {}
                BY <2>1, <3>2 DEF Calls!Announces, Calls!Does, Places, Announcing
            <4>5. PICK j \in Places(path[c], Announcing) : i < j
                BY <2>1, <4>2, <4>3, <4>4 DEF Sound, Places
            <4> QED BY <4>1, <4>2, <4>5 DEF Places
        <3> QED BY <1>1, <1>2, <3>1, <3>2 DEF RereadInv
    <2>6. AloneInv'
        <3> SUFFICES ASSUME ~overlapped
                     PROVE  /\ \A d, e \in Callers : at'[d] # 0 /\ at'[e] # 0 => d = e
                            /\ \A d \in Callers : at'[d] = 0
                            /\ path'[c] \in Calls!Programs[method'] /\ Left(c, Len(path[c]) + 1)'
            BY <1>1 DEF AloneInv
        <3>1. \A d \in Callers : d # c => at[d] = 0
            BY <1>4 DEF AloneInv
        <3>2. Left(c, Len(path[c]) + 1)
            BY <1>4, <2>1 DEF AloneInv
        <3>3. Left(c, Len(path[c]) + 1)'
            BY <1>1, <3>2 DEF Left
        <3> QED BY <1>1, <1>2, <2>1, <3>1, <3>3
    <2> QED BY <2>2, <2>3, <2>4, <2>5, <2>6
<1> QED BY <1>3, <1>4

LEMMA InitCallsInv == ASSUME Calls!Init PROVE CallsInv
<1>1. CallsBase
    <2>1. /\ path \in [Callers -> Calls!Programs[method] \cup {<<>>}] /\ at \in [Callers -> Nat]
          /\ answer \in [Callers -> {"none", "ok", "error"}] /\ told \in [Callers -> 0 .. 1]
          /\ snapshot \in [Callers -> Calls!Values]
        BY DEF Calls!Init, Calls!Values
    <2>2. begun \in 0 .. MaxCalls
        BY ConstantsAssumption DEF Calls!Init, Calls!CallsAssumption
    <2>3. unannounced \in BOOLEAN /\ overlapped \in BOOLEAN
        BY DEF Calls!Init
    <2>4. {agreed, stored, screen, reread, latest} \subseteq Calls!Values
        BY DEF Calls!Init, Calls!Values
    <2> QED BY <2>1, <2>2, <2>3, <2>4 DEF Calls!Init, CallsBase
<1>2. \A c \in Callers : at[c] = 0
    BY DEF Calls!Init
<1> QED BY <1>1, <1>2 DEF Calls!Init, CallsInv, ToldInv, AcceptedInv, RereadInv, AloneInv

LEMMA StepKeepsCalls ==
    ASSUME CallsInv, Calls!Next \/ UNCHANGED callsVars
    PROVE  CallsInv'
<1>1. CASE UNCHANGED callsVars
    BY <1>1 DEF callsVars, CallsInv, CallsBase, ToldInv, AcceptedInv, RereadInv, AloneInv, Left,
                Calls!Values, Calls!Running, Calls!Saves, Calls!Announces, Calls!Does
<1>2. ASSUME NEW c \in Callers, GoesOn(c) PROVE CallsInv'
    BY <1>2, GoingOnKeepsBase, GoingOnKeepsAccepted, GoingOnKeepsReread, GoingOnKeepsAlone
       DEF CallsInv
<1>3. ASSUME NEW c \in Callers,
             \/ Calls!Refuse(c) \/ Calls!AskFails(c)
             \/ Calls!SaveFails(c) /\ ~Calls!AtStep(c, "keep")
      PROVE  CallsInv'
    <2>1. \A step : Calls!AtStep(c, step) => at[c] # 0
        <3>1. path[c] = <<>> \/ path[c] \in Seq(Calls!Steps)
            BY RunningIsSound DEF CallsInv, CallsBase
        <3> QED BY <3>1 DEF Calls!AtStep
    <2>2. /\ at[c] # 0 /\ Calls!Fail(c)
          /\ Calls!Accept(c) \/ UNCHANGED <<agreed, accepted>>
          /\ UNCHANGED <<method, path, begun, stored, snapshot, told, screen, reread, overlapped>>
        BY <1>3, <2>1 DEF Calls!Refuse, Calls!AskFails, Calls!SaveFails
    <2> QED BY <2>2, FailureKeepsCalls
<1>4. ASSUME NEW c \in Callers,
             \/ Calls!Check(c) \/ Calls!Look(c) \/ Calls!Ask(c) \/ Calls!Save(c) \/ Calls!Publish(c)
             \/ Calls!SaveFails(c) /\ Calls!AtStep(c, "keep")
      PROVE  CallsInv'
    BY <1>2, <1>4, StepsGoOn DEF CallsInv
<1> QED BY <1>1, <1>3, <1>4, HandleKeepsCalls, AnswerKeepsCalls DEF Calls!Next

LEMMA CallsHold == ChatsSpec => []CallsInv
<1>1. ChatsInit => CallsInv
    BY InitCallsInv DEF ChatsInit
<1>2. CallsInv /\ [ChatsNext]_<<looking, unreadVars, flagsVars, addonsVars, callsVars, vars>>
        => CallsInv'
    BY StepKeepsCalls DEF ChatsNext
<1> QED BY <1>1, <1>2, PTL DEF ChatsSpec

(* What WhatsApp has refused is neither stored nor shown, whatever calls of *)
(* a method run at the same time, fail or have their answers lost.          *)
THEOREM RefusedLeavesNothing == ChatsSpec => []NothingRefusedIsShown
<1>1. ChatsSpec => []CallsInv
    BY CallsHold
<1>2. CallsInv => NothingRefusedIsShown
    BY DEF CallsInv, AcceptedInv, NothingRefusedIsShown, Calls!NothingRefusedIsShown
<1> QED BY <1>1, <1>2, PTL

(* What is stored is told: clients that read again at every event show it   *)
(* once the calls have ended, and no change is told twice.                  *)
THEOREM StoredIsTold == ChatsSpec => []ChangesAreTold
<1>1. ChatsSpec => []CallsInv
    BY CallsHold
<1>2. CallsInv => ChangesAreTold
    <2> SUFFICES ASSUME CallsInv PROVE ChangesAreTold
        OBVIOUS
    <2>1. Calls!RereadersCatchUp
        BY DEF CallsInv, RereadInv, Calls!RereadersCatchUp, Calls!Running
    <2>2. Calls!ToldOnce
        <3>1. \A c \in Callers : told[c] \in 0 .. 1
            BY DEF CallsInv, CallsBase
        <3> QED BY <3>1 DEF Calls!ToldOnce
    <2> QED BY <2>1, <2>2 DEF ChangesAreTold, Calls!ChangesAreTold
<1> QED BY <1>1, <1>2, PTL

(* A call that ran alone and was answered with success has its change in    *)
(* the account, in the database and on every screen, whatever earlier calls *)
(* left half done.                                                          *)
THEOREM CallsSettle == ChatsSpec => []SettledCallsAgree
<1>1. ChatsSpec => []CallsInv
    BY CallsHold
<1>2. CallsInv => SettledCallsAgree
    <2> SUFFICES ASSUME CallsInv, Calls!Running = {}, ~overlapped, latest # None,
                        answer[latest] = "ok"
                 PROVE  /\ Calls!Does("ask") => agreed = latest
                        /\ Calls!Saves => stored = latest
                        /\ Calls!Does("tell") \/ Calls!Does("show") => screen = latest
                        /\ Calls!Saves /\ Calls!Announces => reread = latest
        BY DEF SettledCallsAgree, Calls!SettledCallsAgree
    <2> DEFINE p == path[latest]
               n == Len(p) + 1
    <2>1. p \in Calls!Programs[method] /\ Left(latest, n)
        BY DEF CallsInv, AloneInv
    <2>2. latest \in Callers /\ Sound(p) /\ p \in Seq(Calls!Steps) /\ Len(p) \in Nat
        BY <2>1, RunningIsSound DEF CallsInv, CallsBase, Calls!Values
    <2> HIDE DEF p
    <2>3. ASSUME NEW names, Places(p, names) # {} PROVE Made(p, n, names)
        BY <2>2, <2>3 DEF Made, Places
    <2>4. ASSUME NEW step, Calls!Does(step) PROVE Places(p, {step}) # {}
        BY <2>1, <2>2, <2>4 DEF Calls!Does, Places
    <2>5. Calls!Does("ask") => agreed = latest
        BY <2>1, <2>3, <2>4 DEF Left, p
    <2>6. Calls!Saves => stored = latest
        BY <2>1, <2>3, <2>4 DEF Left, Calls!Saves, p
    <2>7. Calls!Does("tell") \/ Calls!Does("show") => screen = latest
        <3>1. Calls!Does("tell") \/ Calls!Does("show") => Places(p, {"tell", "show"}) # {}
            BY <2>4 DEF Places
        <3> QED BY <2>1, <2>3, <3>1 DEF Left, p
    <2>8. Calls!Saves /\ Calls!Announces => reread = latest
        <3> SUFFICES ASSUME Calls!Saves, Calls!Announces PROVE MadeBoth(p, n, {"save"}, Announcing)
            BY <2>1 DEF Left, p
        <3>1. Places(p, {"save"}) # {}
            BY <2>4 DEF Calls!Saves
        <3>2. Places(p, Announcing) # {}
            BY <2>4 DEF Calls!Announces, Announcing, Places
        <3>3. PICK i \in Places(p, {"save"}) : TRUE
            BY <3>1
        <3>4. i \in Places(p, Storing)
            BY <3>3 DEF Places, Storing
        <3>5. PICK j \in Places(p, Announcing) : i < j
            BY <2>2, <3>1, <3>2, <3>4 DEF Sound
        <3>6. j < n
            BY <2>2, <3>5 DEF Places
        <3> QED BY <3>3, <3>5, <3>6 DEF MadeBoth
    <2> QED BY <2>5, <2>6, <2>7, <2>8
<1> QED BY <1>1, <1>2, PTL

=============================================================================
