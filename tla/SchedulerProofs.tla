--------------------------- MODULE SchedulerProofs ---------------------------
(* Proofs about Scheduler, for every choice of its constants: the type      *)
(* invariant, and that a row is sent at most once more than the record of a *)
(* send was lost.                                                           *)
EXTENDS Scheduler, TLAPS

-----------------------------------------------------------------------------
(* The inductive invariant. OncePerLostMark alone is not inductive: it says *)
(* nothing of the rows and of the list, which decide who is sent next.      *)

(* Rows and list entries carry generations that were handed out; two rows,  *)
(* or two entries, never share one; an entry and a row that do share one    *)
(* have the same id.                                                        *)
RowGens ==
    /\ \A i \in Ids : rows[i] # NoRow => rows[i].gen <= gens
    /\ \A i, j \in Ids :
          rows[i] # NoRow /\ rows[j] # NoRow /\ rows[i].gen = rows[j].gen => i = j

ListGens ==
    /\ \A a \in todo : a.gen <= gens
    /\ \A a, b \in todo : a.gen = b.gen => a = b
    /\ \A a \in todo, i \in Ids :
          rows[i] # NoRow /\ rows[i].gen = a.gen => i = a.id

CurGens ==
    cur # NoItem =>
        /\ cur.gen <= gens
        /\ \A a \in todo : a.gen # cur.gen
        /\ \A i \in Ids : rows[i] # NoRow /\ rows[i].gen = cur.gen => i = cur.id

(* A generation not handed out yet was never sent.                          *)
Fresh == \A g \in Gens : g > gens => copies[g] = 0

(* Whatever may still be sent has gone out at most as often as its mark was *)
(* lost; the one message sent and not yet marked is the exception.          *)
Unmarked(g) == pc = "mark" /\ cur.gen = g

ListedCopies  == \A a \in todo : copies[a.gen] <= lapses[a.gen]
WaitingCopies ==
    \A i \in Ids : Waiting(i) /\ ~Unmarked(rows[i].gen)
        => copies[rows[i].gen] <= lapses[rows[i].gen]

GenInv == RowGens /\ ListGens /\ CurGens /\ Fresh
CopyInv == ListedCopies /\ WaitingCopies /\ OncePerLostMark
IInv == TypeOK /\ GenInv /\ CopyInv

-----------------------------------------------------------------------------
(* The fields of rows and list entries.                                     *)
LEMMA RowFields ==
    ASSUME NEW r \in Row
    PROVE  /\ r.words \in Words /\ r.sendAt \in Times /\ r.gen \in Gens
           /\ r.sent \in BOOLEAN /\ r.failed \in BOOLEAN
  BY DEF Row

LEMMA RowUpdates ==
    ASSUME NEW r \in Row, NEW w \in Words, NEW t \in Times, NEW g \in Gens
    PROVE  /\ Inserted(w, t, g) \in Row
           /\ Rescheduled(r, w, t) \in Row
           /\ Failed(r) \in Row
           /\ Marked(r) \in Row
  BY DEF Row, Inserted, Rescheduled, Failed, Marked

LEMMA ItemFields ==
    ASSUME NEW a \in Item
    PROVE  a.id \in Ids /\ a.words \in Words /\ a.sendAt \in Times /\ a.gen \in Gens
  BY DEF Item

LEMMA ItemOfRow ==
    ASSUME NEW i \in Ids, rows[i] \in Row
    PROVE  ItemOf(i) \in Item
  BY RowFields DEF ItemOf, Item

(* What an update of a row leaves alone.                                    *)
LEMMA UpdatedGens ==
    ASSUME NEW r, NEW w, NEW t
    PROVE  /\ Rescheduled(r, w, t).gen = r.gen /\ Rescheduled(r, w, t).sent = r.sent
           /\ Marked(r).gen = r.gen /\ Marked(r).sent
  BY DEF Rescheduled, Marked

LEMMA FailedGens ==
    ASSUME NEW r \in Row
    PROVE  Failed(r).gen = r.gen /\ Failed(r).sent = r.sent
  BY DEF Failed, Row

(* Every step keeps the types.                                              *)
LEMMA TypeStep == TypeOK /\ [Next]_vars => TypeOK'
<1> SUFFICES ASSUME TypeOK, [Next]_vars PROVE TypeOK'
  OBVIOUS
<1> USE ConstantsAssumption DEF TypeOK, Times, Gens, queue, sweep, sent
<1>1. ASSUME NEW i \in Ids, NEW w \in Words, NEW t \in Times, Schedule(i, w, t)
      PROVE  TypeOK'
  <2>1. CASE rows[i] = NoRow
    <3>1. gens' = gens + 1 /\ gens + 1 \in Gens
      BY <1>1, <2>1 DEF Schedule
    <3>2. rows' \in [Ids -> Row \cup {NoRow}]
      <4>1. Inserted(w, t, gens + 1) \in Row
        BY <3>1 DEF Inserted, Row
      <4>2. QED
        BY <1>1, <2>1, <4>1 DEF Schedule
    <3>3. rows'[i].gen \in Gens
      BY <1>1, <2>1, <3>1 DEF Schedule, Inserted
    <3>4. overtaken' \subseteq Gens
      BY <1>1, <3>3 DEF Schedule
    <3>5. UNCHANGED <<now, up, pc, todo, cur, shown, copies, gone, lapses, withdrawn, faults>>
          /\ gens' \in 0..MaxGen
      BY <1>1, <3>1 DEF Schedule
    <3>6. QED
      BY <3>2, <3>4, <3>5
  <2>2. CASE rows[i] # NoRow
    <3>1. rows[i] \in Row
      BY <2>2
    <3>2. rows' \in [Ids -> Row \cup {NoRow}] /\ gens' = gens
      <4>1. rows[i].gen \in Gens
        BY <3>1, RowFields
      <4>2. Rescheduled(rows[i], w, t) \in Row
        BY <3>1, <4>1, RowUpdates
      <4>3. QED
        BY <1>1, <2>2, <4>2 DEF Schedule
    <3>3. rows'[i].gen \in Gens
      BY <1>1, <2>2, <3>1, RowFields, UpdatedGens DEF Schedule
    <3>4. overtaken' \subseteq Gens
      BY <1>1, <3>3 DEF Schedule
    <3>5. UNCHANGED <<now, up, pc, todo, cur, shown, copies, gone, lapses, withdrawn, faults>>
      BY <1>1 DEF Schedule
    <3>6. QED
      BY <3>2, <3>4, <3>5
  <2>3. QED
    BY <2>1, <2>2
<1>2. ASSUME NEW i \in Ids, Cancel(i) PROVE TypeOK'
  <2>1. rows[i] \in Row
    BY <1>2 DEF Cancel, Waiting
  <2>2. QED
    BY <1>2, <2>1, RowFields DEF Cancel
<1>3. CASE BeginSweep
  <2>1. DueItems \subseteq Item
    BY ItemOfRow DEF DueItems, Due, Waiting
  <2>2. QED
    BY <1>3, <2>1 DEF BeginSweep
<1>4. CASE SendText
  <2>1. PICK item \in todo : Take(item) /\ copies' = [copies EXCEPT ![item.gen] = @ + 1]
                             /\ gone' = gone \cup {<<item.id, item.gen, item.words>>}
    BY <1>4 DEF SendText
  <2>2. item \in Item /\ cur' = item /\ todo' \subseteq Item
    BY <2>1 DEF Take
  <2>3. copies' \in [Gens -> Nat] /\ gone' \subseteq Ids \X Gens \X Words
    BY <2>1, <2>2, ItemFields
  <2>4. QED
    BY <1>4, <2>2, <2>3 DEF SendText
<1>5. CASE SendTextFails
  <2>1. PICK item \in todo : Take(item)
    BY <1>5 DEF SendTextFails
  <2>2. cur' \in Item /\ todo' \subseteq Item
    BY <2>1 DEF Take
  <2>3. faults' \in 0..MaxFaults
    BY <1>5 DEF SendTextFails, Fault
  <2>4. QED
    BY <1>5, <2>2, <2>3 DEF SendTextFails
<1>6. CASE MarkScheduledFailed
  <2>1. cur \in Item
    BY <1>6 DEF MarkScheduledFailed
  <2>2. rows' \in [Ids -> Row \cup {NoRow}]
    <3>1. Waiting(cur.id) => Failed(rows[cur.id]) \in Row
      BY <2>1, ItemFields, RowFields DEF Waiting, Failed, Row
    <3>2. QED
      BY <1>6, <2>1, <3>1, ItemFields DEF MarkScheduledFailed, Fault
  <2>3. QED
    BY <1>6, <2>2 DEF MarkScheduledFailed, NextItem, Fault
<1>7. CASE MarkScheduledSent
  <2>1. cur \in Item
    BY <1>7 DEF MarkScheduledSent
  <2>2. rows' \in [Ids -> Row \cup {NoRow}]
    <3>1. Waiting(cur.id) => Marked(rows[cur.id]) \in Row
      BY <2>1, ItemFields, RowFields DEF Waiting, Marked, Row
    <3>2. QED
      BY <1>7, <2>1, <3>1, ItemFields DEF MarkScheduledSent
  <2>3. QED
    BY <1>7, <2>2 DEF MarkScheduledSent
<1>8. CASE MarkScheduledSentFails
  <2>1. cur \in Item
    BY <1>8 DEF MarkScheduledSentFails
  <2>2. lapses' \in [Gens -> Nat]
    BY <1>8, <2>1, ItemFields DEF MarkScheduledSentFails
  <2>3. UNCHANGED <<rows, gens, withdrawn, overtaken, now, up, todo, cur, copies, gone, shown>>
        /\ pc' = "save" /\ pc = "mark" /\ faults' \in 0..MaxFaults
    BY <1>8 DEF MarkScheduledSentFails, Fault
  <2>4. QED
    BY <2>2, <2>3
<1>9. CASE SaveMessage
  <2>1. cur \in Item
    BY <1>9 DEF SaveMessage
  <2>2. shown' \subseteq Ids \X Words
    <3>1. <<cur.id, cur.words>> \in Ids \X Words
      BY <2>1, ItemFields
    <3>2. shown' = shown \cup {<<cur.id, cur.words>>} \/ shown' = shown
      BY <1>9 DEF SaveMessage
    <3>3. QED
      BY <3>1, <3>2
  <2>3. QED
    BY <1>9, <2>2 DEF SaveMessage, NextItem, Fault
<1>10. CASE Crash
  <2>1. lapses' \in [Gens -> Nat]
    BY <1>10, ItemFields DEF Crash
  <2>2. faults' \in 0..MaxFaults
    BY <1>10 DEF Crash, Fault
  <2>3. QED
    BY <1>10, <2>1, <2>2 DEF Crash
<1>11. CASE Restart
  BY <1>11 DEF Restart
<1>12. CASE SendTextUnanswered
  <2>1. PICK item \in todo :
           /\ Take(item) /\ copies' = [copies EXCEPT ![item.gen] = @ + 1]
           /\ gone' = gone \cup {<<item.id, item.gen, item.words>>}
           /\ lapses' = [lapses EXCEPT ![item.gen] = @ + 1]
    BY <1>12 DEF SendTextUnanswered
  <2>2. item \in Item /\ cur' = item /\ todo' \subseteq Item
    BY <2>1 DEF Take
  <2>3. copies' \in [Gens -> Nat] /\ lapses' \in [Gens -> Nat] /\ gone' \subseteq Ids \X Gens \X Words
    <3>1. item.id \in Ids /\ item.words \in Words /\ item.gen \in Gens
      BY <2>2, ItemFields
    <3>2. copies' \in [Gens -> Nat]
      BY <2>1, <3>1
    <3>3. lapses' \in [Gens -> Nat]
      BY <2>1, <3>1
    <3>4. gone' \subseteq Ids \X Gens \X Words
      BY <2>1, <3>1
    <3>5. QED
      BY <3>2, <3>3, <3>4
  <2>4. faults' \in 0..MaxFaults
    BY <1>12 DEF SendTextUnanswered, Fault
  <2>5. QED
    BY <1>12, <2>2, <2>3, <2>4 DEF SendTextUnanswered
<1>13. CASE Tick
  BY <1>13 DEF Tick
<1>14. CASE UNCHANGED vars
  BY <1>14 DEF vars
<1>15. QED
  BY <1>1, <1>2, <1>3, <1>4, <1>5, <1>6, <1>7, <1>8, <1>9, <1>10, <1>11, <1>12,
     <1>13, <1>14 DEF Next, RunScheduler

(* The scheduler's variables keep the kinds of values TypeOK gives them, in *)
(* the daemon that runs, crashes and starts again.                          *)
THEOREM TypeCorrect == Spec => []TypeOK
<1>1. Init => TypeOK
  BY ConstantsAssumption DEF Init, TypeOK, Times, Gens
<1>2. QED
  BY <1>1, TypeStep, PTL DEF Spec
-----------------------------------------------------------------------------
(* All but an insertion leave every row its generation, or remove it.       *)
SameGens == \A i \in Ids : rows'[i] # NoRow =>
                              rows[i] # NoRow /\ rows'[i].gen = rows[i].gen

(* With the rows' generations kept, what is listed can only shrink to what  *)
(* was listed or being sent.                                                *)
LEMMA GensKept ==
    ASSUME TypeOK, GenInv, SameGens, gens' = gens,
           todo' \subseteq todo,
           \/ cur' = NoItem
           \/ cur' = cur /\ todo' = todo
           \/ cur' \in todo /\ cur' \notin todo'
    PROVE  (RowGens /\ ListGens /\ CurGens)'
<1> USE DEF GenInv
<1>1. RowGens'
  BY DEF RowGens, SameGens
<1>2. ListGens'
  BY DEF ListGens, SameGens, TypeOK
<1>3. CurGens'
  BY DEF CurGens, ListGens, SameGens, TypeOK
<1>4. QED
  BY <1>1, <1>2, <1>3

LEMMA GenStep == TypeOK /\ GenInv /\ [Next]_vars => GenInv'
<1> SUFFICES ASSUME TypeOK, GenInv, [Next]_vars PROVE GenInv'
  OBVIOUS
<1>0. TypeOK'
  BY TypeStep
<1> USE DEF queue, sweep, sent
<1>1. ASSUME NEW i \in Ids, NEW w \in Words, NEW t \in Times, Schedule(i, w, t)
      PROVE  GenInv'
  <2>1. CASE rows[i] = NoRow
    <3>1. /\ gens' = gens + 1 /\ gens + 1 \in Gens /\ gens \in Nat
          /\ rows' = [rows EXCEPT ![i] = Inserted(w, t, gens + 1)]
          /\ Inserted(w, t, gens + 1).gen = gens + 1
      BY <1>1, <2>1, ConstantsAssumption DEF Schedule, Inserted, TypeOK, Gens
    <3>2. \A j \in Ids : j # i => rows'[j] = rows[j]
      BY <3>1 DEF TypeOK
    <3>3. rows'[i].gen = gens + 1
      BY <3>1 DEF TypeOK
    <3>4. /\ \A j \in Ids : rows[j] # NoRow => rows[j].gen \in Nat
          /\ \A a \in todo : a.gen \in Nat
          /\ cur # NoItem => cur.gen \in Nat
      BY RowFields, ItemFields DEF TypeOK, Gens
    <3>5. RowGens'
      BY <3>1, <3>2, <3>3, <3>4 DEF GenInv, RowGens
    <3>6. ListGens' /\ CurGens'
      BY <1>1, <3>1, <3>2, <3>3, <3>4 DEF GenInv, ListGens, CurGens, Schedule
    <3>7. Fresh'
      BY <1>1, <3>1 DEF GenInv, Fresh, Schedule, Gens
    <3>8. QED
      BY <3>5, <3>6, <3>7 DEF GenInv
  <2>2. CASE rows[i] # NoRow
    <3>1. SameGens
      BY <1>1, <2>2, UpdatedGens DEF Schedule, SameGens, TypeOK
    <3>2. QED
      BY <1>1, <2>2, <3>1, GensKept DEF Schedule, GenInv, Fresh
  <2>3. QED
    BY <2>1, <2>2
<1>2. ASSUME NEW i \in Ids, Cancel(i) PROVE GenInv'
  <2>1. SameGens
    BY <1>2 DEF Cancel, SameGens, TypeOK
  <2>2. QED
    BY <1>2, <2>1, GensKept DEF Cancel, GenInv, Fresh
<1>3. CASE BeginSweep
  <2>1. \A a \in todo' : rows[a.id] # NoRow /\ a.id \in Ids /\ a.gen = rows[a.id].gen
                         /\ a = ItemOf(a.id)
    BY <1>3 DEF BeginSweep, DueItems, Due, Waiting, ItemOf
  <2>2. ListGens'
    BY <1>3, <2>1 DEF BeginSweep, ListGens, GenInv, RowGens
  <2>3. cur = NoItem
    BY <1>3 DEF BeginSweep, TypeOK
  <2>4. QED
    BY <1>3, <2>2, <2>3 DEF BeginSweep, GenInv, RowGens, CurGens, Fresh
<1>4. CASE SendText
  <2>1. PICK item \in todo : Take(item) /\ copies' = [copies EXCEPT ![item.gen] = @ + 1]
    BY <1>4 DEF SendText
  <2>2. (RowGens /\ ListGens /\ CurGens)'
    BY <1>4, <2>1, GensKept DEF SendText, Take, SameGens
  <2>3. Fresh'
    <3>1. item.gen <= gens /\ item.gen \in Gens /\ gens \in Nat
      BY <2>1, ItemFields, ConstantsAssumption DEF GenInv, ListGens, TypeOK
    <3>2. QED
      BY <1>4, <2>1, <3>1 DEF SendText, GenInv, Fresh, TypeOK, Gens
  <2>4. QED
    BY <2>2, <2>3 DEF GenInv
<1>5. CASE SendTextFails
  <2>1. PICK item \in todo : Take(item)
    BY <1>5 DEF SendTextFails
  <2>2. QED
    BY <1>5, <2>1, GensKept DEF SendTextFails, Take, SameGens, GenInv, Fresh
<1>6. CASE MarkScheduledFailed
  <2>1. cur.id \in Ids
    BY <1>6, ItemFields DEF MarkScheduledFailed, TypeOK
  <2>2. SameGens
    BY <1>6, <2>1, FailedGens DEF MarkScheduledFailed, SameGens, TypeOK, Waiting
  <2>3. QED
    BY <1>6, <2>2, GensKept DEF MarkScheduledFailed, NextItem, GenInv, Fresh
<1>7. CASE MarkScheduledSent
  <2>1. cur.id \in Ids
    BY <1>7, ItemFields DEF MarkScheduledSent, TypeOK
  <2>2. SameGens
    BY <1>7, <2>1, UpdatedGens DEF MarkScheduledSent, SameGens, TypeOK, Waiting
  <2>3. QED
    BY <1>7, <2>2, GensKept DEF MarkScheduledSent, GenInv, Fresh
<1>8. CASE MarkScheduledSentFails
  BY <1>8, GensKept DEF MarkScheduledSentFails, SameGens, GenInv, Fresh
<1>9. CASE SaveMessage
  BY <1>9, GensKept DEF SaveMessage, NextItem, SameGens, GenInv, Fresh
<1>10. CASE Crash
  BY <1>10, GensKept DEF Crash, SameGens, GenInv, Fresh
<1>11. CASE Restart
  BY <1>11, GensKept DEF Restart, SameGens, GenInv, Fresh
<1>12. CASE SendTextUnanswered
  <2>1. PICK item \in todo : Take(item) /\ copies' = [copies EXCEPT ![item.gen] = @ + 1]
    BY <1>12 DEF SendTextUnanswered
  <2>2. (RowGens /\ ListGens /\ CurGens)'
    BY <1>12, <2>1, GensKept DEF SendTextUnanswered, Take, SameGens
  <2>3. Fresh'
    <3>1. item.gen <= gens /\ item.gen \in Gens /\ gens \in Nat
      BY <2>1, ItemFields, ConstantsAssumption DEF GenInv, ListGens, TypeOK
    <3>2. QED
      BY <1>12, <2>1, <3>1 DEF SendTextUnanswered, GenInv, Fresh, TypeOK, Gens
  <2>4. QED
    BY <2>2, <2>3 DEF GenInv
<1>13. CASE Tick
  BY <1>13, GensKept DEF Tick, SameGens, GenInv, Fresh
<1>14. CASE UNCHANGED vars
  BY <1>14, GensKept DEF vars, SameGens, GenInv, Fresh
<1>15. QED
  BY <1>1, <1>2, <1>3, <1>4, <1>5, <1>6, <1>7, <1>8, <1>9, <1>10, <1>11, <1>12,
     <1>13, <1>14 DEF Next, RunScheduler
-----------------------------------------------------------------------------
(* A row that is waiting after a step other than an insertion was waiting   *)
(* before it, under the same generation.                                    *)
SameWaiting == \A i \in Ids : Waiting(i)' => Waiting(i) /\ rows'[i].gen = rows[i].gen

(* Steps that send nothing and forget nothing.                              *)
LEMMA CopiesKept ==
    ASSUME TypeOK, CopyInv, SameWaiting, todo' \subseteq todo,
           UNCHANGED <<copies, lapses>>,
           pc = "mark" => pc' = "mark" /\ cur' = cur
    PROVE  CopyInv'
<1>1. WaitingCopies'
  BY DEF CopyInv, WaitingCopies, SameWaiting, Unmarked
<1>2. ListedCopies' /\ OncePerLostMark'
  BY DEF CopyInv, ListedCopies, OncePerLostMark
<1>3. QED
  BY <1>1, <1>2 DEF CopyInv

(* A step that forgets the mark of what was just sent.                      *)
LEMMA MarkLost ==
    ASSUME TypeOK, GenInv, CopyInv, pc = "mark", pc' # "mark",
           UNCHANGED <<rows, copies>>, todo' \subseteq todo,
           lapses' = [lapses EXCEPT ![cur.gen] = @ + 1]
    PROVE  CopyInv'
<1>1. cur \in Item /\ cur.gen \in Gens
  BY ItemFields DEF TypeOK
<1>2. lapses'[cur.gen] = lapses[cur.gen] + 1
      /\ \A g \in Gens : lapses'[g] >= lapses[g] /\ lapses[g] \in Nat /\ copies[g] \in Nat
      /\ lapses[cur.gen] \in Nat
  BY <1>1 DEF TypeOK
<1>3. \A i \in Ids : Waiting(i) => rows[i].gen \in Gens
  BY RowFields DEF TypeOK, Waiting
<1>4. \A a \in todo : a.gen \in Gens
  BY ItemFields DEF TypeOK
<1>5. OncePerLostMark'
  BY <1>2 DEF CopyInv, OncePerLostMark
<1>6. ListedCopies'
  BY <1>2, <1>4 DEF CopyInv, ListedCopies
<1>7. WaitingCopies'
  <2> SUFFICES ASSUME NEW i \in Ids, Waiting(i)' PROVE copies'[rows'[i].gen] <= lapses'[rows'[i].gen]
    BY DEF WaitingCopies
  <2>1. Waiting(i) /\ rows[i].gen \in Gens
    BY <1>3 DEF Waiting
  <2>2. CASE rows[i].gen = cur.gen
    BY <1>1, <1>2, <2>2 DEF CopyInv, OncePerLostMark
  <2>3. CASE rows[i].gen # cur.gen
    BY <1>2, <2>1, <2>3 DEF CopyInv, WaitingCopies, Unmarked
  <2>4. QED
    BY <2>2, <2>3
<1>8. QED
  BY <1>5, <1>6, <1>7 DEF CopyInv

LEMMA CopyStep == TypeOK /\ GenInv /\ CopyInv /\ [Next]_vars => CopyInv'
<1> SUFFICES ASSUME TypeOK, GenInv, CopyInv, [Next]_vars PROVE CopyInv'
  OBVIOUS
<1> USE DEF queue, sweep, sent
<1>1. ASSUME NEW i \in Ids, NEW w \in Words, NEW t \in Times, Schedule(i, w, t)
      PROVE  CopyInv'
  <2>1. CASE rows[i] = NoRow
    <3>1. /\ gens' = gens + 1 /\ gens + 1 \in Gens /\ gens \in Nat
          /\ rows' = [rows EXCEPT ![i] = Inserted(w, t, gens + 1)]
          /\ Inserted(w, t, gens + 1).gen = gens + 1
          /\ UNCHANGED <<pc, cur, todo, copies, lapses>>
      BY <1>1, <2>1, ConstantsAssumption DEF Schedule, Inserted, TypeOK, Gens
    <3>2. \A j \in Ids : j # i => rows'[j] = rows[j]
      BY <3>1 DEF TypeOK
    <3>3. rows'[i].gen = gens + 1
      BY <3>1 DEF TypeOK
    <3>4. copies[gens + 1] = 0 /\ lapses[gens + 1] \in Nat
      BY <3>1 DEF GenInv, Fresh, TypeOK
    <3>5. WaitingCopies'
      BY <3>1, <3>2, <3>3, <3>4 DEF CopyInv, WaitingCopies, Waiting, Unmarked
    <3>6. ListedCopies' /\ OncePerLostMark'
      BY <3>1 DEF CopyInv, ListedCopies, OncePerLostMark
    <3>7. QED
      BY <3>5, <3>6 DEF CopyInv
  <2>2. CASE rows[i] # NoRow
    <3>1. SameWaiting
      BY <1>1, <2>2, UpdatedGens DEF Schedule, SameWaiting, Waiting, TypeOK
    <3>2. QED
      BY <1>1, <2>2, <3>1, CopiesKept DEF Schedule
  <2>3. QED
    BY <2>1, <2>2
<1>2. ASSUME NEW i \in Ids, Cancel(i) PROVE CopyInv'
  <2>1. SameWaiting
    BY <1>2 DEF Cancel, SameWaiting, Waiting, TypeOK
  <2>2. QED
    BY <1>2, <2>1, CopiesKept DEF Cancel
<1>3. CASE BeginSweep
  <2>1. \A a \in todo' : a.id \in Ids /\ Waiting(a.id) /\ a.gen = rows[a.id].gen
    BY <1>3 DEF BeginSweep, DueItems, Due, ItemOf
  <2>2. ListedCopies'
    BY <1>3, <2>1 DEF BeginSweep, CopyInv, ListedCopies, WaitingCopies, Unmarked
  <2>3. WaitingCopies'
    BY <1>3 DEF BeginSweep, CopyInv, WaitingCopies, Waiting, Unmarked
  <2>4. QED
    BY <1>3, <2>2, <2>3 DEF BeginSweep, CopyInv, OncePerLostMark
<1>4. CASE SendText
  <2>1. PICK item \in todo : Take(item) /\ copies' = [copies EXCEPT ![item.gen] = @ + 1]
    BY <1>4 DEF SendText
  <2>2. item.gen \in Gens
    BY <2>1, ItemFields DEF TypeOK
  <2>3. /\ copies'[item.gen] = copies[item.gen] + 1 /\ copies[item.gen] \in Nat
        /\ \A g \in Gens : g # item.gen => copies'[g] = copies[g]
    BY <2>1, <2>2 DEF TypeOK
  <2>4. UNCHANGED <<rows, lapses>> /\ todo' = todo \ {item} /\ cur' = item /\ pc' = "mark"
        /\ pc = "send"
    BY <1>4, <2>1 DEF SendText, Take
  <2>5. \A i \in Ids : Waiting(i) => rows[i].gen \in Gens
    BY RowFields DEF TypeOK, Waiting
  <2>6. \A a \in todo' : a.gen \in Gens /\ a.gen # item.gen /\ a \in todo
    BY <2>1, <2>4, ItemFields DEF TypeOK, GenInv, ListGens
  <2>7. ListedCopies'
    BY <2>3, <2>4, <2>6 DEF CopyInv, ListedCopies
  <2>8. WaitingCopies'
    BY <2>3, <2>4, <2>5 DEF CopyInv, WaitingCopies, Waiting, Unmarked
  <2>9. OncePerLostMark'
    <3>1. \A g \in Gens : lapses[g] \in Nat
      BY DEF TypeOK
    <3>2. QED
      BY <2>2, <2>3, <2>4, <3>1 DEF CopyInv, OncePerLostMark, ListedCopies
  <2>10. QED
    BY <2>7, <2>8, <2>9 DEF CopyInv
<1>5. CASE SendTextFails
  <2>1. PICK item \in todo : Take(item)
    BY <1>5 DEF SendTextFails
  <2>2. QED
    BY <1>5, <2>1, CopiesKept DEF SendTextFails, Take, SameWaiting, Waiting
<1>6. CASE MarkScheduledFailed
  <2>1. cur.id \in Ids
    BY <1>6, ItemFields DEF MarkScheduledFailed, TypeOK
  <2>2. SameWaiting
    BY <1>6, <2>1, FailedGens DEF MarkScheduledFailed, SameWaiting, TypeOK, Waiting
  <2>3. QED
    BY <1>6, <2>2, CopiesKept DEF MarkScheduledFailed, NextItem
<1>7. CASE MarkScheduledSent
  (* The one step after which a message sent once no longer counts as       *)
  (* unmarked: its row, and no other row of that generation, is now sent.   *)
  <2>1. cur.id \in Ids /\ cur # NoItem
    BY <1>7, ItemFields DEF MarkScheduledSent, TypeOK
  <2>2. UNCHANGED <<todo, cur, copies, lapses>>
    BY <1>7 DEF MarkScheduledSent
  <2>3. SameWaiting /\ ~Waiting(cur.id)'
    BY <1>7, <2>1, <2>2, UpdatedGens DEF MarkScheduledSent, SameWaiting, TypeOK, Waiting
  <2>4. \A i \in Ids : Waiting(i)' => rows[i].gen # cur.gen
    <3> SUFFICES ASSUME NEW i \in Ids, Waiting(i)', rows[i].gen = cur.gen PROVE FALSE
      OBVIOUS
    <3>1. rows[i] # NoRow
      BY <2>3 DEF SameWaiting, Waiting
    <3>2. i = cur.id
      BY <2>1, <3>1 DEF GenInv, CurGens
    <3>3. QED
      BY <2>2, <2>3, <3>2
  <2>5. WaitingCopies'
    BY <2>2, <2>3, <2>4 DEF CopyInv, WaitingCopies, SameWaiting, Unmarked
  <2>6. QED
    BY <2>2, <2>5 DEF CopyInv, ListedCopies, OncePerLostMark
<1>8. CASE MarkScheduledSentFails
  BY <1>8, MarkLost DEF MarkScheduledSentFails
<1>9. CASE SaveMessage
  BY <1>9, CopiesKept DEF SaveMessage, NextItem, SameWaiting, Waiting
<1>10. CASE Crash
  <2>1. CASE pc = "mark"
    BY <1>10, <2>1, MarkLost DEF Crash
  <2>2. CASE pc # "mark"
    BY <1>10, <2>2, CopiesKept DEF Crash, SameWaiting, Waiting
  <2>3. QED
    BY <2>1, <2>2
<1>11. CASE Restart
  BY <1>11, CopiesKept DEF Restart, SameWaiting, Waiting
<1>12. CASE SendTextUnanswered
  <2>1. PICK item \in todo :
           /\ Take(item) /\ copies' = [copies EXCEPT ![item.gen] = @ + 1]
           /\ lapses' = [lapses EXCEPT ![item.gen] = @ + 1]
    BY <1>12 DEF SendTextUnanswered
  <2>2. item.gen \in Gens
    BY <2>1, ItemFields DEF TypeOK
  <2>3. /\ copies'[item.gen] = copies[item.gen] + 1 /\ copies[item.gen] \in Nat
        /\ lapses'[item.gen] = lapses[item.gen] + 1 /\ lapses[item.gen] \in Nat
        /\ \A g \in Gens : g # item.gen => copies'[g] = copies[g] /\ lapses'[g] = lapses[g]
    BY <2>1, <2>2 DEF TypeOK
  <2>4. UNCHANGED rows /\ todo' = todo \ {item} /\ pc' = "failed" /\ pc = "send"
        /\ copies[item.gen] <= lapses[item.gen]
    BY <1>12, <2>1 DEF SendTextUnanswered, Take, CopyInv, ListedCopies
  <2>5. \A i \in Ids : Waiting(i) => rows[i].gen \in Gens
    BY RowFields DEF TypeOK, Waiting
  <2>6. \A a \in todo' : a.gen \in Gens /\ a.gen # item.gen /\ a \in todo
    BY <2>1, <2>4, ItemFields DEF TypeOK, GenInv, ListGens
  <2>7. ListedCopies'
    BY <2>3, <2>4, <2>6 DEF CopyInv, ListedCopies
  <2>8. WaitingCopies'
    BY <2>3, <2>4, <2>5 DEF CopyInv, WaitingCopies, Waiting, Unmarked
  <2>9. OncePerLostMark'
    <3>1. \A g \in Gens : lapses[g] \in Nat
      BY DEF TypeOK
    <3>2. QED
      BY <2>2, <2>3, <2>4, <3>1 DEF CopyInv, OncePerLostMark
  <2>10. QED
    BY <2>7, <2>8, <2>9 DEF CopyInv
<1>13. CASE Tick
  BY <1>13, CopiesKept DEF Tick, SameWaiting, Waiting
<1>14. CASE UNCHANGED vars
  BY <1>14, CopiesKept DEF vars, SameWaiting, Waiting
<1>15. QED
  BY <1>1, <1>2, <1>3, <1>4, <1>5, <1>6, <1>7, <1>8, <1>9, <1>10, <1>11, <1>12,
     <1>13, <1>14 DEF Next, RunScheduler

-----------------------------------------------------------------------------
(* The words of a row go out at most once more than the record of a send    *)
(* was lost, whatever handlers and crashes do between the sweep's steps.    *)
THEOREM SentOncePerLostMark == Spec => []OncePerLostMark
<1>1. Init => IInv
  BY ConstantsAssumption
     DEF Init, IInv, TypeOK, Times, Gens, GenInv, RowGens, ListGens, CurGens, Fresh,
         CopyInv, ListedCopies, WaitingCopies, OncePerLostMark, Waiting
<1>2. IInv /\ [Next]_vars => IInv'
  BY TypeStep, GenStep, CopyStep DEF IInv
<1>3. IInv => OncePerLostMark
  BY DEF IInv, CopyInv
<1>4. QED
  BY <1>1, <1>2, <1>3, PTL DEF Spec

-----------------------------------------------------------------------------
(* What the sweep holds: messages it listed, and the one being marked.      *)
Held == todo \cup (IF pc = "mark" THEN {cur} ELSE {})

(* Nothing else is needed than that a row nobody wrote while the sweep held *)
(* its id is still the row the sweep holds.                                 *)
HeldIsRow ==
    \A a \in Held : rows[a.id] # NoRow =>
        \/ rows[a.id].gen \in overtaken
        \/ rows[a.id].gen = a.gen /\ rows[a.id].words = a.words

(* What is in the middle of being recorded has gone.                        *)
RecordedHasGone ==
    pc \in {"mark", "save"} => <<cur.id, cur.gen, cur.words>> \in gone

MarkedInv == MarkedMeansGone /\ HeldIsRow /\ RecordedHasGone

(* A row that says sent says it of what went out.                           *)
SaysTrue(i) ==
    IF rows[i].gen \in overtaken
    THEN \E g \in Gens, w \in Words : <<i, g, w>> \in gone
    ELSE <<i, rows[i].gen, rows[i].words>> \in gone

ShownHasGone == \A s \in shown : \E g \in Gens : <<s[1], g, s[2]>> \in gone

LEMMA MarkedParts ==
    MarkedMeansGone <=>
        /\ \A i \in Ids : rows[i] # NoRow /\ rows[i].sent => SaysTrue(i)
        /\ ShownHasGone
  BY DEF MarkedMeansGone, SaysTrue, ShownHasGone

(* Steps that leave every row its words and its mark, or remove it, and     *)
(* hold no more than was held.                                              *)
SameWords == \A i \in Ids : rows'[i] # NoRow =>
    /\ rows[i] # NoRow
    /\ rows'[i].gen = rows[i].gen /\ rows'[i].words = rows[i].words
    /\ rows'[i].sent => rows[i].sent

LEMMA MarkedKept ==
    ASSUME TypeOK, MarkedInv, SameWords, overtaken' = overtaken, gone \subseteq gone',
           Held' \subseteq Held, shown' = shown, RecordedHasGone'
    PROVE  MarkedInv'
<1>1. \A i \in Ids : SaysTrue(i) /\ rows'[i] # NoRow => SaysTrue(i)'
  BY DEF SaysTrue, SameWords
<1>2. ShownHasGone'
  BY MarkedParts DEF MarkedInv, ShownHasGone
<1>3. MarkedMeansGone'
  <2>1. \A i \in Ids : rows'[i] # NoRow /\ rows'[i].sent => SaysTrue(i)'
    BY <1>1, MarkedParts DEF MarkedInv, SameWords
  <2>2. QED
    BY <1>2, <2>1 DEF MarkedMeansGone, SaysTrue, ShownHasGone
<1>4. HeldIsRow'
  <2> SUFFICES ASSUME NEW a \in Held', rows'[a.id] # NoRow
               PROVE  \/ rows'[a.id].gen \in overtaken
                      \/ rows'[a.id].gen = a.gen /\ rows'[a.id].words = a.words
    BY DEF HeldIsRow
  <2>1. a \in Held
    OBVIOUS
  <2>2. a \in Item
    BY <2>1 DEF Held, TypeOK
  <2>3. a.id \in Ids
    BY <2>2, ItemFields
  <2>4. QED
    BY <2>1, <2>3 DEF MarkedInv, HeldIsRow, SameWords
<1>5. QED
  BY <1>3, <1>4 DEF MarkedInv

(* Writing a row: either the sweep does not hold its id, or the row is      *)
(* recorded as overtaken.                                                   *)
LEMMA MarkedSchedule ==
    ASSUME TypeOK, MarkedInv, NEW i \in Ids, NEW w \in Words, NEW t \in Times,
           Schedule(i, w, t)
    PROVE  MarkedInv'
<1> USE DEF sweep, sent
<1>1. /\ \A j \in Ids : j # i => rows'[j] = rows[j]
      /\ UNCHANGED <<pc, todo, cur, gone, shown>>
  BY DEF Schedule, TypeOK
<1>2. /\ OnItsWay(i) => overtaken' = overtaken \cup {rows'[i].gen}
      /\ ~OnItsWay(i) => overtaken' = overtaken
  BY DEF Schedule
<1>3. /\ rows[i] = NoRow => ~rows'[i].sent
      /\ rows[i] # NoRow => rows'[i].gen = rows[i].gen /\ (rows'[i].sent <=> rows[i].sent)
  <2>1. ~Inserted(w, t, gens + 1).sent
    BY DEF Inserted
  <2>2. CASE rows[i] = NoRow
    BY <2>1, <2>2 DEF Schedule, TypeOK
  <2>3. CASE rows[i] # NoRow
    BY <2>3, UpdatedGens DEF Schedule, TypeOK
  <2>4. QED
    BY <2>2, <2>3
<1>4. \A j \in Ids : SaysTrue(j) => \E g \in Gens, v \in Words : <<j, g, v>> \in gone
  <2> SUFFICES ASSUME NEW j \in Ids, SaysTrue(j), rows[j].gen \notin overtaken
               PROVE  \E g \in Gens, v \in Words : <<j, g, v>> \in gone
    BY DEF SaysTrue
  <2>1. <<j, rows[j].gen, rows[j].words>> \in gone
    BY DEF SaysTrue
  <2>2. rows[j].gen \in Gens /\ rows[j].words \in Words
    BY <2>1 DEF TypeOK
  <2>3. QED
    BY <2>1, <2>2
<1>5. MarkedMeansGone'
  <2> SUFFICES ASSUME NEW j \in Ids, rows'[j] # NoRow, rows'[j].sent
               PROVE  SaysTrue(j)'
    BY <1>1, MarkedParts DEF MarkedInv, MarkedMeansGone, SaysTrue, ShownHasGone
  <2>1. rows[j] # NoRow /\ rows[j].sent
    BY <1>1, <1>3
  <2>2. SaysTrue(j)
    BY <2>1, MarkedParts DEF MarkedInv
  <2>3. CASE j = i
    <3>1. rows'[j].gen \in overtaken'
      BY <1>2, <2>1, <2>3 DEF OnItsWay
    <3>2. QED
      BY <1>1, <1>4, <2>2, <3>1 DEF SaysTrue
  <2>4. CASE j # i
    <3>1. rows'[j] = rows[j]
      BY <1>1, <2>4
    <3>2. CASE rows[j].gen \in overtaken'
      BY <1>1, <1>4, <2>2, <3>1, <3>2 DEF SaysTrue
    <3>3. CASE rows[j].gen \notin overtaken'
      BY <1>1, <1>2, <2>2, <3>1, <3>3 DEF SaysTrue
    <3>4. QED
      BY <3>2, <3>3
  <2>5. QED
    BY <2>3, <2>4
<1>6. HeldIsRow'
  <2> SUFFICES ASSUME NEW a \in Held', rows'[a.id] # NoRow
               PROVE  \/ rows'[a.id].gen \in overtaken'
                      \/ rows'[a.id].gen = a.gen /\ rows'[a.id].words = a.words
    BY DEF HeldIsRow
  <2>1. a \in Held
    BY <1>1 DEF Held
  <2>2. a \in Item
    BY <2>1 DEF Held, TypeOK
  <2>3. a.id \in Ids
    BY <2>2, ItemFields
  <2>4. CASE a.id = i
    BY <1>2, <2>1, <2>4 DEF Held, OnItsWay
  <2>5. CASE a.id # i
    BY <1>1, <1>2, <2>1, <2>3, <2>5 DEF MarkedInv, HeldIsRow
  <2>6. QED
    BY <2>4, <2>5
<1>7. QED
  BY <1>1, <1>5, <1>6 DEF MarkedInv, RecordedHasGone

LEMMA MarkedStep == TypeOK /\ MarkedInv /\ [Next]_vars => MarkedInv'
<1> SUFFICES ASSUME TypeOK, MarkedInv, [Next]_vars PROVE MarkedInv'
  OBVIOUS
<1> USE DEF queue, sweep, sent
<1>a. ASSUME UNCHANGED rows PROVE SameWords
  BY <1>a DEF SameWords
<1>b. RecordedHasGone
  BY DEF MarkedInv
<1>2. ASSUME NEW i \in Ids, Cancel(i) PROVE MarkedInv'
  <2>1. SameWords
    BY <1>2 DEF Cancel, SameWords, TypeOK
  <2>2. QED
    BY <1>2, <1>b, <2>1, MarkedKept DEF Cancel, Held, RecordedHasGone
<1>3. CASE BeginSweep
  <2>1. \A a \in todo' : rows[a.id].gen = a.gen /\ rows[a.id].words = a.words
    BY <1>3 DEF BeginSweep, DueItems, ItemOf
  <2>2. HeldIsRow'
    BY <1>3, <2>1 DEF BeginSweep, HeldIsRow, Held
  <2>3. MarkedMeansGone'
    BY <1>3 DEF BeginSweep, MarkedInv, MarkedMeansGone
  <2>4. QED
    BY <1>3, <2>2, <2>3 DEF BeginSweep, MarkedInv, RecordedHasGone
<1>4. CASE SendText
  <2>1. PICK item \in todo : Take(item) /\ gone' = gone \cup {<<item.id, item.gen, item.words>>}
    BY <1>4 DEF SendText
  <2>2. Held' \subseteq Held /\ cur' = item /\ gone \subseteq gone'
    BY <1>4, <2>1 DEF SendText, Take, Held
  <2>3. RecordedHasGone'
    BY <2>1, <2>2 DEF RecordedHasGone
  <2>4. QED
    BY <1>4, <1>a, <2>2, <2>3, MarkedKept DEF SendText
<1>5. CASE SendTextFails
  BY <1>5, <1>a, MarkedKept DEF SendTextFails, Take, Held, RecordedHasGone
<1>6. CASE MarkScheduledFailed
  <2>1. cur.id \in Ids
    BY <1>6, ItemFields DEF MarkScheduledFailed, TypeOK
  <2>2. Waiting(cur.id) => /\ Failed(rows[cur.id]).gen = rows[cur.id].gen
                           /\ Failed(rows[cur.id]).words = rows[cur.id].words
                           /\ Failed(rows[cur.id]).sent = rows[cur.id].sent
    BY <2>1 DEF Waiting, Failed, TypeOK, Row
  <2>3. SameWords
    BY <1>6, <2>1, <2>2 DEF MarkScheduledFailed, SameWords, TypeOK, Waiting
  <2>4. QED
    BY <1>6, <2>3, MarkedKept DEF MarkScheduledFailed, NextItem, Held, RecordedHasGone
<1>7. CASE MarkScheduledSent
  <2>1. cur.id \in Ids /\ cur.words \in Words /\ cur.gen \in Gens
    BY <1>7, ItemFields DEF MarkScheduledSent, TypeOK
  <2>2. /\ \A j \in Ids : j # cur.id => rows'[j] = rows[j]
        /\ rows'[cur.id] # NoRow => /\ rows[cur.id] # NoRow
                                    /\ rows'[cur.id].gen = rows[cur.id].gen
                                    /\ rows'[cur.id].words = rows[cur.id].words
    <3>1. /\ Marked(rows[cur.id]).words = rows[cur.id].words
          /\ Marked(rows[cur.id]).gen = rows[cur.id].gen
      BY DEF Marked
    <3>2. QED
      BY <1>7, <2>1, <3>1 DEF MarkScheduledSent, TypeOK, Waiting
  <2>3. UNCHANGED <<todo, cur, gone, shown, overtaken>> /\ pc = "mark" /\ pc' = "save"
    BY <1>7 DEF MarkScheduledSent
  <2>4. cur \in Held /\ Held' \subseteq Held /\ <<cur.id, cur.gen, cur.words>> \in gone
    BY <1>b, <2>3 DEF Held, RecordedHasGone
  <2>5. \A j \in Ids : j = cur.id /\ rows'[j] # NoRow => SaysTrue(j)'
    BY <2>1, <2>2, <2>3, <2>4 DEF MarkedInv, HeldIsRow, SaysTrue
  <2>6. \A j \in Ids : j # cur.id /\ SaysTrue(j) => SaysTrue(j)'
    BY <2>2, <2>3 DEF SaysTrue
  <2>7. MarkedMeansGone'
    <3>1. ASSUME NEW j \in Ids, rows'[j] # NoRow, rows'[j].sent PROVE SaysTrue(j)'
      <4>1. CASE j = cur.id
        BY <2>5, <3>1, <4>1
      <4>2. CASE j # cur.id
        <5>1. rows[j] # NoRow /\ rows[j].sent
          BY <2>2, <3>1, <4>2
        <5>2. SaysTrue(j)
          BY <5>1, MarkedParts DEF MarkedInv
        <5>3. QED
          BY <2>6, <4>2, <5>2
      <4>3. QED
        BY <4>1, <4>2
    <3>2. QED
      BY <2>3, <3>1 DEF MarkedInv, MarkedMeansGone, SaysTrue
  <2>8. HeldIsRow'
    <3> SUFFICES ASSUME NEW a \in Held', rows'[a.id] # NoRow
                 PROVE  \/ rows'[a.id].gen \in overtaken
                        \/ rows'[a.id].gen = a.gen /\ rows'[a.id].words = a.words
      BY <2>3 DEF HeldIsRow
    <3>1. a \in Held /\ a \in Item
      BY <2>4 DEF Held, TypeOK
    <3>2. a.id \in Ids
      BY <3>1, ItemFields
    <3>3. rows[a.id] # NoRow /\ rows'[a.id].gen = rows[a.id].gen
          /\ rows'[a.id].words = rows[a.id].words
      BY <2>2, <3>2
    <3>4. QED
      BY <3>1, <3>3 DEF MarkedInv, HeldIsRow
  <2>9. QED
    BY <2>3, <2>4, <2>7, <2>8 DEF MarkedInv, RecordedHasGone
<1>8. CASE MarkScheduledSentFails
  BY <1>8, <1>a, <1>b, MarkedKept DEF MarkScheduledSentFails, Held, RecordedHasGone
<1>9. CASE SaveMessage
  <2>1. cur \in Item
    BY <1>9 DEF SaveMessage, TypeOK
  <2>2. /\ <<cur.id, cur.gen, cur.words>> \in gone /\ cur.gen \in Gens
        /\ UNCHANGED <<rows, gone, overtaken>> /\ Held' \subseteq Held
    BY <1>9, <1>b, <2>1, ItemFields DEF SaveMessage, NextItem, RecordedHasGone, Held
  <2>3. ShownHasGone'
    <3>1. \A s \in shown' : s \in shown \/ s = <<cur.id, cur.words>>
      BY <1>9 DEF SaveMessage
    <3>2. QED
      BY <2>2, <3>1, MarkedParts DEF MarkedInv, ShownHasGone
  <2>4. MarkedMeansGone'
    BY <2>2, <2>3 DEF MarkedInv, MarkedMeansGone, ShownHasGone
  <2>5. HeldIsRow'
    BY <2>2 DEF MarkedInv, HeldIsRow
  <2>6. RecordedHasGone'
    BY <1>9 DEF SaveMessage, NextItem, RecordedHasGone
  <2>7. QED
    BY <2>4, <2>5, <2>6 DEF MarkedInv
<1>10. CASE Crash
  BY <1>10, <1>a, MarkedKept DEF Crash, Held, RecordedHasGone
<1>11. CASE Restart
  BY <1>11, <1>a, <1>b, MarkedKept DEF Restart, Held, RecordedHasGone
<1>12. CASE SendTextUnanswered
  BY <1>12, <1>a, MarkedKept DEF SendTextUnanswered, Take, Held, RecordedHasGone
<1>13. CASE Tick
  BY <1>13, <1>a, <1>b, MarkedKept DEF Tick, Held, RecordedHasGone
<1>14. CASE UNCHANGED vars
  BY <1>14, <1>a, <1>b, MarkedKept DEF vars, Held, RecordedHasGone
<1>15. QED
  BY MarkedSchedule, <1>2, <1>3, <1>4, <1>5, <1>6, <1>7, <1>8, <1>9, <1>10, <1>11,
     <1>12, <1>13, <1>14 DEF Next, RunScheduler

(* The words of a row are marked as sent, and words are shown in a          *)
(* conversation, only when they went out, with any failure, crash or        *)
(* handler between the steps of a sweep; of a row written under an id on    *)
(* its way, only that something went out under the id.                      *)
THEOREM MarkedAfterGone == Spec => []MarkedMeansGone
<1>1. Init => TypeOK /\ MarkedInv
  BY ConstantsAssumption
     DEF Init, TypeOK, Times, Gens, MarkedInv, MarkedMeansGone, RecordedHasGone, HeldIsRow, Held
<1>2. TypeOK /\ MarkedInv /\ [Next]_vars => (TypeOK /\ MarkedInv)'
  BY TypeStep, MarkedStep
<1>3. MarkedInv => MarkedMeansGone
  BY DEF MarkedInv
<1>4. QED
  BY <1>1, <1>2, <1>3, PTL DEF Spec

LEMMA FinalStep ==
    TypeOK /\ [Next]_vars =>
        [\A i \in Ids : rows[i] # NoRow /\ rows[i].sent
           => rows'[i] # NoRow /\ rows'[i].sent /\ rows'[i].gen = rows[i].gen]_vars
<1> SUFFICES ASSUME TypeOK, [Next]_vars, NEW i \in Ids, rows[i] # NoRow, rows[i].sent
             PROVE  rows'[i] # NoRow /\ rows'[i].sent /\ rows'[i].gen = rows[i].gen
  OBVIOUS
<1> USE DEF queue, sweep, sent
<1>1. rows[i] \in Row /\ NoRow \notin Row
  BY ConstantsAssumption DEF TypeOK
<1>2. ASSUME NEW j \in Ids, NEW w \in Words, NEW t \in Times, Schedule(j, w, t)
      PROVE  rows'[i] # NoRow /\ rows'[i].sent /\ rows'[i].gen = rows[i].gen
  <2>1. Rescheduled(rows[i], w, t) \in Row
    BY <1>1, RowFields, RowUpdates
  <2>2. rows'[i] = rows[i] \/ rows'[i] = Rescheduled(rows[i], w, t)
    BY <1>2 DEF Schedule, TypeOK
  <2>3. QED
    BY <1>1, <2>1, <2>2, UpdatedGens
<1>3. ASSUME rows'[i] = rows[i]
      PROVE  rows'[i] # NoRow /\ rows'[i].sent /\ rows'[i].gen = rows[i].gen
  BY <1>3
<1>4. ASSUME NEW j \in Ids, Cancel(j) PROVE rows'[i] = rows[i]
  BY <1>4 DEF Cancel, Waiting, TypeOK
<1>5. CASE MarkScheduledFailed
  <2>1. rows'[i] = rows[i]
    BY <1>5 DEF MarkScheduledFailed, Waiting, TypeOK
  <2>2. QED
    BY <1>3, <2>1
<1>6. CASE MarkScheduledSent
  <2>1. rows'[i] = rows[i]
    BY <1>6 DEF MarkScheduledSent, Waiting, TypeOK
  <2>2. QED
    BY <1>3, <2>1
<1>7. ASSUME UNCHANGED rows PROVE rows'[i] = rows[i]
  BY <1>7
<1>8. BeginSweep \/ SendText \/ SendTextFails \/ SendTextUnanswered
      \/ MarkScheduledSentFails \/ SaveMessage \/ Crash \/ Restart \/ Tick
      \/ UNCHANGED vars => UNCHANGED rows
  BY DEF BeginSweep, SendText, SendTextFails, SendTextUnanswered,
         MarkScheduledSentFails, SaveMessage, Crash, Restart, Tick, vars
<1>9. QED
  BY <1>2, <1>3, <1>4, <1>5, <1>6, <1>7, <1>8 DEF Next, RunScheduler

(* A row marked as sent keeps its mark and its generation in every later    *)
(* step: it is never sent, cancelled or replaced again.                     *)
THEOREM SentStaysSent == Spec => SentIsFinal
<1>1. Init => TypeOK
  BY ConstantsAssumption DEF Init, TypeOK, Times, Gens
<1>2. QED
  BY <1>1, TypeStep, FinalStep, PTL DEF Spec, SentIsFinal

=============================================================================
