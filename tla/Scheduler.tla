----------------------------- MODULE Scheduler -----------------------------
(* The queue of messages written now and sent later: the table              *)
(* scheduled_messages (internal/store), the RPC methods message.schedule    *)
(* and message.unschedule, and the one goroutine that sweeps the table      *)
(* every scheduleSweep (internal/service/schedule.go).                      *)
(*                                                                          *)
(* A sweep lists what is due once and then walks that list, so everything   *)
(* an RPC handler does to the table meanwhile meets a list already read.    *)
(* Each database statement and each gateway call is a step of its own;      *)
(* the daemon may stop between any two of them and loses only the list.     *)
EXTENDS Integers, FiniteSets

CONSTANTS
    Ids,          \* the row keys callers choose; the tie-break of the sweep
    Words,        \* what a message says and to whom (chat_jid, text)
    Unreachable,  \* the words whose conversation the gateway never reaches
    MaxTime,      \* bound on the clock
    MaxGen,       \* bound on the rows ever inserted
    MaxFaults,    \* bound on crashes and on failing writes and sends
    NoRow,        \* no such row
    NoItem        \* the sweep holds no message

Times == 0..MaxTime
Gens  == 1..MaxGen

(* gen numbers the insertions of rows: an id may be used again once its row *)
(* is deleted, and the code tells the two rows apart by nothing.            *)
Row  == [words: Words, sendAt: Times, gen: Gens, sent: BOOLEAN, failed: BOOLEAN]
Item == [id: Ids, words: Words, sendAt: Times, gen: Gens]

ASSUME ConstantsAssumption ==
    /\ Ids \subseteq Int
    /\ Unreachable \subseteq Words
    /\ MaxTime \in Nat /\ MaxGen \in Nat /\ MaxFaults \in Nat
    /\ NoRow \notin Row
    /\ NoItem \notin Item

VARIABLES
    rows,    \* scheduled_messages: Ids -> Row or NoRow (survives a crash)
    now,     \* the clock
    up,      \* the daemon is running
    pc,      \* where the sweeping goroutine is
    todo,    \* what is left of the list of due messages (lost in a crash)
    cur,     \* the message being sent
    shown,   \* what UpsertMessage has put into the conversations
    gens,    \* history: rows inserted so far
    copies,  \* history: how many times the words of a row went out
    gone,    \* history: which words of which row went out under which id
    lapses,  \* history: how often the record of a send was lost
    withdrawn, \* history: the rows whose cancellation was acknowledged
    overtaken, \* history: the rows written under an id already on its way
    faults   \* history: failures so far

queue == <<rows, gens, withdrawn, overtaken>>
sweep == <<pc, todo, cur>>
sent  == <<copies, gone, lapses, shown>>
vars  == <<rows, now, up, pc, todo, cur, shown, gens, copies, gone, lapses,
           withdrawn, overtaken, faults>>

Init ==
    /\ rows = [i \in Ids |-> NoRow]
    /\ now = 0
    /\ up = TRUE
    /\ pc = "idle" /\ todo = {} /\ cur = NoItem
    /\ shown = {}
    /\ gens = 0
    /\ copies = [g \in Gens |-> 0]
    /\ gone = {}
    /\ lapses = [g \in Gens |-> 0]
    /\ withdrawn = {} /\ overtaken = {}
    /\ faults = 0

Waiting(i) == rows[i] # NoRow /\ ~rows[i].sent

Fault == faults < MaxFaults /\ faults' = faults + 1

(* What INSERT and each UPDATE of one row assign.                           *)
Inserted(w, t, g) == [words |-> w, sendAt |-> t, gen |-> g,
                      sent |-> FALSE, failed |-> FALSE]
Rescheduled(r, w, t) == [words |-> w, sendAt |-> t, gen |-> r.gen,
                         sent |-> r.sent, failed |-> r.failed]
Failed(r) == [r EXCEPT !.failed = TRUE]
Marked(r) == [words |-> r.words, sendAt |-> r.sendAt, gen |-> r.gen,
              sent |-> TRUE, failed |-> FALSE]

-----------------------------------------------------------------------------
(* The RPC handlers. They run on goroutines of their own, beside the sweep. *)

(* The id is in the sweep's hands, or its words are out already: what is    *)
(* written under it now comes too late for that send.                       *)
OnItsWay(i) ==
    \/ \E item \in todo : item.id = i
    \/ pc = "mark" /\ cur.id = i
    \/ rows[i] # NoRow /\ rows[i].sent

(* message.schedule: INSERT ... ON CONFLICT(id) DO UPDATE of the chat, the  *)
(* text and the time. The conflict leaves sent_at and error as they are,    *)
(* and no sweep under way hears of it.                                      *)
Schedule(i, w, t) ==
    /\ up
    /\ t > now
    /\ \/ /\ rows[i] = NoRow
          /\ gens < MaxGen
          /\ gens' = gens + 1
          /\ rows' = [rows EXCEPT ![i] = Inserted(w, t, gens + 1)]
       \/ /\ rows[i] # NoRow
          /\ rows' = [rows EXCEPT ![i] = Rescheduled(rows[i], w, t)]
          /\ UNCHANGED gens
    /\ overtaken' = IF OnItsWay(i) THEN overtaken \cup {rows'[i].gen} ELSE overtaken
    /\ UNCHANGED <<now, up, sweep, sent, withdrawn, faults>>

(* Mutant: the DELETE loses its sent_at=0 condition.                        *)
CancelAnyRow(i) ==
    /\ up
    /\ rows[i] # NoRow
    /\ rows' = [rows EXCEPT ![i] = NoRow]
    /\ withdrawn' = withdrawn \cup {rows[i].gen}
    /\ UNCHANGED <<now, up, sweep, sent, gens, overtaken, faults>>

(* message.unschedule: DELETE ... WHERE id=? AND sent_at=0. With no such    *)
(* row it answers with an error and changes nothing.                        *)
Cancel(i) ==
    /\ up
    /\ Waiting(i)
    /\ rows' = [rows EXCEPT ![i] = NoRow]
    /\ withdrawn' = withdrawn \cup {rows[i].gen}
    /\ UNCHANGED <<now, up, sweep, sent, gens, overtaken, faults>>

-----------------------------------------------------------------------------
(* SendDueScheduledMessages, on the scheduler's goroutine.                  *)

(* Mutant: the query forgets sent_at=0.                                     *)
DueThoughSent(i) == rows[i] # NoRow /\ rows[i].sendAt <= now

(* The WHERE clause of DueScheduledMessages: sent_at=0 AND send_at<=now.    *)
Due(i) == Waiting(i) /\ rows[i].sendAt <= now

ItemOf(i) == [id |-> i, words |-> rows[i].words, sendAt |-> rows[i].sendAt,
              gen |-> rows[i].gen]

DueItems == {ItemOf(i) : i \in {j \in Ids : Due(j)}}

(* ORDER BY send_at ASC, id ASC.                                            *)
NotAfter(a, b) == a.sendAt < b.sendAt \/ (a.sendAt = b.sendAt /\ a.id <= b.id)

BeginSweep ==
    /\ up /\ pc = "idle"
    /\ DueItems # {}
    /\ todo' = DueItems
    /\ pc' = "send"
    /\ UNCHANGED <<queue, now, up, cur, sent, faults>>

Take(item) ==
    /\ item \in todo
    /\ \A other \in todo : NotAfter(item, other)
    /\ todo' = todo \ {item}
    /\ cur' = item

(* gateway.SendText answers with the message that went out.                 *)
SendText ==
    /\ up /\ pc = "send"
    /\ \E item \in todo :
          /\ Take(item)
          /\ item.words \notin Unreachable
          /\ copies' = [copies EXCEPT ![item.gen] = @ + 1]
          /\ gone' = gone \cup {<<item.id, item.gen, item.words>>}
    /\ pc' = "mark"
    /\ UNCHANGED <<queue, now, up, shown, lapses, faults>>

(* Mutant: a failing send gives up the rest of the list (return, not        *)
(* continue).                                                               *)
SendTextFailsAbandonsSweep ==
    /\ up /\ pc = "send"
    /\ \E item \in todo :
          /\ \A other \in todo : NotAfter(item, other)
          /\ cur' = item /\ todo' = {}
          /\ IF item.words \in Unreachable THEN UNCHANGED faults ELSE Fault
    /\ pc' = "failed"
    /\ UNCHANGED <<queue, now, up, sent>>

(* Mutant: the error of a failing send is not looked at.                    *)
SendTextFailsUnnoticed ==
    /\ up /\ pc = "send"
    /\ \E item \in todo :
          /\ Take(item)
          /\ IF item.words \in Unreachable THEN UNCHANGED faults ELSE Fault
    /\ pc' = "mark"
    /\ UNCHANGED <<queue, now, up, sent>>

(* gateway.SendText fails: the conversation cannot be reached.              *)
SendTextFails ==
    /\ up /\ pc = "send"
    /\ \E item \in todo :
          /\ Take(item)
          /\ IF item.words \in Unreachable THEN UNCHANGED faults ELSE Fault
    /\ pc' = "failed"
    /\ UNCHANGED <<queue, now, up, sent>>

(* gateway.SendText fails though the words went: the server took them and   *)
(* the answer was lost. Nothing but the error is written down.              *)
SendTextUnanswered ==
    /\ up /\ pc = "send"
    /\ Fault
    /\ \E item \in todo :
          /\ Take(item)
          /\ item.words \notin Unreachable
          /\ copies' = [copies EXCEPT ![item.gen] = @ + 1]
          /\ gone' = gone \cup {<<item.id, item.gen, item.words>>}
          /\ lapses' = [lapses EXCEPT ![item.gen] = @ + 1]
    /\ pc' = "failed"
    /\ UNCHANGED <<queue, now, up, shown>>

(* Mutant: the message of the last round is kept.                           *)
NextItemKeepsCur ==
    /\ pc' = IF todo = {} THEN "idle" ELSE "send"
    /\ UNCHANGED <<todo, cur>>

(* The next message of the list, or the end of the sweep.                   *)
NextItem ==
    /\ pc' = IF todo = {} THEN "idle" ELSE "send"
    /\ cur' = NoItem
    /\ UNCHANGED todo

(* MarkScheduledFailed; its own error is discarded.                         *)
MarkScheduledFailed ==
    /\ up /\ pc = "failed"
    /\ \/ /\ rows' = IF Waiting(cur.id) THEN [rows EXCEPT ![cur.id] = Failed(rows[cur.id])]
                                        ELSE rows
          /\ UNCHANGED faults
       \/ Fault /\ UNCHANGED rows
    /\ NextItem
    /\ UNCHANGED <<gens, withdrawn, overtaken, now, up, sent>>

(* MarkScheduledSent: UPDATE ... SET sent_at=?,error='' WHERE id=? AND      *)
(* sent_at=0.                                                               *)
MarkScheduledSent ==
    /\ up /\ pc = "mark"
    /\ rows' = IF Waiting(cur.id)
               THEN [rows EXCEPT ![cur.id] = Marked(rows[cur.id])]
               ELSE rows
    /\ pc' = "save"
    /\ UNCHANGED <<gens, withdrawn, overtaken, now, up, todo, cur, sent, faults>>

(* MarkScheduledSent fails: the handler reports it and goes on.             *)
MarkScheduledSentFails ==
    /\ up /\ pc = "mark"
    /\ Fault
    /\ lapses' = [lapses EXCEPT ![cur.gen] = @ + 1]
    /\ pc' = "save"
    /\ UNCHANGED <<queue, now, up, todo, cur, copies, gone, shown>>

(* UpsertMessage of what went out; an error there is dropped as well.       *)
SaveMessage ==
    /\ up /\ pc = "save"
    /\ \/ shown' = shown \cup {<<cur.id, cur.words>>} /\ UNCHANGED faults
       \/ Fault /\ UNCHANGED shown
    /\ NextItem
    /\ UNCHANGED <<queue, now, up, copies, gone, lapses>>

-----------------------------------------------------------------------------
(* The daemon stops between two statements. The table stays, the list is    *)
(* lost, and a message that went out but was not marked is not remembered.  *)
Crash ==
    /\ up
    /\ Fault
    /\ up' = FALSE
    /\ pc' = "idle" /\ todo' = {} /\ cur' = NoItem
    /\ lapses' = IF pc = "mark" THEN [lapses EXCEPT ![cur.gen] = @ + 1]
                                ELSE lapses
    /\ UNCHANGED <<queue, now, copies, gone, shown>>

Restart == ~up /\ up' = TRUE /\ UNCHANGED <<queue, now, sweep, sent, faults>>

Tick ==
    /\ now < MaxTime
    /\ now' = now + 1
    /\ UNCHANGED <<queue, up, sweep, sent, faults>>

RunScheduler ==
    \/ BeginSweep \/ SendText \/ SendTextFails \/ SendTextUnanswered \/ MarkScheduledFailed
    \/ MarkScheduledSent \/ MarkScheduledSentFails \/ SaveMessage

Next ==
    \/ \E i \in Ids, w \in Words, t \in Times : Schedule(i, w, t)
    \/ \E i \in Ids : Cancel(i)
    \/ RunScheduler
    \/ Crash \/ Restart \/ Tick

Spec == Init /\ [][Next]_vars

(* One goroutine with a ticker runs the sweeps (WF of its steps), whoever   *)
(* runs the daemon starts it again, and time passes. Failures are finitely  *)
(* many, which MaxFaults says already.                                      *)
FairSpec == Spec /\ WF_vars(RunScheduler) /\ WF_vars(Restart) /\ WF_vars(Tick)

-----------------------------------------------------------------------------
(* Properties                                                               *)

(* Every variable holds the kind of value the code can put there, and the   *)
(* sweep holds a message exactly while it is in the middle of one.          *)
TypeOK ==
    /\ rows \in [Ids -> Row \cup {NoRow}]
    /\ now \in Times
    /\ up \in BOOLEAN
    /\ pc \in {"idle", "send", "failed", "mark", "save"}
    /\ todo \subseteq Item
    /\ cur \in Item \cup {NoItem}
    /\ shown \subseteq Ids \X Words
    /\ gens \in 0..MaxGen
    /\ copies \in [Gens -> Nat]
    /\ gone \subseteq Ids \X Gens \X Words
    /\ lapses \in [Gens -> Nat]
    /\ withdrawn \subseteq Gens /\ overtaken \subseteq Gens
    /\ faults \in 0..MaxFaults
    /\ (cur # NoItem) <=> (pc \in {"failed", "mark", "save"})

(* A row's words go out at most once more than its mark was lost: whatever  *)
(* handlers do to the queue during a sweep, and however often an id is      *)
(* cancelled and used again, only a lost answer, a failing                  *)
(* MarkScheduledSent or a crash before it can send the same row once more.  *)
OncePerLostMark == \A g \in Gens : copies[g] <= 1 + lapses[g]

(* The words of a row are marked as sent, and words are shown in the        *)
(* conversation, only when they went out, whatever fails or crashes between *)
(* the steps of a sweep and however an id is cancelled and used again. One  *)
(* row is excepted, and only that one: the row written under an id that a   *)
(* sweep has listed and not yet marked, or that was sent before. The mark   *)
(* goes by the id alone, so of that row only this holds: some words went    *)
(* out under its id. Its own may never go although it is marked as sent.    *)
MarkedMeansGone ==
    /\ \A i \in Ids : rows[i] # NoRow /\ rows[i].sent =>
          IF rows[i].gen \in overtaken
          THEN \E g \in Gens, w \in Words : <<i, g, w>> \in gone
          ELSE <<i, rows[i].gen, rows[i].words>> \in gone
    /\ \A s \in shown : \E g \in Gens : <<s[1], g, s[2]>> \in gone

(* A sent row is final: neither scheduling its id again, nor cancelling it, *)
(* nor a failing later send puts it back into the queue or removes it.      *)
SentIsFinal ==
    [][\A i \in Ids : rows[i] # NoRow /\ rows[i].sent
          => rows'[i] # NoRow /\ rows'[i].sent /\ rows'[i].gen = rows[i].gen]_vars

(* A conversation that cannot be reached holds up no other: words for a     *)
(* reachable one do not wait in the queue for ever.                         *)
ReachableWordsGo ==
    \A i \in Ids : []<>~(Waiting(i) /\ rows[i].words \notin Unreachable)

-----------------------------------------------------------------------------
(* What comments in the code say and the code does not do.                  *)

(* "removes one that has not gone yet" (CancelScheduledMessage): a message  *)
(* whose cancellation was acknowledged does not go out.                     *)
CancelledNeverGoes == \A g \in withdrawn : copies[g] = 0

=============================================================================
