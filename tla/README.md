# Verification of whatsappgo

whatsappgo is a WhatsApp client for the desktop: a daemon (`whatsappd`) that
speaks to WhatsApp through whatsmeow, keeps an index of chats and messages in
SQLite, and serves it over a Unix socket to a Qt application, a terminal
client, a command line and an MCP bridge. This directory models what the daemon
keeps and how it changes it: TLA+ modules, TLC configurations that check small
instances, and proofs that TLAPS checks for every instance.

## 1. Inventory

| Part (source) | State | Operations | What is hard about it |
|---|---|---|---|
| Scheduled messages (`internal/service/schedule.go`, table `scheduled_messages`) | rows with words, time, `sent_at`, `error` | `message.schedule`, `message.unschedule`, the sweep `SendDueScheduledMessages` | the list is read once, RPC handlers run beside the sweep, sends and records fail, the daemon stops between a send and its record |
| One message in the index (`internal/store/store.go`, `viewonce.go`, `polls.go`; tables `messages`, `message_revisions`, `media_payloads`) | row, earlier versions, address of the file | `UpsertMessage`, `EditMessage`, `MarkRevoked`, `UpdateReceipt`, `UpdateLinkPreviewForBody`, `SaveMediaPayload`, `RecordMessageRevision`, `ClearChatMessages` | copies arrive late, twice and out of order from live events, history pages, RPC answers and downloads; each writer is several transactions |
| Live events and history (`internal/whatsapp/events.go`) | what handlers hold between transactions | `handleMessage`, `handleReceipt`, `handleHistorySync` (own goroutine), `cacheMedia`, `downloadMedia` | read, then network, then write |
| Chat identity (`LinkChatAliases`, `canonicalChatJID`) | `chat_aliases` | linking a number to a LID, resolving an address before a call | the address is resolved outside the transaction that uses it |
| Chat list, unread counts, pins, mute, archive (`store.go`, `chatpins.go`) | columns of `chats` | `MarkChatReadThrough`, `ApplyHistoryReadState`, `RecalculateUnreadCounts`, chat pins with two clocks | counters recomputed beside handlers that increment them |
| Reactions, labels, pinned messages, poll votes | one row per sender or chat | upserts by time or by arrival order | removals leave no row, so an older add is taken as new |
| App state (`events.go` 237-420, `chatsettings.go`) | `metadata` marks | back-fill, recovery, conflicts, outgoing patches | retries across reconnects under a done mark |
| History collector (`history.go`, `RequestHistory`) | one request in flight, an exhausted mark | page request, answer, timeout, disconnect | a late answer, a timeout read as the end |
| Media downloads (`mediaretry.go`, `mediadownload.go`, `internal/mediastore`) | waiters by message, slots, `media.db` | request, retry, answer, give up | shared waiters, late answers |
| Event broker, RPC server (`internal/events`, `internal/rpc`) | subscriber buffers, connections | publish, subscribe, close, call | full buffers drop, closing while publishing |
| Connection and pairing (`client.go` 188-302, 1299-1313) | state, QR channel | pair, connect, log out | goroutines of an earlier attempt |
| Profile transfer (`internal/profile/transfer.go`) | files of a profile | export, import, retire, revive | file by file, a stop between two |
| Notifications (`internal/notify`) | live ids | post, withdraw, click | posting and making room under one lock |
| Service calls (`internal/service/service.go`, the gateway's files) | account, database, clients' screens | about a hundred methods that ask WhatsApp, store and announce | any step fails, answers are lost, calls run together |
| Group edits (`groupedit.go`, `grouppermissions.go`, `groupphoto.go`, `grouprequests.go`) | what an editor showed, the group, the list of chats | compare, set, announce | other admins, lost answers, retries |
| Updates (`internal/service/updates.go`, `internal/updates`) | the release on offer, the file, a transfer | check, download, supersede | late answers; the files of all releases share a name |
| Sockets and launcher (`internal/rpc/transport_unix.go`, `cmd/whatsappmcp/daemon.go`) | the path, its watcher, one launcher | bind, probe, unlink, start | whoever unlinks a path unlinks what it names by then |
| Terminal client (`cmd/whatsapptui`) | the open conversation | open, page, seek, announcements | answers are taken later than they were computed |
| Formats, configuration, desktop client | - | - | presentation, parsing and files; no state that other parts race with |

How they interact: whatsmeow calls `handleEvent` on one goroutine, in order; a
history sync runs on a goroutine of its own; RPC requests each have a goroutine
that calls the gateway (network) and then the store; the scheduler, downloads
and the card resolver have goroutines as well. They meet in the store. It has one
connection (`SetMaxOpenConns(1)`), so each of its methods is atomic and a sequence
of them is not. Everything the models show comes from that sentence.

What makes each part correct:

* *Scheduled messages.* The same row is not sent twice unless the record of a
  send was lost; words are recorded or shown as sent only if they went out (but for
  a row written under an id a sweep has listed: the mark goes by the id); a sent row
  is final; an unreachable conversation holds up no other.
* *One message.* A deletion, a protection (view-once) and a correction stand
  against every later copy; ticks do not go back; a link card describes the
  text above it; a protected message keeps no content; a clear leaves no orphan;
  a text that is replaced is kept among the versions.
* *Identity.* A link loses no deletion, correction, receipt or vote, the
  message under the canonical address goes on with its life, and nothing is
  stored where no reader looks.
* *Badge, settings, votes, reactions.* What is stored beside the messages ends as
  the account has it, whatever live events, snapshots and local calls do, lost answers
  and failing stores included; what was read stays read, and nothing unread is hidden
  that a time to the second can tell from what was read.
* *Calls.* Nothing WhatsApp refused is stored or shown; what is stored is
  announced, once; a success means that account, database and screens agree.
* *Group edits.* An edit replaces what its editor saw, and only somebody else's
  change is reported as one.
* *Gateway.* Sweeps end, a conversation is not finished on somebody else's
  request, a drifted collection is mended without pestering the phone, questions to
  the phone have one waiter and are completed once, what is stored of a file is
  true, alerts reach the reader, attempts to link do not block each other.
* *Daemon.* The launcher starts one daemon, a starting one takes the path of none that
  answered its probe, and one whose watcher sees the path go leaves;
  answers and events of a connection are in order and complete; an account is always
  somewhere and moves with its history; the newest release is offered with its own
  file; the terminal client shows the open conversation and nothing else.

## 2. Plan

Written in this order, the core of the system first:

1. `Scheduler`: the queue and its sweep. `SchedulerProofs`.
2. `MessageMerge` (what each statement does to a row), `MessageStore` (who runs
   them, and when), `MessageLife` (the abstract specification: what a reader of one
   message is promised). `MessageMergeProofs`, `MessageStoreProofs`.
3. `ChatIdentity`: the same rows under two addresses, implementing the same
   `MessageLife` for the canonical one. `ChatIdentityProofs`.
4. What is stored beside the messages: `ChatUnread`, `ChatSettings`,
   `MessageAddons`; every call that changes something, `ServiceHandlers` and
   `ServiceCalls`; and `GroupEdits`. Checked together by `MCChats`. `CallsProofs`,
   `ChatsProofs`.
5. What the gateway does in the background: `ConnectSweep`, `AppState`,
   `MediaFetch`, `Notifications`, `Pairing`. Checked together by `MCGateway`.
   `GatewayProofs`.
6. The daemon around it: `DaemonSocket`, `RPCConnection`, `ProfileTransfer`,
   `Updates`, and its terminal client, `TerminalChat`. Checked together by
   `MCDaemon`. `DaemonProofs`.

What is left, in the order in which it would be worth doing:

7. The connection status (`setStatus` publishes after its lock is released, and
   two `Connect` calls meet), the row of a pinned message, and the portal of
   sandboxed builds in `Notifications`.
8. The merge of pages and events in the desktop client (`messagemodel.cpp`).

## 3. Modules

### Scheduler

`rows` is the table `scheduled_messages`; `todo` and `cur` are the local
variables of one sweep and `pc` its place in the loop. `gen` numbers the
insertions of a row, since the code tells a row that was cancelled and used again
from the old one by nothing. Words and their conversation are one model value.
Each database statement and each gateway call is an action; a statement that can
fail has a failing form, `SendTextUnanswered` is a send that arrived while its
answer was lost, `Crash` loses everything but the table. `Schedule` and `Cancel` are
the RPC handlers. `copies`, `gone` (which words of which row went out under which id),
`lapses`, `withdrawn` and `overtaken` (rows written under an id the sweep holds or that
was sent) are history variables.

The order of the sweep is the query's (`send_at`, `id`). `ReachableWordsGo`
assumes that the goroutine goes on (it is a loop with a ticker), that a daemon
that stopped is started again, and that time passes; failures are finitely
many (`MaxFaults`). No fairness is assumed of RPC handlers.

### MessageMerge, MessageStore, MessageLife

A text is the number of the version that said it (1 the original), a link card
the number of the text it describes; names, sizes, mentions and thumbnails
follow the body or the file and are left out. `MessageMerge` has one operator
for each statement that writes a row: the conflict clauses of `UpsertMessage`, the
edit, the revocation, the receipt, the card, the redaction, and the merge of two
rows of one message.

`MessageStore` is one message and everything that writes it. `live` is the
server's queue for this device, `again` the events it will send again. A handler that
stores a copy takes four steps (read, record, upsert, remember the payload), each
one transaction, and holds `copy` in between; the history goroutine takes the same
steps beside the live handler. A download holds the row it read (`fetching`) until
the file has come and then upserts the whole of it. RPC methods call the gateway
(`SendHere`, `DeleteHere`) and the store afterwards (`StoreSent`,
`EditMessage`, `StoreDeletion`). Choices worth knowing:

* only another's message can be protected here, since the account's own
  view-once messages are not shown as anything else;
* a page of history may hold any version written so far, marked or not;
* a correction's envelope names no file, as in `downloadableFromMessage`;
* a revocation inside a history page is a row of its own
  (events.go:1605) and does not touch the message it names;
* the one-off migration `repairHistoricalUnreadReplay` is not modelled.

`MessageLife` is the abstract specification: phases (absent, original,
corrected, protected, deleted) that only go forward until the conversation is
cleared, what each can say, and a mark that only grows. An absent message may
appear in any phase: after a clear a late write may put a tombstone back.

### ChatIdentity

One person's number (`pn`) and id (`lid`), one message, one voter, one who reacts.
A store method asks `chat_aliases` first and then opens its transaction; so every
call is `Resolve` (the answer is kept in `call`) and then its transaction, and any
other goroutine may come in between. `ClearChatMessages` does not resolve
(store.go:2074), so it works at the address it is given; a clear through the
alias clears nothing. `LinkChatAliases` is one action: `MovedRow` is
`mergeAliasMessagesSQL`, `MovedVote` and `MovedReaction` the copies of votes and
reactions, the rest goes with `DELETE FROM chats`. The foreign keys and the
triggers on votes are part of the actions.

The votes and reactions carry only their times. Copies arrive here by
`UpsertMessage` alone; the record before it is `MessageStore`'s concern. Chains
of more than two addresses are not modelled, nor are pins, settings and titles of
the merged chats.

### ChatUnread

The badge of one conversation. `sent` and `readTo` are the truth (what was sent,
how far the account has read, on any device); `held`, `seen` and `unread` are the
rows, their statuses and `chats.unread_count`. Messages and receipts are handled
out of order (`handleMessage`, `handleReceipt` with its recount), a history sync is
four transactions on a goroutine of its own (`StoreChat`, `StoreHistoryMessage`,
`ApplyHistoryReadState` in two halves, `RecalculateUnreadCounts`), and a mark made
here goes to the account before it is stored. Times are WhatsApp's, to the second, and
messages may share one (`SentAt`); `snapped` remembers when the phone took its snapshots,
since one that is taken in the middle of a second (`Torn`) cannot say which messages of
that second it describes.

### ChatSettings

The pin of a conversation, the favourites and the chat lists: `log` is what the
account accepted, in order; `rows`, `favorites` and `labels` are the copy here. A
change made here is read, sent and stored in three steps, several calls side by side.
Sending may fail (`SendFails`), and the code cannot tell whether the account accepted
the change; storing may fail after it did (`StoreFails`). Every accepted change comes
back as an event, in the order of the account; a history sync carries a pin as a hint
that only seeds a row no action has reached; and linking two addresses merges their
pins. `outdone` remembers the changes a call here stored an older one over. A pin is
stamped by the account or, when it is stored by the call, by this device: the model has
one clock for both, so skew between them is left out.

### MessageAddons

The votes of one voter and the reactions of one reader on one message, each with its
sender's time. They come before the message, late, twice and by history. A vote that
does not decrypt, because its poll is not there or for good, is kept as it came;
`poll.info` reads, tries again (`SaveDecrypted`, `CannotDecrypt`) and saves in several
transactions while newer votes come and the poll is deleted. `came`, `readable`,
`takenBack` and `replayed` remember what came since the message was last cleared.

### ServiceHandlers, ServiceCalls

`ServiceHandlers` has every method of the service as a table: `Handlers` maps a
method to its programs, sequences of the steps check, look, ask, save, keep, tell,
show and hint, built from the programs of the gateway's operations. `ServiceCalls`
runs them: two calls of one method about one thing run at once; each step can fail;
WhatsApp may carry out what it never answers. The change a caller asks for is named after the caller. Two
clients follow: `screen` goes by the values in events, `reread` by the database.

### GroupEdits

One thing about a group or community (`field`), edited by several editors and by
other admins. An editor shows `previous`; an edit reads the group, compares, sets it
and announces; the answer may be lost. `Compared`, `Repeated`, `Versioned`,
`ReadAgain`, `AnyEnding` and `Listed` are what the nine kinds of edit differ in.

### ConnectSweep, AppState

`ConnectSweep` is the goroutine a connection starts: one at a time
(`beginConnectSweep`), which fetches the account's changes and then asks for older
pages of a conversation. Requests of the reader, late answers, silence, lost
connections and restarts come in between; `mark` is what stays in the database. A
conversation without a message, or a database that gives none, is marked without
asking (`NothingToAskFrom`); `looked` is from where the sweep itself last looked.

`AppState` is one collection of settings: `copy` says whether it verifies here and
`served` whether what WhatsApp serves does. The sweep and a change made here fetch,
refetch and ask the phone, at most once a day (`noted`), across restarts.

### MediaFetch

The file of one message. Downloads try the stored address, then the other one, then
share one question to the phone (`waiter`, completed by the answer, a timer, the
reader who leaves or the client that closes). A file that came is renamed into the
cache, then put in the database, then recorded in the row. The waiter of the code is a pointer; here
it is named for the download that made it.

### Notifications

`post` is the lock of an alert's goroutine, the tables (`live`, `chatNote`,
`actions`) have a lock of their own, so making room, posting and tracking are
separate steps. The session's server (`screen`, `others`, `signals`) is external: it
refuses when it is full, gives a closed number a second life, and its signals are late.

### Pairing

Attempts by `StartPairing` and `PairPhone`, the flag between them, the channel of the
library for each and the goroutine that reads it after the call was answered. The
channel and the phone are external.

### DaemonSocket

The path of the socket and every daemon of a profile: probe, remove, bind, chmod,
watch, serve, close. Closing a Go listener unlinks its path, whatever the path names by
then, and so do `removeStaleSocket` after its probe and the end of `Close`; `chmod` works
by path too, and the watcher takes for its own whatever the path names when it first
looks (`bound`). `before` remembers who listened when a starter probed. Calls of the
bridge share one launcher.

### RPCConnection

One connection: the reader and its slots, handlers, the write lock with its
deadline, the event pump behind the broker's bounded subscription, and a client that
either follows the events or asks under one lock with one decoder.

### ProfileTransfer

An identity is a ratchet (how many messages it passed), a history the set of
messages stored; a message in the daemon's hand has passed the ratchet and is not
stored. The export copies identity and then history while messages come, writes
the archive file by file and retires the copy; the import puts the files in place one
by one.

### Updates

Checks by the ticker and by requests, each a read, a question and a write; the window
GitHub names; one transfer at a time; and the removal of a superseded file after
the lock was released.

### TerminalChat

The type `app` of the terminal client as far as the open conversation goes. An answer
is computed by the daemon at one moment (`Answer`) and taken by the interface at a
later one (`Take`), in any order with the others and with the announcements
(`stream`). Messages are numbered in the order of the daemon's paging.

## 4. Runs

| Run | Bounds | What it shows |
|---|---|---|
| `scheduler` | 2 ids, 2 words of which one cannot be reached, times 0..2, 3 rows ever, 2 faults | a row is sent at most once more than its record was lost, what is marked as sent went out with those words (a row written again during the sweep excepted), sent is final, reachable words go |
| `scheduler_cancelled` (violation) | no faults | a message taken off the queue during a sweep is sent by that sweep, after the cancellation was acknowledged |
| `message` | 3 versions, 2 disturbances out of the mixes, receipt `read` | the index implements the life of a message; cards, protection, orphans, versions |
| `message_lost` (violation) | one download | a correction overwritten by a download's write-back is kept nowhere |
| `identity` | 2 callers, 5 calls, 3 versions, stamps 1..2 | the canonical message lives its life, a link loses nothing, nothing is written behind the alias, keys and cards hold |
| `identity_versions` (violation) | 1 caller | linking deletes the earlier versions recorded under the number |
| `chats` | 3 messages, two of them of one second, 1 snapshot, 1 read; 3 changes by 2 calls; 3 votes; 3 calls by 2 callers; 2 editors, 2 edits, 1 change by others | badge, settings, votes and reactions converge; calls leave nothing half done; group edits are answered truly |
| `gateway` | 2 pages, 2 rounds; 2 troubles; 2 downloads; 2 alerts and a server with room for 2; 3 attempts to link | sweeps, collections, files, alerts and linking of section 1, with their liveness |
| `changes_missed` (violation) | as `gateway` | a connection that returns while a sweep runs is not caught up with |
| `daemon` | a path that nobody has or that is dead, 2 daemons and a bridge (overlapping calls: `PathIsSpared`, for any number); 2 requests, 3 events, 1 slot, a buffer of 2; 2 machines, 1 message; 2 releases; 2 conversations, 3 messages, pages of 1 | socket, connection, account, releases and terminal client of section 1, with their liveness |
| `queued_call` (violation) | as `daemon` | after one call that ran out of time every later call of the terminal client fails at once |
| `reader_place` (violation) | as `daemon` | a reader who scrolled back is moved to the newest message when the conversation is read again |

`MCChats`, `MCGateway` and `MCDaemon` each put together five modules that share no
state (the badge and the reactions are different tables, the socket and the account
different files). A behaviour chooses what it is `looking` at and the other four
stand still, so the state spaces add up and do not multiply. Fairness is given to
each module for the behaviours that look at it. The invariants and properties of the
modules are named parts of the properties the runs list:

* `BadgeIsHonest`: `HistoryNeverReadsAhead`, `NothingUnreadIsHidden`, `ReadStays`.
* `SettingsConverge`: `PinConverges`, `FavoritesConverge`, `ListsConverge`,
  `OtherFavoritesAreKept`, `NewListsAreNew`.
* `LatestIsShown`: `DeletedPollHasNoVotes`, `ShownVoteIsTheLatest`,
  `LatestReactionIsShown`.
* `ChangesAreTold`: `RereadersCatchUp`, `ToldOnce`.
* `VerdictsAreTrue`: `EditReplacesWhatWasShown`, `ChangedMeansOthersChanged`.
  `GroupViewsCatchUp`: `GroupReadersCatchUp`, `ListShowsTheGroup`.
* `SweepsEndWell`: `FinishedByOwnLook`, `SweepEnds`. `DriftIsMendedQuietly`:
  `MarkIsEarned`, `PhoneIsNotPestered`, `DriftIsMended`.
* `QuestionsAreSettled`: `QuestionsHaveAWaiter`, `CompletedOnce`, `DownloadsEnd`.
  `StoredFilesAreTrue`: `StoredAddressIsProven`, `RecordedFileIsKept`.
* `NotesReachTheReader`: `LiveWithinBound`, `OneNotePerChat`,
  `OpenOnesAreClickable`, `AlertsReachTheReader`.
* `ExchangesAreOrderly`: `FlagHasAHolder`, `OneExchangeOfCodes`,
  `AnsweredExchangeIsReported`.
* `OneDaemonServes`: `LauncherStartsOne`, `StartersSpareTheLiving`.
  `ConnectionIsFaithful`: `AnswersAreOwn`, `EventsAreAccounted`, `RequestsMoveOn`,
  `ConnectionEnds`.
* `AccountMovesWhole`: `AccountIsNeverNowhere`, `ArchivedHistoryFollowsIdentity`,
  `NoIdentityWithoutHistory`, `MovedCopyStops`. `OfferIsTheLatest`:
  `OfferedFileIsTheLatest`, `DownloadIsGivenBack`, `NewestIsOffered`.
* `ScreenFollowsTheReader`: `OnlyTheOpenChatIsShown`, `NoneShownTwice`,
  `AnswersStayInTheirChat`, `CursorStaysOnItsMessage`, `ReceiptsFollowTheScreen`,
  `ReadingBackEnds`.

Why the bounds are enough. The scheduler's hazards need two rows (order of the
list), one id used three times, one lost record and one crash; all fit. In
`message` a hazard is a pair of things that get in each other's way, so each
behaviour may have two disturbances out of a *mix*, on top of any interleaving of
the in-order events, RPC calls and receipts, which cost nothing. Three versions are
the original and two corrections, enough for a correction to be overtaken by an
older one. The mixes leave out one combination, a download together with a
clear: that one breaks `ImplementsLife` (section 5). In
`identity` five calls are two to store copies, one to change one of them, one
link and one call in the middle of its two halves. In the three composed runs a
hazard is two actors and one thing that goes wrong between them: two calls, two
downloads, two alerts, two daemons, with one or two troubles each. The limits of
the code are constants, and the runs take small ones (a slot instead of eight, a
buffer of two instead of 128, one or two open notifications instead of four, pages
of one message), so that full buffers, refused alerts and overlapping pages happen.
Symmetry is used only in `chats`, which checks nothing eventual.

Fairness. Weak fairness of the steps of a goroutine that nothing blocks for ever:
the sweep of a connection, a download and its timer, a handler of a request, the
event pump, a closing daemon, a check for releases. The library reconnects by
itself and the phone answers what reaches it (its requests can be lost on the
way, which `MaxTroubles` bounds). The goroutine of an alert contends for a lock and
is given strong fairness. Nobody has to call, read, leave, publish or send.
A search of the terminal client may fail; then nothing eventual is claimed of it.

Qualified properties. `SaidIsKept` promises that every text is kept only while
the live handler alone writes texts (`OnlyLiveWrites`): downloads, history pages and failing
records can each lose one, and `message_lost` is the shortest case.
`NothingBehindTheAlias` excepts calls that resolved their address before the
link (`late`): such a call can create the number's conversation again, and
since the alias is already known no later link merges it. `SettledCallsAgree` excepts
calls that overlap: the code holds no lock across a call to WhatsApp.

What times, ids and answers cannot tell apart, the code gets wrong, and the properties
say where:

* `MarkedMeansGone`: `MarkScheduledSent` goes by the id, so a row that was written again
  after a sweep listed its id is marked as sent although its words never went.
* `BadgeIsHonest`: a receipt or a boundary reads its whole second (`timestamp<=?`), so
  "hidden" is asked of messages of a later second than all that is read, and the
  seconds of snapshots that more messages of their second followed (`Torn`) are
  excepted: there messages the phone had not counted are marked read, against
  store.go:1761-1763. Rows a history sync brought before their live event are counted by
  nobody (`paged`).
* `SettingsConverge`: a call stores what it sent over whatever came meanwhile, and nothing
  corrects that until the next change of the same thing (`outdone`). The whole list of
  favourites travels, so a call undoes what changed since the newest change this device
  had when it read the list, and nothing else. A new list whose answer was lost, or that
  could not be stored, leaves its number free here until the echo comes.
* `LatestIsShown`: a vote that cannot be read is shown as pending, and an emoji that is
  replayed after it was taken back is shown again, since the removal left no row.
* `SweepsEndWell`: the mark of a finished conversation is set on silence, whatever its
  reason, and on a conversation with no message to ask from; never on the reader's
  request.
* `OneDaemonServes`: a starter spares who listened when it probed, unless that one was too
  busy to answer within 150 ms. Two starters that find a path dead are not told apart,
  and the later one removes the path the earlier one has bound since.
* `DaemonsLeave`: a connection registered after its daemon went through the connections
  holds it, and a daemon that lost the path between its bind and its watcher's first
  look watches the other's socket: it stays, unreachable, until that one goes
  (transport_unix.go:60-62 says it would stop).

`NoIdentityWithoutHistory` excepts an import that did not end. `OneExchangeOfCodes` is
about `StartPairing` alone: `PairPhone` does not look at the flag and its reader clears
it.

Deadlock is not checked: every one of these systems may come to rest, when
nobody writes and the bounds on calls and disturbances are used up.

## 5. Proofs

Eight modules hold theorems. They assume of the constants what the named assumptions of
the modules say (`ConstantsAssumption` of `Scheduler` and `MCChats`, `MessageAssumption`,
`IdentityAssumption`, `SocketAssumption`, `ConnectionAssumption`, `TransferAssumption`,
`UpdatesAssumption`, `TerminalAssumption`, `EditsAssumption`, `CallsAssumption`,
`UnreadAssumption`, `SettingsAssumption`, `AddonsAssumption`, `FetchAssumption`,
`PairingAssumption`, `SweepAssumption`, `AppStateAssumption`,
`NotificationsAssumption`), which TLC evaluates in every run: the bounds are
naturals, the limits of lists are positive, times do not go back, the marker `None` is
no value of a set it is told apart from, and a message that can be protected is
another's. The sets and bounds themselves are arbitrary. A theorem about an
`MC` module is about its constants, not about the values the configuration gives them.

`SchedulerProofs`. `TypeCorrect`; `SentOncePerLostMark` (`OncePerLostMark`),
`MarkedAfterGone` (`MarkedMeansGone`), `SentStaysSent` (`SentIsFinal`).
`OncePerLostMark` is not inductive: it says nothing of what the sweep still has in
hand. The invariant is `IInv == TypeOK /\ GenInv /\ CopyInv`. `GenInv` says that
generations are handed out once: two rows or two entries of the sweep's list never
share one, an entry and a row that share one have the same id, and one not handed out
was never sent. `CopyInv` says that what still waits in the table or in the list,
but for the message just sent and not yet marked, has gone out no more often than
its record was lost. For `MarkedMeansGone` the invariant is `MarkedInv`: what the sweep
holds is still the row of its id, unless that row was overtaken (`HeldIsRow`), and what
is being recorded has gone (`RecordedHasGone`).

`MessageMergeProofs` has no theorem of a specification but the lemmas that the
next two rest on: every statement maps rows to rows (`UpsertedType`, ...), keeps
them *well said* (`UpsertedWell`, `MergedWell`, ...: nothing after a deletion or
protection, the original text exactly until the first edit, no card of another text),
moves the phase only forward (`Follows`) and the status only up (`LaterStatusRank`).

`MessageStoreProofs`. The actions change the tables in ten ways (`Changes`,
`NextChanges`), and the rest of the argument is about those. Two invariants,
beside `TypeOK`:

* `BaseInv`, without a hypothesis: a handler's copy is as it was decoded
  (`CopyInv`), a download holds no protected message (`LateInv`), only one's own
  messages are sent from here (`OutInv`), a protected row holds nothing
  (`ProtectedInv`) and a row that is not there leaves nothing. It gives
  `ProtectedIsBare` and `ClearedIsEmpty`.
* `SoundInv`, under `Apart` (no download together with a clear): the row is well
  said, what a download holds is well said and a tombstone it holds is still in the
  table, and a card under resolution is the card of its text. It gives
  `CardCorrect`, `WordsKept` and, with `RowStep` (a step keeps the row and moves it
  on, or clears it), the refinement `LifeImplemented`.

`Apart` is needed: a download that read a tombstone writes it back after the
conversation was cleared and the message stored anew, which leaves a revoked row
with a text. With `Mixes = {{"download", "clear"}}` TLC finds
`ImplementsLife` violated in twelve steps.

`TextsAreKept` (`SaidIsKept`) adds `KeepInv` under `OnlyLiveWrites`: no history page
and no download is in hand (`Alone`), and a handler that is about to write either
takes no text away (`Harmless`) or has recorded it (`WriterInv`). The other writers
leave a harmless write harmless, since they change ticks and cards, or protect, or
take the text back and record it (`TextsStep`).

`ChatIdentityProofs`. `TypeCorrect` includes the foreign keys. The invariant is
`IInv == TypeOK /\ RowInv /\ CallInv`: rows under both addresses are well said and
fit the side the message is from, and so is what a call holds between resolving its
address and its transaction. `RowStep` says that a step leaves a row, takes it away,
brings one, or moves it on in its life; from it follow `CardsDescribeTexts`,
`LinkLosesNothing` and `CanonicalLife`, the refinement of `MessageLife`.
`NothingStaysBehind` needs no strengthening.

`CallsProofs` is about `MCChats` when it looks at group edits or at calls.

* `VerdictsHold` needs what an edit has read at each stage (`ReadInv`), what it is
  about to set (`SetInv`), that a value which is not the editor's own came from
  somebody else (`OwnInv`) and that a closed editor has left nothing (`ClosedInv`).
  `ViewsHold` adds `ViewsInv`: a client shows the value unless a notice or an event is
  still to come, or none was sent; the list of chats has it likewise.
* `RefusedLeavesNothing`, `StoredIsTold` and `CallsSettle` are about every RPC method at
  once. Their argument has two halves. `ProgramsAreSound` goes through the tables of
  `ServiceHandlers` and shows of every program of every method what the second half
  needs: it tells at most once and stores at most once, it asks before it stores and
  shows, and what it stores it says before it ends. That is why the tables are
  relations (`Rows`, `Under`, `Programs`) and not a `CASE` over names. `CallsInv` is then the place of each call in its
  program in terms of what the world shows: it has told only if it came past a step that
  tells (`ToldInv`), only accepted calls have left anything (`AcceptedInv`), clients are
  behind only while a running call has yet to say what it stored (`RereadInv`), and a call
  that has been alone since it asked agrees with itself (`AloneInv`).

`ChatsProofs` is about `MCChats` when it looks at votes and reactions, the badge or the
settings; with `CallsProofs` it gives the types of all five (`ChatsTypes`).

* `AddonsShown` (`LatestIsShown`). `AddonsInv` adds to the property where a vote that
  came early or under the other address can be, and that every vote received is covered by
  the one kept (`VotesInv`), and which reactions no later removal took back
  (`ReactionInv`).
* `BadgeStaysHonest` (`BadgeIsHonest`). `UnreadInv` says that what was read lies at or
  before the second of what is reached: what the account read, what was there when a read
  was stored, or what a torn snapshot ends with (`AheadInv`). It says what a sync in hand
  has still to apply and that its boundary is such a second (`SyncInv`), and that outside a
  sync, or as long as nothing was read, the badge counts every message that is owed
  (`HiddenInv`). Any messages may share a second: the phone counts at least the
  messages of its snapshot that are past the boundary (`BoundaryIsRead`).
* `SettingsSettle` (`SettingsConverge`). The property compares what is stored with the
  account when every change was handled. `FlagsInv` says it of every moment: what a call
  has sent is in the account's log at its place (`PlaceInv`); the newest row of the pin
  has the value of a change, every later one of which is still to come or outdone
  (`PinInv`); the favourites are those of some change that is no older than any handled
  and not outdone (`FavoritesInv`); each list is that of the last change handled, or that
  one is outdone (`ListsInv`).

`GatewayProofs` is about `MCGateway`; `GatewayInv` is the conjunction of the invariants of
its five parts, and `GatewayTypes` its types.

* `MediaFetch`: `QuestionsHold` and `FilesAreTrue`. The invariant for the question names
  the one download that waits for it (`QuestionInv`), what those that joined it wait at
  (`JoinInv`), what each waiter was completed with (`ResultInv`) and whom the answer under
  way can still complete (`AnswerInv`). For the file it is that a recorded row rests on
  the database copy (`KeptInv`), which no cache sweep touches.
* `Pairing`: `AttemptsAreOrderly`. `Held` says that a flag that is up has a holder at a
  step of its call or a reader; `AfterTheCall` that the reader of a caller for codes begins
  when the call is answered; `OneBusy` that, as long as no reader of `PairPhone` has
  run, there is one such attempt and the flag is up; and `Heard` that an outcome leaves
  its channel into the hand of the reader, which says it.
* `ConnectSweep`: `SweepsFinishByOwnLook`, with `SweepInv`: what a sweep waits for it
  has asked for itself (`AwaitInv`), in one of its rounds.
* `AppState`: `PhoneIsLeftAlone`. The bound on requests counts three things against each
  other (`AsksInv`): requests made, requests a caller is committed to, and restarts, since
  a restart forgets that the day's request was made.
* `Notifications`: `DeskKeepsItsBounds`. An alert reserves a slot, waits for the lock,
  closes what is too many, posts, and writes down what it posted. `DeskInv` says
  that numbers are left for those that have still to post (`CountInv`), that the lock has
  one holder (`LockInv`), that room was made before it posts (`RoomInv`), that a chat
  names its own entry of the list (`NamesInv`), what holds between posting and writing
  down (`ReplacedInv`), and that an open notification is listed, being closed or just
  posted (`ShownInv`). The list is changed by position, as `forgetLiveLocked` does.

`DaemonProofs` is about `MCDaemon`; `DaemonInv` is the conjunction of the invariants of its
five parts, and `DaemonTypes` its types.

* `DaemonSocket`: `PathIsSpared` (`OneDaemonServes`). That the launcher has one daemon is
  not inductive: `LaunchedInv` adds that it is the one the launcher remembers (`own`) and
  that it has not exited. That starters spare the living is `SparedInv`: when a starter
  whose probe was refused removes the path, whoever listened at the probe has closed or
  has lost the path. Neither can be undone, because a listener is open from its bind to
  its close (`OpenInv`), and who listened at the probe had bound, and a daemon binds
  once (`BeforeInv`).
* `RPCConnection`: `ConnectionKeepsOrder`. For the answers, `PlacesInv` says that a
  request is at one place at a time (sent, in the reader's hand, with a handler, ready,
  in the pipe), and `SlotsInv` that a slot is taken for each that is with a handler or
  ready. For the events, `EventsInv` says of what was heard, what the pipe holds, what the
  pump has in hand and what is queued that each is in order and after the one before
  (`SortedInv`, `HeardInv`, `PipeInv`, `QueueInv`), and that an event that was published
  and not dropped is at one of the four (`AccountedInv`).
* `ProfileTransfer`: `AccountIsSomewhere`. `TransferInv` has a part for every stretch of a
  move: that a daemon runs on a whole profile which no import touches (`ServingInv`), what
  an export has copied and written at each of its steps (`ExportInv`), that an import goes
  by an archive which stays whole (`ImportInv`), and that only an import that did not end
  leaves an identity without a history (`HalfInv`). `FollowInv` says that a history
  which goes with an identity, in a profile, in the export's hand or in the archive, lacks
  no message the identity's ratchet has passed, but for the one in a daemon's hand and
  those that were lost.
* `Updates`: `OfferHasItsFile`. `FetchingInv` says that one transfer is claimed at a time,
  that it fetches the release of the file on offer, if there is one, and that its file,
  once complete, is its own or removed.
* `TerminalChat`: `ScreenIsTheReaders`. `UiInv` is about the interface, `CallInv` about
  each call: the page an answer brings is about the call's conversation and names no
  message twice, so that taking it is harmless whenever `Current` holds and changes
  nothing when it does not. A handler is a function from the interface to the
  interface and what it asks, so every handler has a lemma of its own (`DoneInv`): it
  keeps `UiInv` and asks only calls with `CallInv`. `Unseen` is a recursive function; that
  what it keeps of a page is new to the screen and without repetition (`UnseenIs`) is
  proved by a least counterexample, since the induction theorems of the library cannot
  be instantiated.

## 6. Only model-checked, and not modelled

Checked and not proved: everything eventual (`ReachableWordsGo`, `SweepEnds`,
`DriftIsMended`, `DownloadsEnd`, `AlertsReachTheReader`, `DaemonsLeave`, `RequestsMoveOn`,
`ConnectionEnds`, `MovedCopyStops`, `DownloadIsGivenBack`, `NewestIsOffered`,
`ReadingBackEnds`), since TLAPS has no fairness. Where a property has a safety half, that
half is proved and the other is not: `QuestionsAreSettled` (`QuestionsHold`),
`SweepsEndWell` (`SweepsFinishByOwnLook`), `DriftIsMendedQuietly`
(`PhoneIsLeftAlone`), `NotesReachTheReader` (`DeskKeepsItsBounds`),
`ConnectionIsFaithful` (`ConnectionKeepsOrder`), `AccountMovesWhole`
(`AccountIsSomewhere`), `OfferIsTheLatest` (`OfferHasItsFile`) and
`ScreenFollowsTheReader` (`ScreenIsTheReaders`).

Known and modelled, but asked by no property: `MarkRevoked` leaves the card and the
media path of a revoked message (store.go:2330 says only the tombstone is kept); the
merge of reactions ignores their times.

Hazards of the code that no property asks about:

* a plain send whose storing failed is answered with an error, so a client that
  tries again sends twice (service.go:1047);
* overlapping calls of one setting may be stored in another order than WhatsApp took
  them (`SettledCallsAgree` is about calls that do not overlap), and two
  `preferences.set` may publish an older snapshot last (service.go:316);
* the terminal client appends a message that comes late at the end (messages.go:235)
  and takes a receipt that goes back (messages.go:277) until it reads the page again;
* messages that arrive between the export's snapshot and the daemon's stop are not in
  the copy (service.go:806);
* the alerts of one conversation may be shown in another order than its messages came
  (events.go:897);
* `PairPhone` over an existing connection reads no channel, so nothing publishes
  `pairing.success` for it (client.go:270; docs/API.md:383 says it is reported).

Not modelled:

* the connection status and the order in which its changes are announced;
* the row of a pinned message and the avatar cache, each one column or one file that
  the next look replaces;
* the portal that sandboxed builds use for notifications, and Windows named pipes;
* calls, presence, contacts, status and channel posts as they are stored: one write
  each, replaced by the next;
* the desktop client, and of the terminal client the list of chats and the dialogs;
* formats, parsing, images, link previews: functions without state;
* configuration, bug reports, the parent watch, database migrations.
