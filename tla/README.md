# Verification of telegram-backlog-bot

TLA+ models of the bot in `src/`, TLC configurations that check them on small
instances, and TLAPS proofs of the same properties for every value of the
constants. Every definition was translated from the Go and SQL sources;
`PROJECT.json` maps each one to the lines it stands for.

Contents: [the system](#the-system) · [the modules](#the-modules) ·
[the runs](#the-runs) · [fairness](#fairness) · [the proofs](#the-proofs) ·
[findings](#findings) · [what is left out](#what-is-left-out) · [where it can go on](#where-it-can-go-on)

## The system

One process with two loops. `Bot.Poll` takes Telegram updates one at a time;
`Scheduler.Run` ticks every 15 seconds and sends the morning digest between
`NOTIFICATION_TIME` and 12:00. Both use one SQLite database opened with a single
connection, so each statement, and each transaction, is atomic. Update handling
is serialised by `Bot.mu`; the scheduler does not take it. Docker compose
restarts a process that ends. A third goroutine, the heartbeat, ends the process
when neither loop has come round for two minutes.

| Component | State | Operations | Hard behaviour | What makes it correct |
|---|---|---|---|---|
| Scheduler (`scheduler.go`) | the locals of `Tick`; the wall clock | `Tick`, `sendFuncWithRetry`, `sleepUntil` | crash between a send and its record; lost replies; backoff and Retry-After against the cutoff | order, at-least-once, no attempt outside the window, everything delivered while the window is open |
| Notification service (`application/notification.go`) | none of its own | `Maintain`, `Prepare`, `MarkPartSent`, `MarkSent`, `Fail` | finds any mixture of run status and recorded parts | resumes without repeating or skipping |
| Notification repository (`repository/notification.go`) | `notification_runs`, `notification_parts` | one statement per method | stale `sending` rows, retry budget, conditional updates that change nothing | one snapshot per date, `sent` only after every part |
| Project and backlog services (`application/service.go`) | none of their own | create, update, archive, restore; create, update, complete, reopen, delete | reads before the transaction, versions shown long ago | no lost update, archived projects read-only, active names unique |
| Mutation receipts (`repository/mutation.go`) | `mutation_receipts`, `processed_updates` | `Mutate`, `MutateAndClearState` | redelivered updates, repeated presses, refusals then replayed | one mutation per nonce, in one transaction with its receipt and the draft's deletion |
| Project and backlog repositories | `projects`, `backlog_items` | inserts, conditional updates, list queries | the index on active names | rows only change at the version confirmed |
| Domain rules (`domain.go`) | rows | `Complete`, `Reopen`, validation, ordering | idempotent transitions | status and version agree |
| Conversation handler (`telegram/handler.go`) | the draft payload; the buttons left on the screens | wizard steps, screens, lists, confirmations | steps redelivered or pressed out of order, prompts that are not sent, nested wizards, expiry, an edit's buttons pressed in another edit | no question skipped, what is stored was previewed, a list's walk shows every item |
| Conversation repository | `conversation_states`, `callback_tokens`, `authorized_chat_binding`, `processed_updates` | versioned save, clear, bind, tokens | a text handled and not marked; a binding over restarts | one bound chat, one answer per text |
| Update polling (`bot.go`) | `bound`, `chatID`; the library's offset and channel | `Poll`, `handle`, `bindStart`, `InitializeBinding` | acknowledgement before handling, redelivery, first binding | nothing lost or repeated but by a death, only the stored chat served |
| Process runtime (`main.go`) | loops, one pulse, heartbeat | start, heartbeat, shutdown | one loop hung, the other alive; a long Retry-After | a hung call ends, the digest is still delivered |
| Recommendation (`recommendation.go`) | pure | `Select`, `Group`, `RenderParts` | limits, splits of a group, characters against UTF-16 units | most urgent first, every item once, every part fits |
| Store and migrations (`store.go`) | schema version | `Open`, `migrate`, `Backup` | a crash between migrations | every migration once |
| Message rendering (`render.go`) | pure | escaping, splitting | cuts inside an entity | valid HTML of bounded length |
| Configuration, repository facade, deployment | – | – | – | – |

Interactions. The scheduler calls the notification service, which calls its
repository; it sends through `Bot.sendNotification`, which fails until the owner
has bound the chat with `/start`. The user edits the backlog through the handler
while the scheduler reads it: the two loops meet only in the database and in
`Bot.bound`. The handler makes a nonce for each button or wizard, shows a
confirmation with the version of the row, and calls a service with update id,
nonce and version; the service runs its change inside `Mutate`. `main` starts the
heartbeat and both loops, and returns when the first of the three ends, without
waiting for the others.

`PROJECT.json` lists the hazards of this code at their lines, with the properties
that cover each, or the reason why none does.

## The modules

### DigestDelivery – what the digest promises

The abstract specification: for each date one digest is published, once; its
parts reach the chat in order and each at least once; a part is recorded after a
copy of it was accepted, and never sent again once recorded; the date is closed
when every part is recorded.

### Notification – how the digest is delivered

`Scheduler.Tick` with the service and the repository under it, the Telegram
server, the clock, the binding of the chat, and a process that may stop at any
step. `pc` says where `Tick` is:

| `pc` | Next step | Code |
|---|---|---|
| `idle` | `TickStart`: reads the clock, recovers stale `sending` rows of every date | `Tick`, `RecoverStaleNotifications` |
| `retry` | `TickRetry`: promotes today's failed run if it is due; leaves outside the window | `Maintain`, `RetryFailedNotifications` |
| `prepare` | `Prepare`: nothing if `sent`, else the run is ensured | `NotificationService.Prepare` |
| `list`, `snapshot`, `load` | `ListItems`, `SnapshotNotification`, `LoadParts` | the rest of `Prepare` |
| `loop` | `NextPart`, or `Finish` when all are passed | the loop of `Tick`, `MarkSent` |
| `attempt`, `inflight`, `sleep` | `Attempt`; `Accepted`, `LostReply`, `Transient`, `Permanent`; `Wake` | `sendFuncWithRetry`, `retryDelay`, `sleepUntil` |
| `mark` | `MarkPartSent` | `MarkNotificationPartSent` |
| `fail` | `Fail` | `NotificationService.Fail` |
| `down` | `Restart` | compose |

`runs`, `snapshot` and `recorded` are the tables; `copies` counts the messages the
chat has for each part, which the code cannot see and the properties are about.
`Advance`, `Bind` and `Crash` interleave with every step. A database error makes
`Tick`, `Run` and `main` return, so it is a `Crash`.

The user edits the backlog at any time, so `ListItems` may return any selection
within the limit (`Renderings`); properties hold whatever it is.

### Confirmations – what a confirmed change promises

The abstract specification of the other half: one table of `rows`, the `receipts` of
confirmations, the `processed` updates, the confirmations on offer and the one just
`told` of success. A confirmation takes effect at most once, in one step with its
receipt and the mark on its update; that step rewrites the row the receipt names and
no other, only if the row is still at the version that was confirmed, and to a version
that no row had before. A receipt is never rewritten. What else may happen is an
offer, or an update that changes nothing.

### BacklogServices – confirmations, receipts and versions

`projects` and `items` hold status, normalized name or owning project, and a
version (`updated_at`, numbered by the mutation that wrote it); `receipts`,
`processed` and `draft` are the other tables an operation writes. `buttons` and
`confirms` are what the user's screens hold: which operation a nonce was made
for, and which versions its confirmations carry. `sent` makes a redelivered
update carry the same confirmation. `answer` is what the user was told.

`ShowDetail`, `OpenConfirmation`, `DraftCreate`, `DraftEdit` and `CancelDraft` are
the screens, in any order and left open for any time. `HandleUpdate` delivers any
confirmation, first or again, to one of nine actions, one per service operation,
each with the reads before its transaction, the `Mutate` around it and the write
inside. Handling is one step: `Bot.mu` serialises the handlers and the scheduler
writes none of these tables. After an answer that wrote nothing, the row of
`MarkProcessed` may or may not be there (`NoWrite`): sending may have failed, or
the process may have died, before it.

It implements `Confirmations`: `Table` is the projects and items there are, as one
table (a deleted item is gone), and `Told` the nonce of an answer `saved`. Replays and
refusals are both updates that change nothing: what a replay tells the user is where
findings 3 and 5 are, and is no part of the promise.

`Colons`. The confirmations of archive, restore, complete, reopen and delete put
the version into the callback as RFC 3339 text, then split the callback on `:`.
Times come from `fromMicros` in UTC, such as `2026-08-18T07:00:00Z`, so the text
has two colons and the callback splits into seven fields where five are wanted:
in the bot as built each of these confirmations is answered as stale. `Colons = 2`
is the bot as built; `Colons = 0` reaches the five operations as their signatures
have it, which is how the services behind the split are explored. The theorems
hold for both.

### Runtime – the process around the scheduler

Extends `Notification` with what `main.go` adds: the one `pulse` both loops write,
the heartbeat that ends the process once it is older than `PulseLimit`, and calls to
Telegram that never return, since `tgbotapi.NewBotAPI` uses an `http.Client`
without a timeout: `Hang` sets `hung` on a call under way, and only the end of the
process resets it. Without a chat there is no call to hang, `sendNotification` returns
at once. `Round` is a pass of `Scheduler.Run`, which beats when `Tick`
begins and not again until it returns; `Poll` is an update that arrives (a beat)
and may bind the chat. `Heartbeat`, `Die` and `Main` are the ends and the start of
the process. `Pass` lets time go by, but not past what a goroutine does every 15
seconds: a clock unit is longer than that.

### Polling – from Telegram to a handler

`posted` and `confirmed` are Telegram's queue, `offset` and `fetched` the library's
goroutine, `taken` the update `Bot.Poll` has in hand; the numbers between `taken` and
`offset` are the buffered channel. `GetUpdates` confirms everything before its
offset, handled or not. `pc` says where `Bot.handle` is:

| `pc` | Next step | Code |
|---|---|---|
| `poll` | `Take` | `Poll` |
| `route` | `BindStart`, `Ignore`, `Route` | `bindStart`, `authorized`; a callback goes to its handler, a message to the lookup |
| `lookup` | `IsProcessed` | messages only |
| `handle`, `mark` | `Handle`, `MarkProcessed` | the handler, then `processed_updates` |
| `down` | `Main` | `InitializeBinding` with whatever chat is configured this time, `Poll` from offset 0 |

`Fail` is an error of a statement or a call at any of these: it is logged and the
loop goes on. Such an update counts as `seen` like one that was handled or ignored, even
if its lookup failed before a handler ran: the code tries none of them again. `Die` may strike between any two steps. `bound` is the memory of the
process and `stored` the row it must agree with. What the handlers do is in the two
modules on either side: here a handler is one step that is counted in `runs`.

### Conversation – the wizards

The one draft of `conversation_states` with its flow, step, nonce, answers and
expiry; `shown`, every button that was ever on a screen; `previewed` and `saved`,
what the user was shown and what was stored under a nonce. One action per handler of
`callbackV2` that takes the draft a step on (`SkipV2`, `PickV2Project`,
`PickV2Quadrant`, `PickV2Date`, `EditValue`, `EditDraft`, `MoveProject`), per way to
begin (`StartProject`, `StartNestedProject`, `StartBacklog`, `StartEdit`) and per
save; `Message` is the handling of a text.

Any button in `shown` may be pressed at any time and any number of times. That
covers old screens, double presses and callbacks delivered again, as a callback is
not looked up in `processed_updates`. A text is looked up, and comes again only if
its handling ended before `MarkProcessed`. `SaveDraft` stores the draft and then
sends its prompt; the sending may fail and the process may die in between. `Cancel`
also stands for the deletion of the draft by a restore or a delete confirmed from
an old screen. `EditValue` compares the button's nonce with itself and gives it to
the draft, as the code does.

Handlers run under `Bot.mu` and only they write the table, so reading the draft and
writing it is one step; the version that `SaveStateVersion` compares is then always
the one just read, and its refusal is not in the model.

### Listing – lists and recommendations

The list screens (`OpenList`, `ListFilter`, `ProjectItems`, and the arrows
`NextPage` and `PreviousPage`) with the query under them, and the recommendation
(`Digest`, `Focus`) with its order, its limit, its groups and its parts. Items are
numbered by their ids; quadrants and dates are numbers; a title is two numbers, its
length in characters and in UTF-16 units. `walk` keeps the pages a walk with the
arrows has shown. The tables may change between two presses (`Change`). A run starts
from every backlog of up to `MaxItems` rows.

What Go or SQLite sorts is `Sorted` (module `Orders`): the element at place `k` is the
one with `k - 1` elements ahead of it. The orders are strict and total, each with the id
as its last key, so it is the only result a sort can have, and it is short enough to be
proved about. `TextAssumption` says what the limits on names and titles give: a rune is
one or two units, and the message of a single item is within Telegram's limit.

### The other modules

The `MC` modules give the sets of the instances and their symmetry. The
`Proofs` modules extend a component's module and TLAPS; `OrdersProofs` holds the lemmas
on sorting and flattening that `ListingProofs` uses. How they compose: `Runtime`
extends `Notification`, and both refine `DigestDelivery`; `BacklogServices` refines
`Confirmations`; `Conversation` and
`BacklogServices` share the draft and its nonce, the first with every step of a
wizard and a save that is one transaction, the second with a wizard in one step and
everything that may become of its save; `Polling` shows which updates come to
either, and how often.

## The runs

| Run | Instance | Shows |
|---|---|---|
| `notification_safety` | two mornings, two items in one or two parts, 2 persisted attempts, 2 sends per call, 2 crashes or lost replies; 12.0 million states | `TypeOK`, `DuplicatesNeedFaults`, `InOrder`, `SentMeansDelivered`, `RetryBudget`, `NoAttemptOutsideWindow` |
| `runtime_liveness` | one morning, two items, 2 attempts, 2 crashes or lost replies, calls that never return, an update that binds the chat; fairness of the process; 0.70 million | `ImplementsDelivery`, `DeliveredWhileOpen`, `HungCallEnds`, `DuplicatesNeedSilence` |
| `services_safety` | 2 projects, 1 item, 2 names, 2 nonces, 3 updates, 2 mutations; 0.69 million | `TypeOK`, `OneReceiptPerMutation`, `DraftIsUnspent`, `ActiveNamesDiffer`, `NoLostUpdate`, `ArchivedIsReadOnly`, `ImplementsConfirmations` |
| `conversation_safety` | 3 wizards, 3 texts, 1 lost prompt or death; 0.72 million | `TypeOK`, `NoQuestionSkipped`, `SavedWasPreviewed`, `TextAnswersOnce`, `AnswersStay`, `ExpiredTakesNoAnswer` |
| `polling` | 3 updates, 2 chats of which one may be configured, a channel of 1, 1 death; fairness; 1.06 million | `TypeOK`, `RepeatsNeedDeaths`, `LostOnlyAtDeath`, `BindingIsKept`, `ServesTheStoredChat`, `EveryUpdateIsSeen` |
| `listing` | every backlog of up to 4 items, each one of 4 rows, pages of 2, a limit of 3, messages of 8 units, 1 change; 0.24 million | `TypeOK`, `WalkShowsAll`, `MostUrgentFirst`, `EveryItemOnce`, `PartsFit` |
| `retry_before_promotion`, `mark_sent_on_failed`, `retry_after_cut`, `refused_then_replayed`, `replayed_draft`, `confirmation_never_heard` | the smallest that shows it | a behaviour that is documented, or that the code means to have, and does not: see the findings |

Why these bounds are enough to be interesting.

- *Parts and items.* Two parts are what order, resumption and a partly recorded
  snapshot need; more repeat the same comparison.
- *Faults.* Two of them let a crash follow a lost reply of the same part, or strike
  twice in one delivery. One is enough in a wizard, where every step ends with its
  prompt and a second fault meets the same draft.
- *Clock.* `Delays` holds a wait within a clock unit and one of two units, so that a
  sleep can end before, at or past the cutoff; a stale run is failed, promoted and
  failed again until its attempts are gone, and the first morning's rows are still
  there on the second.
- *Attempts.* The code has 4 persisted attempts and 4 sends per call; 2 separate the
  first from the last.
- *Pulse.* `PulseLimit` is shorter than the window and not longer than a delay, so
  that both a hung call and a sleep can make the pulse stale. `DuplicatesNeedFaults`
  is not a property of this run because it is not one of the process: the heartbeat, too,
  ends processes between the acceptance of a message and `MarkPartSent`, with no crash
  and no lost reply. What holds is `DuplicatesNeedSilence`: each such duplicate costs a
  silence of its own that is longer than `PulseLimit`.
- *Services.* Two nonces let one mutation be confirmed against another's result, and
  three updates let each be redelivered after the other. Each run starts from every
  legal content of the tables, so that a prefix need not be replayed.
- *Wizards.* Three nonces let a wizard be begun in another one and an old edit's
  button be pressed in a third. Three texts carry a wizard to its preview.
- *Polling.* With a channel of one and three updates one is in hand, one is buffered
  and one waits for room. `RepeatsNeedDeaths` counts the deaths; the theorem holds for
  any number.
- *Lists.* Four items make a last page that is full, three one that is not, and with
  a limit of three one item is left out. The rows disagree in each key of the order.
- *Cutoffs of the search.* `MaxClock`, `MaxFaults`, `MaxUpdates`, `MaxDeaths` and
  `MaxChanges` bound behaviours in guards, `MaxItems` bounds the initial states; no
  other bound is in the modules.

Deadlock is checked in `notification_safety`, `polling` and `listing`. The other models
do stop: in `services_safety` nonces, updates and mutations are finite, in
`conversation_safety` nonces and texts, and in the two runs of `Runtime` a call may
hang when the bounded clock is at its end and the pulse can grow no older.

Every property has a mutant in `PROJECT.json`: a plausible slip in one mapped
definition (a query without its status condition, a transaction without its
receipt check, a step that does not compare the nonce, a length counted in
characters) under which the run finds it violated. The mutants stand beside the
definitions they change.

## Fairness

`RuntimeFairSpec`, for `HungCallEnds` and `DeliveredWhileOpen`, supposes of the process
and its clock:

- `WF(Round)`, `WF(Heartbeat)`: the goroutines run, and tickers fire every 15 seconds.
- `WF(~bound /\ SendReturns)`: without a chat `sendNotification` returns an error and
  calls nobody.
- `WF(Main)`: compose restarts a stopped process (`restart: unless-stopped`).
- `WF(pc in {"sleep", "inflight"} /\ Pass)`: time is relied on to end a sleep and to
  make the pulse of a hung process stale, and for nothing else; otherwise the cutoff
  would make `DeliveredWhileOpen` true for free.

It says nothing of Telegram: with a chat no call need return, be it a hung one or not.
What ends a hung call is the heartbeat alone; the mutant whose heartbeat keeps the
pulse fresh itself leaves a process with a chat in its hung call for ever.
`HungCallEnds` asks that no update be left to come, because each one is a beat, and
that the clock be far enough from its bound for a pulse to become stale.

`DeliveredWhileOpen` carries what it needs of Telegram as a hypothesis,
`TelegramAccepts`: a message offered again and again, by calls that do not hang, is
accepted in the end. Without it a Telegram that always refuses would keep the digest
undelivered, and the code has nothing to set against that. A hung call does not return
by it: the heartbeat ends the process first, or the window closes while it hangs.

`Polling`, for `EveryUpdateIsSeen`: the goroutine of the library and the loop take
their next step, Telegram answers a request in the end, compose restarts the process,
and a call that a handler makes returns. The last one is more than the code has, see
the hazards: a handler that hangs holds the loop for good, and the scheduler's pulse
hides it. `RepeatsNeedDeaths` and the other properties do not use fairness.

Crashes need no fairness: a bound limits them. Nothing says that the owner binds the
chat; `DeliveredWhileOpen` supposes it bound.

## The proofs

Seven modules; each theorem is for every value of its module's constants, under the
assumptions named there, which say that numbers are numbers, that values that
stand apart differ, and what is said of texts above.

| Module | States |
|---|---|
| `NotificationProofs` | `TypeOK`, `SentMeansDelivered`, `RetryBudget`, `InOrder`, `DuplicatesNeedFaults`, `NoAttemptOutsideWindow`, the refinement of `DigestDelivery` |
| `RuntimeProofs` | the same of the process with its heartbeat, with `DuplicatesNeedSilence` for `DuplicatesNeedFaults` |
| `BacklogServicesProofs` | `TypeOK`, `OneReceiptPerMutation`, `DraftIsUnspent`, `ActiveNamesDiffer`, `NoLostUpdate`, `ArchivedIsReadOnly`, the refinement of `Confirmations` |
| `ConversationProofs` | `TypeOK`, `NoQuestionSkipped`, `SavedWasPreviewed`, `TextAnswersOnce`, `AnswersStay`, `ExpiredTakesNoAnswer` |
| `PollingProofs` | `TypeOK`, `RepeatsNeedDeaths`, `LostOnlyAtDeath`, `BindingIsKept`, `ServesTheStoredChat` |
| `ListingProofs`, `OrdersProofs` | `TypeOK`, `WalkShowsAll`, `MostUrgentFirst`, `EveryItemOnce`, `PartsFit` |

**Notification**, for any dates, items, limits, delays and number of faults.
Assumptions: `CalendarAssumption` (dates are numbers, and both ends of the window lie
within the day; a notification time past the cutoff leaves the window empty, and is
allowed) and `PolicyAssumption` (the policy's parameters are
numbers, at least one attempt, one send and one item). The invariant is
`IInv == TypeInv /\ TablesInv /\ LoopInv`. `TypeOK` is not inductive alone: the steps
of the loop need to know that a date and a time were read, which `TypeInv` adds per
`pc`. `TablesInv` relates the rows of each date: a run that is `none` or `pending` has
no snapshot, so that `INSERT OR IGNORE` never mixes two renderings; recorded parts
belong to the snapshot and were accepted; a `sent` run has all its parts recorded.
`LoopInv` relates `Tick`'s locals to the tables: its queue is exactly the pending
parts, the part being sent is the first of them, and in `mark` a copy of it is out.
The scheduler is the only writer of the tables, and that is where the proof uses it.
The order, duplicate and retry properties are then each inductive relative to
`IInv`; the refinement maps every step to at most one step of `DigestDelivery`.

**Runtime**, for any `PulseLimit` and number of updates, under `HeartbeatAssumption`
too. Every step of the process is a step of `Notification`, leaves its variables alone, as
`Hang` does, or is `Killed`, in which the heartbeat ends it (`StepIsKnown`); `Killed` loses the locals and keeps the tables, so it
keeps `IInv` and is a stutter of `DigestDelivery`, and all that was proved of
`Notification` carries over. For `DuplicatesNeedSilence` the invariant
(`SilenceInv`) charges each unexplained copy to the time that is spent: the clock when
there is no process, the last beat when there is one. An acceptance explains itself as
long as the process lives, so only `Killed` leaves a copy to explain, and it takes the
spent time from a pulse more than `PulseLimit` old to now.

**BacklogServices**, for any entities, names, nonces and updates and for
every `Colons`. Assumptions: `IdsAssumption` (`NewID` returns no id twice),
`NoneAssumption` and `NoneIsNoRecord`. The nine operations are first brought to three
forms – one quiet answer, a commit that writes the project its receipt names, a commit
that writes the item – and every invariant, and the refinement, is then proved once per
form. The invariant adds that a
confirmation belongs to a made button of a matching kind (`ChatInv`), that every
version is in the past, so a new one is larger (`PastInv`), and that receipts are
counted by finite sets (`CountInv`). In the refinement the screens are offers, which
needs `ChatInv` to know that a button's row is there, and a commit is an `Apply`.

**Conversation**, for any nonces, texts and number of faults. Assumptions:
`ValuesAssumption` and
`NoneAssumption`. Its invariant needs to know what every old button on a screen can
still do: a nonce belongs to an edit or to a creating wizard, and so do all its
buttons (`NoncesHaveOneUse`, without which the slip in `EditValue` could hand an
edit's nonce to a new project); the button that saves is on a screen only with a
preview of the draft as it is (`SaveFollowsPreview`); a stored nonce has no draft that
creates (`StoredIsDone`); what was not asked yet has no answer (`AheadIsUnset`); and a
text taken is processed or unmarked (`TextInv`). Steps are brought to forms first:
one begins a wizard, answers a question, takes an edit on, stores, or leaves the
answers alone.

**Polling**, for any chats, settings, channel, updates and number of
deaths. Assumptions: `ChatsAssumption` and `BoundsAssumption`. `TypeOK` holds the facts
about the channel: its content lies
between what was taken and what was fetched, and Telegram keeps whatever was not
put. The invariant adds that every confirmed update behind the loop was seen (`SeenInv`),
that what was not run in this life ran at most once in each earlier one (`RunInv`), and
that the memory's chat is the row's (`BoundInv`).

**Listing**, for any backlog, date, limit, page size and lengths. Assumptions:
`RowsAssumption`, `TextAssumption`, `NoLimitAssumption` and `BoundsAssumption`.
`IInv == TypeOK /\ ScreenInv /\ TextInv /\ WalkInv /\ MostUrgentFirst /\ EveryItemOnce
/\ PartsFit`; TLC found no state of the run's instance that breaks it. `TypeOK` says
of a screen that its rows are distinct items and, of a digest, that its parts list
ordinals of the rows selected for it.

- A lexical order whose last key is the id is strict and total (`LexicalOrdersKeys`), and
  what is sorted in a strict order lists its set once, increasing (`SortedEnumerates`).
- `WalkInv` says that as long as the tables stay a walk holds pages 0 to the one shown.
  `PageIsSlice` says which rows of the sorted list a page has, `PageOfPlace` on which
  page a place is; a last page that is not full ends the list, so the pages flattened
  are the sorted list (`PagesShowAll`).
- The comparator is the order of the design (`BeforeIsUrgency`), so a prefix of the
  ranking is what `Ranked` describes.
- The groups are the projects in the order of their best ordinals
  (`GroupsAreProjects`); parts are whole groups or single items of them, within the
  limit (`RenderPartsAreGood`), and such parts flatten to every ordinal once
  (`GoodPartsListAll`). A part of one item fits by `TextAssumption`, so `LimitText` never
  cuts. A message stays as it was sent when the tables change, because an item's
  project and lengths do not (`PartsStay`).

What flattening a sequence of sequences gives, for any number of them, needs an
induction. The library's induction theorems are out of the provers' reach, but that a
set of numbers has a least member is not (`Least`, from the well-founded induction of
the library, where the predicate is a set): the shortest prefix that flattens wrongly
would follow one that flattens right (`FlattenIncreases`).

Only model-checked: `DeliveredWhileOpen`, `HungCallEnds` and `EveryUpdateIsSeen`, as
liveness under fairness is out of the prover's reach, and the counterexamples of the
findings, which are runs. Every safety property of a passing run is a theorem.

## Findings

Each is a run that TLC ends with a counterexample.

1. `NoAttemptWhileFailed` – a run that failed is sent again by the next tick, 15
   seconds later, because `Prepare` serves any run that is not `sent`; `retry_at` and
   the attempt limit only decide the row's status. The design document (line 415)
   says that it stays failed until a maintenance tick every 15 minutes.
2. `MarkSentTakesEffect` – when such a tick delivers everything, `MarkNotificationSent`
   meets a `failed` row, changes nothing and reports no error; the run stays `failed`
   for good, against the comment at `notification.go:112`. Nothing is sent twice, as
   the parts are recorded.
3. `SuccessIsStored` – an update that was refused and marked processed, and is then
   delivered again, is answered as a replay of a success: nothing was stored and the
   user is told it was saved (design, line 240).
4. `ConfirmationIsHeard` – the five confirmations above are always answered as stale,
   so items and projects cannot be completed, reopened, deleted, archived or restored
   (design, line 635).
5. `ReplayedDraftIsGone` – `editValueCallback` compares the nonce of a button with
   itself (`handler.go:745`). Edit an item, save it, begin to edit it again and press
   the button the first edit left on the screen: the new draft now has the first
   edit's nonce, its save finds the first receipt, nothing is stored, the draft stays,
   and the user reads "Perubahan disimpan." (design, lines 109 and 240).
6. `RetryAfterHonored` – the scheduler writes no pulse while it sleeps on a
   Retry-After. If it is longer than two minutes and the user is silent, the heartbeat
   ends the process, and the next one sends at once (design, line 414).

Seen while reading, and not behind a run:

- In the handler: `editPreview` and `editSelectors` have their conditions the wrong
  way round (`handler.go:675`, `682`), so an item's preview shows a project's fields,
  and the `moveproject` it offers for a project is refused at that step; the three
  saves drop the expiry that `GetState` returns (`handler.go:394`, `413`, `768`), so a
  draft that expired at its preview is still stored by its button (design, line 192),
  while no other step takes an answer for it (`ExpiredTakesNoAnswer`); a project
  created inside a backlog wizard carries its answers along and never returns (design,
  line 321); a new wizard overwrites a draft without asking (design, line 192);
  `/cancel` ignores an error of `ClearState`.
- In the lists: the default list is headed "Backlog aktif" but filters no status
  (`handler.go:208`, `504`) and is ordered by deadline first, where the design has
  active items in the order of the recommendation (line 336); the arrows of a filtered
  list carry no filter (`handler.go:515`, `518`), so its second page is the whole
  list's; the menu of projects reads by offset like the lists.
- In the digest: four sends per call where the design says to retry up to four times
  (line 414); a part per project even where all fit in one, the keyboard on every part
  and no label (line 401); each part's heading counts the part's items only; the
  branch for a single item counts characters (`recommendation.go:85`), which is
  harmless because names and titles are limited; `LimitText` could cut inside a tag,
  and is never reached for the same reason (`TextAssumption`).
- In the process: shutdown does not wait for the handler (design, line 417); a hung
  polling loop is not noticed while the scheduler beats, although
  `docs/OPERATIONS.md:97` says that polling failures end the process; receipts are
  never pruned (design, line 240); completing and deleting under a new nonce is
  refused rather than idempotent.

## What is left out

- Text: titles, notes, descriptions, deadlines, messages and keyboards, with their
  validation, escaping and formatting. A text is valid or refused; a deadline that has
  passed by the time of saving is the choice to fail in `CreateItem`; a length is a
  number in `Listing`.
- `render.go` cuts a long screen at a blank line or at 4096 units: pure text.
- `notification_run_items` is written with the parts and read only by a screen.
- The page of projects: LIMIT and OFFSET over one table, as the items' pages are.
  `Listing` presses the arrows of the last screen only; those of an older one open the
  page they name, as a new walk would.
- `store.go`: every migration is one transaction with its row in `schema_migrations`,
  before anything else runs, so that a crash leaves it applied or not, which is
  SQLite's promise and not this code's; a backup is one step of SQLite's online
  backup, checked and removed if it fails. A single connection makes every statement
  atomic, and the other modules use that.
- `healthcheck`, `integrity` and `backup` are commands in processes of their own, which
  read a file or the database.
- Configuration, the repository facade and the deployment files have no behaviour of
  their own; that compose restarts the process is the fairness of `Main`.
- Nothing in the code deletes rows of `processed_updates`, `mutation_receipts` or
  `callback_tokens`, so no action does.

## Where it can go on

The components with behaviour of their own are modelled. What would add to it: the
page of projects in `Listing`; a composition of `BacklogServices` with `Notification`,
so that the digest's snapshot is read from a backlog that changes; an abstract promise
for `Polling` and `Conversation` together, of a text that answers one question once.
