# Postulo, modelled and proved

TLA+ specifications of Postulo, a self-hosted application for people looking for work, kept beside
its code. They say what happens when several requests, plugins, workers and scheduler passes write
the same rows, which properties hold whatever the order, and under which conditions the others do.
TLC checks every property on small instances; TLAPS proves the safety properties for every
instance.

All paths below are under `src/src/postulo/` of the repository.

## The system

Postulo is a Django application. Its processes share a database, a cache and a directory of files,
and nothing else:

- **web requests**: pages (`*/views.py`) and the API (`api/routers/`), each handler in one
  transaction or in none;
- **the scheduler**: one pass every few minutes, from `send_due_reminders --loop`, from cron or by
  hand, kept apart by a lease in the cache (`core/scheduler.py`);
- **the worker**, where there is one, which performs errands (`core/errands.py`);
- **commands**, such as `backup`, which take no lease and no lock;
- **plugins**, which run inside all of them: stores, notifiers, sync connections, webhooks.

On SQLite every write transaction begins immediate, so handlers that write are serial. On
PostgreSQL they run at READ COMMITTED and interleave, which is what the models are about: a
handler holds rows it read earlier, locks some, updates some conditionally and saves others as it
holds them. What a pass, a worker or a command does outside of a transaction interleaves on any
database.

### Inventory

| Component | State it keeps | Operations | What makes it correct | Modelled by |
|---|---|---|---|---|
| Applications and timeline (`applications/services.py`, `views.py`, `models.py`, `endings.py`, `api/routers/applications.py`, `interviews.py`) | status, `applied_at`, `closed_at`; timeline entries; interviews with an outcome; offers; the reminders of both | `change_status`, interviews scheduled, settled and moved, offers recorded, revised and withdrawn, edit forms, deletion | the log accounts for the status; both dates follow from it; interviews and offers only move forward; nothing rings for what is over | `Timeline`, `StatusHistory` (partly: no notes, contacts, tags) |
| Reminders (`applications/services.py`, `api/routers/reminders.py`) | due, done, retired, announced stamp | create, later, done, not done, place, retire, delete | a tick is kept; one that is moved rings again; a retired one does not | `Reminders` |
| Scheduler pass (`send_due_reminders.py`, `core/scheduler.py`) | lease, list in hand | begin, read, stamp, tell, end | each thing said once; what is due is dealt with; a dead pass does not stop the next | `Reminders`, `SaidOnce` (partly: its other duties are with their components) |
| Document copies (`documents/archiving.py`, `signals.py`) | status, attempts, retry time, claim | schedule, pass, Send now, outcome | one sender; taken once, and again only when an answer was lost; never lost; goes with its document | `DocumentCopies` |
| Errands (`core/errands.py`, `core/tasks.py`) | waiting, working, done, failed; the queue | send, perform, finish, fail interrupted, forget | begun once; done is not taken back; never working for ever | `Errands` |
| Webhook deliveries (`notifications/webhooks.py`) | rows by key, attempts, retry time | enqueue, claim, deliver, record, forget | taken once, and again only when the sender was not told; the row says what its senders were told; sent or given up on | `Webhooks` |
| Notifications (`notifications/slow.py`, `service.py`) | nothing of their own | tell, notify | what is said to be done has left a row; what a person did is heard of | `Notices` composes the two above (partly: webhooks only) |
| Backups (`core/backups.py`, `backup.py`, command `backup`) | archives, lock, slot and the settings row it is in, verdicts, rows for the destination | slot, take, retention, check, delete, queue, the settings form | a slot once; one at a time; what waits for the destination is kept; the last good one stays | `Backups` over `Shipments`, `Vault` (partly: no uploaded archives, no restore) |
| Off-site copies (`core/offsite.py`, `offsite_queue.py`) | one row per archive, what is at the destination | enqueue, send again, claim, upload, record, retention there | uploaded once, and again only when the answer was lost; what is called sent is there; one stays there | `Offsite`, which implements `Shipments`, and `Vault` |
| Accounts (`accounts/`, `core/server_views.py`) | accounts, ranks, invitations, the sign-up setting | sign up by the form or through an identity provider, first account, invite, revoke, promote, demote, deactivate, delete | an invitation is one account; the first leads; somebody administers; invitations go with their issuer | `Accounts` (partly: no addresses, sessions, recovery links) |
| Suggestions, quiet and closing announcers, API idempotency, sync connections, groups, captures, files, plugin record, rate limits, rendering, import and export, analytics and search | see *Not modelled* | | | no |

### How they meet

- Every status change, from a page, the API, an import, an interview or an offer, goes through
  `change_status`, which locks the row; what decided on the change (`_catch_up`, `record_offer`)
  looked at the caller's copy.
- Scheduling an interview or recording an offer makes a reminder; settling, moving, revising and
  withdrawing tick it off or move it. The scheduler reads reminders and stamps them.
- A document that is created schedules its copies by signal; a connection that is removed drops
  the ones it still owed by signal; a document that is deleted takes its rows along by cascade.
- What a person does is told of by an errand sent once the change is committed; the worker that
  performs it makes rows for webhooks; a pass delivers them.
- A backup that is written queues a row for the destination; local retention leaves alone what
  such a row waits for; the sender of the row applies the retention at the destination.
- Deleting an account takes its errands, connections and rows along by cascade, and its pending
  invitations by hand.
- Under its lease a pass does reminders, quiet applications, closing listings, copies, webhooks,
  syncs and the sweeps of errands, sessions and files; an exception in one of these ends the pass,
  and the lease is given back. After the lease, and outside it, it starts the scheduled backup and
  the off-site sending, whose exceptions are caught (`send_due_reminders.py:233-262`).

### What is hard to test

The hazards with their lines are in `PROJECT.json`. They are of seven sorts: decisions from a
stale copy, or saves of one (edit forms, `_catch_up`, `record_offer`, `withdraw_offer`,
`postpone_reminder`, `add_reminder`, the settings form); calls to stores, receivers and
destinations that take effect and whose answer is lost; the gap between a list and the stamp, the
claim or the deletion that follows it; leases and locks that run out under their holder or outlive
it, and the get-then-delete that gives them back; processes that die between the two halves of a
delivery; a check and a write in two statements (a key without a row, another administrator,
another archive that opens); rows deleted under a save.

## The modules

Each family has the code's module, an `MC` module that gives the constants their values for TLC,
and a `Proofs` module.

**`StatusHistory`** is what a timeline promises: a standing, a history, and a move that appends an
entry from where the application stands. **`Timeline`** is the code. A request is `Load` (the rows
it fetches go to `copy[r]`) and then one action per handler, which writes from `copy[r]` and from
the rows as they are where the code locks them; `Leave` is a refusal or a rollback. One action per
handler is right because the handlers are transactions, and the only things a handler sees of
others in the middle are the rows it locks. `row` is the Application row, with dates as positions
in `log`; `log` its status entries; `diary` the entries about interviews and offers; `nudge` the
reminder of each interview. Reminders to answer an offer are numbered, since a revision may make a
second one: `bell` is the reminder column of the offer's row, `answers` the numbers that are still
to ring, `made` the last number given, `lost` the last one that went with a deleted application.
`WithdrawOffer` and `ReviseOffer` go by the column, and by the state of the reminder, that the
request loaded (`copy[r].bell`, `copy[r].ringing`), as the code does. `ServiceSpec` has the
services alone, `KeptSpec` adds the edit forms, `Spec` the deletion and the form that was open
meanwhile. `outdated` is history: it has `"place"` once an interview or an offer was judged by a
status the row no longer had, `"dates"` once a form was saved over dates other than those it was
drawn with, `"log"` once a form put a deleted row back without its timeline. `overtaken` has the
offers that were revised or withdrawn from a copy that was not the offer, or not its reminder, by
then. No handler reads them; properties name them as the exception.

**`SaidOnce`** is what an announcer promises. **`Reminders`** has the writers, with a copy each;
and the passes, which interleave with them at every step: lease, list, stamp, message, and the two
calls that give the lease back. A *turn* counts the promises to announce: made, or moved. It is a
history variable, since the code has only the stamp; `crossed` is another, the reminders written
while a pass had them in hand. `Expire` is the cache's timeout, `Kill` a process that dies,
`Raise` an exception that leaves the pass. `forgotten` is history too: the reminders whose stamp a
plugin put back to none, because it placed the entry again from a copy older than the stamp. They
are what `SaidOnce` calls `lost`, and of those it promises nothing.

**`DocumentCopies`** has one document's copies and the senders. A sender's list holds what it
read; `ReadBatch` takes any of the due ones, because the batch of a pass is filled by other
documents' copies too. `Claim` is the conditional update; `Put` is a store that answers, and
`Fails` an attempt that raises, before the store was called, or in it, or after it had taken the
document; `Record` the save of the whole row from the sender's copy. `SwitchOwner` deactivates the
account and back. `tries` counts recorded outcomes, `accepted` what stores took, `unheard` what of
that they were not heard to have taken: all are history variables. So are `outlasted`, the copies
whose lease of fifteen minutes ran out under a sender or whose sender died between a put that was
taken and its record, and `givenBack`, those whose attempts Send now set back to none. `PassSpec`
is without Send now.

**`Errands`** has the rows, the queue of their numbers, and the performers: workers, and requests
that perform an errand themselves where no worker is expected or the queue refuses. `Perform` is
the one look at the row; `Start` and `Finish` are updates by number that look at nothing.
`EnqueueRaises` may leave the number in the queue. `FailInterrupted` and `ForgetErrands` are the
sweeps, `Ageing` the day and the week they go by. **`Webhooks`** has the rows of one connection in
the order of their retry times. `Ask` and `Make` are the two halves of `enqueue`; `ReadHooks`
takes the batch; `ClaimHook` compares the retry time, which the model keeps as `asread`, the set
of the rows whose retry time is still the one the pass read; `Post` and `RecordHook` are the post
and the save from the copy (a post that fails may have been taken all the same: `told` counts
those a receiver took and said so, `silent` those it took and its sender was not told);
`PolicySkips` and `PolicyWaits` are the two places where the policy is asked again. **`Notices`**
composes them: the performers of errands are the announcers, and `notify` is the handler between
`Start` and `Finish`. `RaiseInNotify` is an error of the secrets or of the row that `notify` notes
on the connection and swallows, `RaiseOutOfNotify` the one case in which it cannot, because the
connection has gone. `dropped` has the errands whose message was lost by the first, `unheard`
those that no connection was on for.

**`Shipments`** is what the rows of off-site copies promise local retention: a copy waits until it
has arrived, what has arrived waits no more, what was removed stays so, unless a sender was cut
off. **`Backups`** is the code over that promise: the slot read and claimed, the lock added,
looked at and deleted, an archive written under the name it keeps, the archive looked for and its
row made (`FindToQueue`, `Queue`; for a person `AskSend`, `SendFirst`, `SendNextTime`), retention
in three steps (list, leave out what waits, delete), verification, and deletion in two (ask,
unlink). `LoadSettings` and `SaveSettings` are a form of the settings, which saves the whole row
and with it the moment of the last slot as it was loaded, or now where it changed the schedule;
`putBack` counts, for each slot, the saves that put that moment back to before it. `byHand`,
`late`, `crossed`, `overran` and `slipped` are history: deletions by a person, rows queued when
retention had settled on the archive or deleted it, deletions decided side by side, locks that ran
out, locks given back. **`Offsite`** is the sender: read, claim, seal, store, record, list,
choose, delete, note, one action each, with what it read in `send[s].was`; its rows implement
`Shipments`. `Fail` is an attempt that ends badly, before the destination or after it stored the
archive; `Escapes` one that raises before anything is written; `DeleteRefused` a deletion that
raised, whether it took effect or not; `Installs` the plugin taken away or put back, without which
no pass reads a row. `sentAt` is the moment the attempt began, told apart up to `MaxMoments`
(`Later`, `IsNow`). `arrived` has the archives that reached the destination and were not then
reported as failed, `twice` those that reached it again, `unsaid` those it deleted without saying
so, `cut` those whose sender was cut off. **`Vault`** composes the two. It extends `Offsite`, and
instantiates `Backups` over the states of `Offsite`'s rows; they meet where a taker queues what it
wrote (`QueueArchive`), where a person sends an archive (`SendUnqueued`, `SendQueued`), and where
a sender opens the file it is to encrypt (`SealArchive`, which needs the file to be there and to
verify). Everything else is a step of one beside the other.

**`Accounts`** has requests that are the reads they decide by, one action each, and then one that
commits; rows a request locked are in `req[r].holds`, and the settings row that the first sign-up
locks is `sentinel`. `Arrives` is a request with its session and, it may be, a provider's word
(`asserted`), and the setting as it is remembered for that request (`door`); `SignUp` is let in by
the form and holds the invitation's row, `SignUpAsserted` by the provider and holds none.
`AutoSignUp` is the operator's setting that the provider is the invitation. `made` is history: the
accounts each invitation let in. So is `vouched`: the accounts a provider spoke for that an
invitation let in and that were not the ones to spend it. `uneasy` says that two removals were
decided side by side, `stray` has the invitations issued while their issuer was being deleted.

## The runs

Deadlock checking is off in all of them: bounds on entries, attempts and accidents stop an
instance, and a system with nothing to do rests.

| Run | Specification, instance | Shows |
|---|---|---|
| `timeline_all` | `Spec`, 2 requests, 1 interview, 1 offer, 2 reminders to answer it, 3 entries, 2 statuses asked for | with deletion and stale forms: the log accounts for the status unless a row was put back without it, and nothing rings for what is over unless a revision and a withdrawal crossed |
| `timeline_kept` | `KeptSpec`, 2 requests, 2 interviews, 1 offer, 2 reminders to answer it, 4 entries, 4 statuses asked for | stale copies and forms: `Timeline` implements `StatusHistory`; both dates follow the log until a form saves older ones; interviews and offers only move forward unless judged by a status left behind |
| `reminders_all` | `Spec`, 2 writers, 1 pass, 2 times, 2 turns, 1 kill | ticks kept; nothing silenced and only what is outstanding announced, but for what was written while a pass had it in hand |
| `reminders_fair` | `FairSpec`, 1 writer, 2 passes, 2 times, 2 turns, 1 kill | each turn announced once unless its stamp was forgotten (`SaidOnce`); what is due is dealt with; the loop keeps going round |
| `copies_all` | `Spec`, 1 copy, 2 senders, 2 attempts, 3 recorded, 1 kill | one sender, taken once and once more for each answer lost, sent stays sent, claimed only as it was read, each but for the copies the histories name |
| `copies_fair` | `FairSpec`, 2 copies, 1 sender, 2 attempts, 2 recorded, 1 kill | what is owed is settled or held back by a switch, the policy or its owner's deactivation |
| `notices` | `Spec`, 1 errand, 2 performers, 2 passes, a batch of 1, 2 rows, 2 attempts, each row taken silently once at most, 1 crash, 1 cut | work begun once, done stays done, done has left a row unless nobody was on or an error was swallowed; a delivery taken once and once more for each time its sender was not told, its row says what the senders were told |
| `notices_fair` | `FairSpec`, the same with 1 pass, none taken silently (which changes nothing a pass can see) | errands settle, deliveries settle, and what a person did is heard of in the end |
| `backups` | `Spec`, 2 takers, 2 archives, 1 kept, 1 slot, and of accidents, settings forms, requests to send and to delete one at a time (the constraint `Few`) | a slot taken once unless a form put the last one back, one backup at a time, what waits for the destination is kept, the last good archive stays |
| `offsite` | `FairSpec`, 2 senders, 2 archives, 2 attempts, 1 kept there, 1 Send again, 3 moments, 1 cut | uploaded once and once more for each time that was not heard, what is called sent is there, one stays there, the rows implement `Shipments`, nothing waits for ever once the destination is installed to stay and attempts raise no more |
| `vault` | `VaultSpec`, 1 taker, 1 sender, 2 archives, 1 attempt, 1 kept here and there, 1 slot, 2 moments, 1 mishap, the destination installed | beside `Offsite`, `Backups` still is `Backups`; what was queued is here, at the destination, or removed there by its retention |
| `accounts` | `Spec`, 3 people, 1 invitation issued once, 2 requests, `AutoSignUp` off, registration opened once and not where removals are decided side by side (the constraint `Few`) | an invitation is one account besides those a provider spoke for too late, the first leads, somebody administers, invitations go along |

The bounds. Two requests are enough for each hazard of the timeline: one that read, one that wrote
in between; a third only adds another writer in between. Three or four entries hold a move, an
ending and a reopening. Where the application is deleted they ask for two, an open status and an
ending; elsewhere the statuses people ask for are four, one of each kind the code tells apart (on
the board and sent, at the end of it, two endings of which one is not a sending); interviews reach
the statuses in between. Two reminders to answer are the one an offer came with and one a revision
makes from a copy that had none. Two writers are a person and a plugin, each with a copy the other
makes stale, beside one pass; two passes and two turns let a reminder be announced, moved and
announced again by a pass that lost its lease. A plugin places an entry again only until the first
announcement, since what it clears could be announced without end. Two attempts stand for six or
eight: the code compares their number with the limit and with what was read, and two have a first
failure that is retried and a last one that is not. One errand with two performers is a worker and
a request that both have its number; two rows let two announcers make one each for the same key,
and a batch of one lets a pass leave a row behind it; the proofs have any batch. Two archives and
one that is kept are an archive that is rotated away by a newer one. `Few` of `MCBackups` keeps a
request of a person and an accident apart, which the proofs put together again; that of
`MCAccounts` keeps an opened registration and two removals apart, of which neither looks at the
other. Three moments date each archive and one that is sent again; two takers are two schedulers,
or a scheduler and the command. The vault has one taker and one sender: two of a kind are in the
runs of its halves, and what it adds is one of each beside the other. One kill, one cut or one
crash is enough to leave a lease, a lock or a claim behind, and a second only repeats it. Three
people and two requests are two administrators that remove each other, or one that removes both of
the others, beside a sign-up.

Symmetry is used where requests, writers, passes, workers, copies or senders are alike, and never
in a run that checks liveness.

Fairness. A scheduler pass that has begun goes on, since every wait in it has a timeout; the loop
begins another; the cache drops a key at its timeout, and time passes for leases, retry waits and
the age of errands. A worker that has an errand in hand goes on or is killed; nobody has to start
a worker, so a number may stay in the queue for ever and it is the sweep of the scheduler that
settles the errand. Nothing is assumed of people, plugins, receivers or stores beyond an answer or
a timeout, and a killed process is never obliged to come back. `copies_fair` further has an
attempt end before its lease, and a copy that is due again and again read in the end (strong
fairness of `Comes`): lists are in the order of the next attempt, so what was tried goes behind
what waits. A destination may come and go, and an attempt may raise, as often as they like;
`WaitsNotForEver` is of those behaviours in which from some moment on it stays and none does
(`StaysPut`).

### Where code and words part

What follows is in the models as what the code does, and is the reason why a property names an
exception or is stated for a part of the schedules.

- An interview recorded from a copy read before a rejection reopens the application, although the
  docstring of `settle_interview` (`applications/services.py:787`) says that holding one "never
  moves one that is settled"; `record_offer` does the same. `CatchUpOnlyForward` holds until one
  is judged so (`"place"` in `outdated`).
- The edit form puts back the closing date it loaded (and `applied_at`), where
  `applications/services.py:138` has the dates follow the status. `ClosedWhenSettled` and
  `AppliedWhenFirstSent` hold until a form does (`"dates"`); no schedule of the services alone
  does it.
- Withdrawing an offer ticks off the reminder of the offer as it was loaded
  (`applications/services.py:1302`), and revising it from a copy that had no reminder makes a
  second one (1245-1253): where the two cross, a reminder rings on for an offer that is gone,
  though the docstring of `withdraw_offer` says that it ticks it off. `NoNudgeWhenOver` excepts
  such an offer (`overtaken`).
- The form of a deleted application inserts it without its timeline (`EditDeleted`): `LogAgrees`
  holds until one does (`"log"`).
- A reminder that is moved after a pass read its list is stamped on its new time
  (`applications/services.py:1009`), one retired, ticked off or whose account is deactivated in
  that window is announced: `NotSilenced` and `OnlyOutstandingAnnounced` except `crossed`.
- A plugin that places an entry again from a stale copy has it announced again (`Place`): the
  reminder is `forgotten`, and `AnnouncedOnce` makes no promise of it.
- Send now resets what a claim compares, so a pass claims a copy that was tried since it read it,
  where the docstring of the claim (`documents/archiving.py:250`) requires "the copy to be as it
  was read"; `ClaimedAsRead` excepts what is `givenBack`. A sender that outlasts its lease may
  hand a document over twice, and put another outcome over one that is sent (`outlasted`).
  Recording an outcome brings back the row of a deleted document, and raises out of `send_copy`
  when the connection is gone.
- Any exception of a store, a time-out or a server error of a receiver, and any exception or an
  answer without a place of the destination is a failure that is tried again, whether it came
  before the thing was taken or after (`documents/archiving.py:188`,
  `notifications/webhooks.py:164`, `core/offsite.py:360-367`). It is taken once more for each such
  answer (`unheard` of `DocumentCopies`, `silent`, what leaves `arrived`), and `AcceptedOnce`,
  `TakenOnce` and `UploadedOnce` say: never besides. A deletion at the destination that took
  effect and was not heard leaves a row that says sent (`core/offsite.py:460`, `unsaid`).
- `notify` notes an error of the secrets or of the row on the connection and swallows it
  (`notifications/service.py:106-111`): the errand is done and left nothing to retry (`dropped`).
- Two announcers at once both make a webhook row for one key; a key whose row was forgotten, or an
  interview moved away and back while its row stands, is not told of again.
- A form of the settings saves the whole row from a copy it loaded without a lock
  (`core/views_backups.py:104-126`, `core/models.py:1647`; so do the other forms of that row), and
  may put back the moment of the last backup over a claim: the slot is taken again (`putBack`).
- A backup that outlasts the lock is beside the next one, and may delete its key between the look
  and the deletion (`overran`, `slipped`).
- Local retention may delete an archive that another backup queued, or whose send failed, after it
  looked, since looking for an archive and making its row are two steps as well (`late`); a person
  may delete one that waits (`byHand`). Two deletions of archives, a deletion beside a retention,
  or of one half written, may take the last that opens (`crossed`).
- `send_one` "never raises", says its docstring (`core/offsite.py:286`); it does where there is no
  room for the encrypted copy (336) and where a truncated archive ends early (`core/backup.py:644`
  catches `TarError` alone). No attempt is counted and the lease is left to run out (`Escapes`),
  so a row that meets this every time is tried for ever; `WaitsNotForEver` holds from when it does
  no longer. The same exception leaves the verdict of `Verify` as it was.
- A sign-up through an identity provider reads the invitation without holding it
  (`accounts/social_adapter.py:62`). One that finds it spent when the account is made is let in
  all the same, since `pending_invite` is then none and nothing is refused, where the docstring of
  `consume_invite` (`accounts/signals.py:99`) has "An invitation is one account". `InvitationOnce`
  excepts the account that did not spend it (`vouched`).
- Two removals decided side by side, of one administrator each, leave nobody, where the docstring
  of `accounts/deletion.py` says the last administrator is not removed (`uneasy`).
- An invitation issued while its issuer is being deleted outlives it (`stray`).

The first four and those about accounts need PostgreSQL's interleaving; the others happen on any
database, since passes, senders and commands hold no transaction across their work.

## The proofs

Every safety property that a run checks, invariant, action property or refinement, is also proved,
for every value of the constants and of the specification the run checks or a weaker one. A proof
module extends the component's module, proves the types first, then an inductive invariant and
that it implies the property. TLC checked each invariant on the instances above before it was
proved. What makes them inductive is said here, since the properties alone are not.

**`TimelineProofs`.** `LogAgrees` is inductive beside the types: each handler that changes the
status appends from where the row stands. In `KeptSpec` it makes of each step one of
`StatusHistory`, or one that leaves its variables alone; a deletion is none, so only that theorem
is of `KeptSpec`. Every other one is of `Spec`. `ClosedWhenSettled` and `AppliedWhenFirstSent` are
said of a row and its log, kept by what changes a status and by what leaves both alone; a form
that writes the dates the row has keeps them too, and one that writes others is outdated.
`ServicesKeepDates` adds that without forms none is. For `CatchUpOnlyForward`, `MovesForward` says
that entries made by interviews and offers lead up the board: the caller's status was the row's,
or the place was outdated. `Silent` adds to `NoNudgeWhenOver` that a copy in hand that says an
interview is over is of one whose reminder has been ticked off, since an old form puts back the
outcome it was drawn with (`SilentCopies`), and that of an offer that is not `overtaken` the only
reminder that may ring is the one its row names (`SilentOffers`).

**`RemindersProofs`.** Two passes are under way at once only after an overrun. `AnnouncedOnce`
needs, of reminders that are not `forgotten`, that no notice is ahead of its reminder's turn and
that of each turn one pass at most has the right to speak (`OnceInv`): the stamp is conditional on
the time read, and a move starts a turn. A plugin's `Place` clears a stamp without one, and what
it clears it forgets. `Known` adds to `NotSilenced` that what a pass has in its list is due unless
it is in `crossed`, and that the stamps in the copies writers hold are of the times beside them.

**`DocumentCopiesProofs`.** All of `Spec`, copy by copy, for those not in `outlasted`. `Told` is
how often a store said that it took the document: what it took, less what was not heard. `Alone`
(one sender), `Held` (its row is claimed and not sent, and nothing was said to be taken before
it), `Taken` (that is at most one, and in a sender's hand, in the row, or the connection is gone)
and `Missing` (why a row is not there) hold only together: a second acceptance would need a row
that is not held. `EvenRow` and `EvenRead` say, where attempts were not given back either, that
the attempts of a row are the outcomes recorded on it, and were in what was read of it; a claim
compares the attempts, and so the outcomes.

**`NoticesProofs`.** `Orderly` says that of an errand the queue did not keep there is one number
about, in the queue or with one performer, and that two who have one in hand are noted. `Heard`
adds that who asks for a row is at the errand whose key it is, and that a handler that has
returned has left a row, or its errand is in `unheard` or `dropped`. `Sent` is about the rows: one
whose retry time is as a pass read it is due and as it was read (`Fresh`); one that is due is in
nobody's hands, one that is in somebody's has one sender, stands as that sender has it, and a
receiver has said that it took it only if the sender says so (`InOneHand`); what is recorded as
taken was said to be (`Truly`). What a receiver took in silence changes nothing that a pass can
see, so the invariant is about `told` alone. `Lined` is about their order: the line holds each row
that is due, once, and nothing else, and an open row has attempts left and a retry time. With
`Sent` it gives `OwedRowsComeUp`: a row that is owed has a retry time to come, a sender's lease to
run out, or a place in the line where a pass with a batch to fill finds it; this is the safety
half of `HooksSettle`. `HookClaimedAsRead`, a row is claimed only as the pass read it, is proved
and not in a run: it follows from `Fresh`, on which the others rest.

**`BackupsProofs`.** `SlotsCounted` (a slot was claimed at most once while the row says so, and
once for each time the row was put back to before it), `HoldsLock` (a backup under way that asked
for the lock has it, or it ran out), `Kept` (what retention has chosen does not wait, or the copy
came late). `LastIsSafe` says for each deletion in hand why another archive that opens is left: a
person's is alone and has another beside it; a retention is beside none of those, has enough newer
ones above what it deletes, and leaves one that opens; what is half written is not known to open.

**`OffsiteProofs`.** `Ordered` says for each sender what its step entitles it to: who has claimed
a row is alone in it, what is stored is there, what has arrived and not been reported as failed is
in a sender's hand or recorded, what retention has settled on was sent; what is called sent is
there, in the moment of its deletion, or in `cut` or `unsaid`. `LastThere` follows the newest
archive that was ever recorded, with its date: no retention that keeps any settles on it,
whichever listing it looks at, while nothing was uploaded twice (`twice`). That the rows implement
`Shipments` is proved step by step: each is one of its actions or a stutter.

**`VaultProofs`.** `VaultKeepsOffsite` is at once: but for the file, a step of `Vault` is one of
`Offsite` or leaves it alone. `VaultKeepsBackups` is the other direction. A step of a sender must
be one that `Backups` allows the rows: `Beside` has for that the invariant of `Offsite`
(`Ordered`), that what is sealed was whole (`Whole`), and that what is cut is counted. So the
theorems of `BackupsProofs`, which are taken over the rows of `Offsite`, hold beside the senders;
`QueuedIsKept` is `WaitingIsKept` for what waits, and `Ordered` for what has arrived.

**`AccountsProofs`.** `Leading`: sign-ups that hold the sentinel are queued, so the one who
becomes the administrator sees everybody. `Spending`: rows that are held are held apart, a sign-up
by the form holds the invitation it was let in by, and of those an invitation let in (`Came`,
without `vouched`) there is no more than the one it is spent on. It is proved for `AutoSignUp` on
and off. `GoingAlong`: a deletion that has swept has left no pending invitation but those issued
since. `Administered`: a removal that was allowed counted on somebody who still administers, or
another removal was decided beside it.

The assumptions are the named ones of the modules: sets of numbers and bounds are what they are
said to be, the value for nobody is not somebody, archives are finitely many and ordered as their
names are, interviews and offers are rows of two tables, announcers are the performers of errands.
TLC evaluates all of them in the runs. Bounds are constants, so what is proved holds for any
bound; bounded history counters only cut schedules short.

Only model-checked are the liveness properties, which the prover cannot reach: `ErrandsSettle`,
`HooksSettle`, `HeardInTheEnd`, `CopiesSettle`, `DueIsDealtWith`, `KeepsGoingRound` and
`WaitsNotForEver`.

## Not modelled

Within the modelled components:

- *Timeline*: notes, contacts, tags, documents sent along, wording; the fields of an application
  other than status and the two dates; the hour of an interview. Row locks are not state: a
  handler that waits for one runs after the other, and one that a deadlock rolls back is `Leave`.
- *Reminders and passes*: how a notifier delivers, which is within the one step that tells; the
  limit of a pass's list.
- Every write the code makes to its database is taken: an insert or update that fails for want of
  the database is a process that is killed.
- *Copies*: the file, its name at the store and what is rendered into it.
- *Errands*: what handlers do, except `notify`; the library of the queue is the set `tasks`.
- *Webhooks*: the body, signatures and addresses; the doubling of the retry time, of which only
  that it comes is kept; several connections, which share nothing but the pass; rows without a
  key, which are never asked for. *Notifications*: notifiers that deliver at once, the inbox,
  mail.
- *Backups*: archives a person uploads, restore, the expiry of verdicts in the cache, two archives
  made in the same second, which would share a name; what else the settings forms write; the
  hand-over of a claimed slot to the queue, which is taken to be the same taker going on.
- *Off-site*: partial uploads, which destinations discard; how a destination lists; another
  destination chosen, or none, under rows that wait for the first.
- *Accounts*: accounts made from the console, addresses and their confirmation, and so which
  address an invitation is bound to; sessions; the race of two recovery links, requests for an
  account's deletion that are not carried out.

Components that are not modelled, for the reasons `PROJECT.json` gives: suggestions, which call
the services of `Timeline` from a loaded copy; quiet applications and closing listings, which
announce as reminders do, over another column; API idempotency, which the uniqueness of a row
decides; sync connections, whose lease and stamp are those of the scheduler again; groups, which
are queries; captures and listings, one request over one person's records; files and their
integrity; the plugin record and installing; rate limits, which may be approximate; rendering,
import and export, analytics, tables, search.

The greater part of the source is forms, views, schemas, parsing and rendering, of which nothing
happens between two steps; the modelled part is the code in which it does, and is small beside it.

## What is left of the plan

In the order in which it would add most: suggestions composed with `Timeline` (accept and decline
decide from a loaded copy, so that both may be carried out); the quiet and closing announcers as
implementations of `SaidOnce`; the lease of a sync connection; the idempotency row with a request
that dies between its row and its answer; the sweep of files beside an upload; what two recovery
links do. Row locks, for the deadlock of two settlements, would need a model of handlers in
several steps.
