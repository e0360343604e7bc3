# email-samp in TLA+

A TLA+ model of the email-samp plugin: what it promises to the game scripts
that send mail through it, checked by TLC on small instances. The safety properties, and
that the send queue implements its two abstract specifications, are proved by TLAPS for
every instance; see *What is proved*.

All paths below are relative to the repository; "the worker", "the queue" and
so on are those of `src/sender.rs`.

## The system

A game server loads the plugin into its main thread. Scripts call natives
(`email_connect`, `email_send`, ...), which run on that thread. Mail is handed
to a queue; a pool of worker threads takes jobs out of it, talks to the relay
and puts the outcome into a channel; on each tick the main thread empties the
channel and runs the scripts' callbacks. Nothing is persisted: a crash of the
process loses the queue, and there is no recovery code to model.

| Component | State | Operations | What is hard about it |
|---|---|---|---|
| Send scheduler (`sender.rs`) | the queue (entries, next sequence number, closed flag) under one mutex; each worker's entry | submit, pick, attempt, requeue, shutdown | workers interleave between locks; retries keep their place; one account's outage must not delay another's mail |
| Queue accounting (`sender.rs`) | `queued`, `sent`, `failed` per account, `in_flight`, the result channel | check_room, finish, drain, poll_results | four atomics read without a common lock; a panicking attempt; a drain that must not lie |
| Condition variable (`sender.rs`) | who sleeps, and until when | notify_one, notify_all, wait with a timeout | a notification after the unlock; one that wakes one worker of several; a wait computed from a queue that has changed since |
| Account gate (`account.rs`) | next instant, connection failures | take, pause, recovered | several workers report one outage; a pause and a rate limit share one instant |
| Relay error classification (`account.rs`) | none | classify, is_retryable | which failures are retried, and which may have delivered anyway |
| Account table and error slots (`account.rs`, `error.rs`) | id → account, next id, global and per-account last error | connect, close, set/get/clear error, totals | ids wrap; a closed account still has mail in the queue; where an error is recorded |
| Drafts (`message.rs`) | handle → draft, next handle | create, edit, attach, take, destroy by script or by account | ownership by script, limits, handle wrap-around |
| Plugin and natives (`plugin.rs`, `natives/`) | the default account, loaded scripts, the tables above | every native, load and unload of a script, tick, unload | long sequences of legal calls: send after close, close before callback, unload in the middle |
| Pawn callbacks (`callback.rs`) | which script defines which public | fire_on_email_sent, fire_on_email_error | broadcasts go to every script, a named callback to the first that defines it, and any of them may call natives |
| Template cache (`template.rs`) | path → text, stamp | get, clear | a file edited between the stat and the read |
| Rendering (`template.rs`, `format.rs`) | none | render, escape, sections, format strings | what one reader writes the next may read again |
| Settings (`settings.rs`, `config.rs`, `options.rs`) | none | discovery, precedence, parsing | order of duplicate, unknown-key and url checks; two scanners that read quotes |
| Connecting (`account.rs`) | none | connect, build_transport | which settings decide where and how a password travels |
| Path sandbox (`sandbox.rs`) | none | resolve, normalize, read | the path is read twice, the disk many times, and both can differ |
| Addresses (`address.rs`) | none | validation | modelled by its outcomes, where it is called |
| Logger (`logger.rs`), generated include (`build.rs`, `include/`) | none | output, text generation | not modelled, see below |

How they interact: natives call the account table, the draft table and
`SendManager` directly on the main thread. A queued job keeps an `Arc` handle to
its account, so it is independent of the account table from then on: closing
the account removes its id and its drafts, and leaves its jobs and its gate
alone. Workers share three things with the main thread: the queue (a mutex and a
condition variable), the account's gate and counters (a mutex and atomics inside
the handle) and the result channel.

What makes each part correct, in a sentence:

- scheduler: every accepted job has one owner at a time, is tried within its
  account's retries and pace, and is not passed over for mail submitted long
  after it;
- accounting: counters say what is true of the jobs, a script told of an outcome
  finds it counted, and shutdown never reports an empty queue that is not;
- condition variable: a wake-up is never lost, though another job may use it up, and no
  worker parks on a queue that was closed;
- gate: neither a burst of failures nor a race between workers closes an account
  for longer than the documented maximum, and nothing reopens it early;
- plugin: a draft belongs to an open account and a loaded script, a native that
  fails leaves nothing behind, each error that is recorded lands where `email_errno` looks, and every
  script that listens hears of every message once;
- message build: what reaches the relay is within the size limit by what the
  files held when they were read, the same on every attempt, and free of
  smuggled headers;
- template cache: it serves what the file holds, unless the file hides its change;
- settings: the order in which a table iterates never decides, what is written in
  any style arrives as it is, and a password travels in the clear only when asked, or to
  a host whose name looks local;
- texts: what is put into a template is never read as part of it, and a section
  of a file is where its header says;
- sandbox: a path that is accepted names, on a disk that stands still, a regular file inside the
  server's folder, reached without a link; on Unix, what is then read has itself ended the path
  during the call, whatever links were put there meanwhile.

## Modules

| Module | Models | Role |
|---|---|---|
| `Gate` | `Gate` of `account.rs` | pure operators on a gate record |
| `Relay` | `classify`, `is_retryable` of `account.rs`; the transport's errors (external) | pure operators |
| `Scheduler` | queue, pick, attempt, requeue and shutdown of `sender.rs` | state machine; an abstract specification of the send queue, seen from the workers |
| `MailPromise` | what `SendManager` promises the plugin | the abstract specification of the send queue, seen from the plugin |
| `SendQueue` | `SendManager` and the plugin's calls into it | detailed state machine; implements `Scheduler` and `MailPromise` |
| `Plugin` | `plugin.rs`, `natives/`, `callback.rs`, the tables of `account.rs` and `message.rs` | state machine of the main thread, over `MailPromise` |
| `Wakeup` | the condition variable of `sender.rs` | state machine over `Scheduler`: its steps, and those of sleeping and waking |
| `MessageBuild` | the content of a draft and `message::build` | state machine of one message, from its draft to the relay |
| `TemplateCache` | `TemplateCache` of `template.rs`, `read` of `sandbox.rs` | state machine of the cache and the editors of its files |
| `Settings` | `settings.rs`, `connect` and `build_transport` of `account.rs` | state machine of one discovery and the account it opens |
| `Text` | the operations of `str` and `HashMap` the readers use (external) | pure operators |
| `ConfigText`, `VarFormat`, `TemplateText`, `SandboxPath` | `config.rs`; `format.rs` and `email_set_var`; `template.rs` but for its cache; `resolve` of `sandbox.rs` | pure operators |
| `Texts` | one call of one of those readers | its actions give a text that means something to a reader, its properties compare |
| `MC...` | | constants and symmetry for TLC |
| `Retain` | `Vec::retain` and `Iterator::filter` (external) | pure operator, of `Plugin` and `MessageBuild` |
| `SchedulerProofs`, `WakeupProofs`, `SendQueueProofs` | | theorems of the scheduler and its gate, of the condition variable, of the whole queue |
| `PluginProofs`, `MessageBuildProofs`, `SettingsProofs` | | theorems of those modules |
| `FilesProofs` | | theorems of `TemplateCache`, and of the settings, the sandbox, the templates and the rendering in `Texts` |
| `SequenceLemmas` | | lemmas about sequences: what `Retain` keeps, in which order and how often; what `FlattenSeq` joins; the fronts of a path |

`SendQueue` and `Wakeup` extend `Scheduler`, which uses `Gate` and `Relay`; `Plugin` extends
`MailPromise`, so what `Plugin` assumes of the queue is what `SendQueue` is checked to
provide.

### Scheduler

| Variable | Code |
|---|---|
| `now` | `Instant::now()`, in ticks |
| `entries`, `nextSeq`, `closed` | `Queue.entries`, `Queue.next_seq`, `Queue.closed`; a set, because `pick` orders it itself by (deadline, seq) |
| `lock` | the queue's mutex, where it is held between two steps of the model |
| `gate[a]` | the `Gate` inside the account's handle |
| `pc[w]`, `held[w]`, `outcome[w]` | where a worker thread is, its local `entry` and the result it computed |
| `log`, `picks` | history only: no guard reads them |

A worker of the code is a loop: `next_entry` (lock the queue, retire if it is
closed, `pick`, else wait), `attempt`, `finish`. The model cuts it where another
thread can get in between:

- `Scan` is the search of `pick`. The best eligible job leaves the queue. The
  code reads each gate under that gate's own lock for an instant and reads the
  chosen one again to spend a slot, so the scan and its end, `Take`, are two
  steps, with the queue locked throughout. A pause by another worker can land
  between them, and the model lets it.
- `Attempt` is what the worker does between the queue and its answer, with no
  lock held; it takes any time between `Take` and its outcome. It has one disjunct
  for each way out of `attempt` in the code: a dry run, a draft that cannot be built
  or a test's probe that gets no answer, acceptance, a relay error of any kind (with
  or without a copy left at the relay), and a panic, which the worker's
  `catch_unwind` turns into a failure without consulting the gate.
- `Requeue` is the push back into the queue, `Release` the end of the loop.
- `Enqueue` is `submit` past its checks, and spawns the pool the first time, as
  `ensure_workers` does; `Close` is the drop of the manager, `Retire` a worker
  that finds the queue closed.

`ForRetry` carries the two kinds of retry: after a refusal the entry itself is
held back for a delay that doubles, and after a connection failure the account's
gate is. `GateAfter` leaves the gate alone for a connection test, as the code does.

### SendQueue

It extends `Scheduler` with the counters, the channel and the main thread, and
splits `Release` into the four writes of `finish` and of the worker's loop, each
an atomic operation that the main thread can see half done: `Unqueue` (`queued`
goes down), `Count` (`sent` or `failed` goes up), `SendResult` (the channel),
`Settle` (`in_flight` goes down). `Submit` is one step: the main thread is the only
one that adds, and between its check of `queued` and its insertion workers can
only lower that counter. `Poll` and `Announce` are `process_pending_sends`,
`BeginUnload`, `Drained` and `Drop` the unload. Results that workers finish while the
unload drains stay in the channel: the code announces nothing after
`on_unload` begins, and neither does the model.

`ImplementsScheduler` is the refinement: with the three new worker positions mapped
to the scheduler's `finish`, every step of `SendQueue` is a step of `Scheduler` or
leaves its variables alone.

It implements `MailPromise` as well (`KeepsPromise`): the jobs that owe an answer are
those in the queue and those in a worker's hands that have not sent their
result.

### Wakeup

`Scheduler` lets an idle worker look at any moment. `Wakeup` says when it does: every
step of `Wakeup` is a step of `Scheduler`, or leaves its variables alone and puts a worker
to sleep or wakes one.

| Variable | Code |
|---|---|
| `until[w]` | the moment at which `wait_timeout` returns by itself, or `Awake` |
| `notifying` | the threads that have changed the queue, unlocked it, and not yet called `notify_all` |

`Sleep` is the end of `next_entry` when `pick` finds nothing: the wait it computes
(`WakeTime`: the earliest eligible moment, no later than `IDLE_WAIT`) is that of the queue at
this moment, and the wait releases the queue in the same step. `Submit` notifies one
worker with the queue still locked; `DropManager` and `PutBack` leave the notification for
`NotifyAll`, since the code drops the guard first. `WakeUp` is the end of the wait or a
spurious one. A comment of `sender.rs` says that every change of the queue wakes the
workers. `notify_one` wakes one of them: the others have computed their wait without the
new job, and one may sleep past the moment it becomes eligible. `WakesInTime`
says by how much: never more than `IDLE_WAIT`, and never for a message that goes back for a
retry, which wakes all.

`SomeoneLooks` says when this delays a job. While workers sleep, a queued job has a worker that
is up or sleeps no longer than it takes the job to become eligible; the one exception is a new
job whose wake-up went to another. Say B waits for its gate and the wake-up that a submission of C sends
takes a worker to C's relay, where it stays for as long as the transport's timeout. When
B becomes eligible the other worker may still be in a wait computed before B was there: B then waits
until that wait or that attempt ends. A worker that is at a relay is not counted as one that looks.

### Plugin

Everything here runs on the server's main thread, yet in no fixed order: natives
are called between ticks and from inside the callbacks a tick runs, scripts load and
unload, and answers arrive at any moment.

| Variable | Code |
|---|---|
| `accounts`, `nextAccount`, `globalError` | `AccountManager.accounts`, `.next_id`, `.global_error`; an account keeps its error and the identity of its shared handle |
| `defaultAccount` | `EmailPlugin.default_account` |
| `drafts`, `nextDraft` | `MessageManager.messages`, `.next_id` |
| `loaded` | `EmailPlugin.amx_list`, in order |
| `accepted`, `pending`, `channel` | the queue, as `MailPromise` |
| `batch`, `calls`, `running` | where `process_pending_sends` is: results polled, callbacks of the current one still to run, the script inside one |
| `mail`, `ran`, `failure`, `opened`, `created` | what was submitted; history and bounds |

A native is one step: `Setup`, `Close`, `NewDraft`, `Destroy`, `Edit`, `SendDraft`, `Test`,
`QuickSend`, with a partner for each way it fails (`...Fails`, `SendRefused`,
`InvalidMessage`), because failing writes the error slots. `Load` and `Unload` are `on_amx_load` and `on_amx_unload`. `OnTick` polls, `Announce`
settles the next result's error and determines its calls, `RunCall` enters the next
callback, `Return` leaves it. Between `RunCall` and `Return` the running script may
call any native. `CloseFails`, `LookupFails` (`email_status`, `email_stats`) and `DestroyFails`
are the failures that write no error slot.

What it assumes: scripts load and unload between ticks; a submission is refused
only when the account owes `queue_limit` jobs, or, for `EMAIL_PRIORITY_LOW`, may be refused
earlier; once `check_room` has passed, the submission succeeds, since only the main
thread adds. A call may be given up when its arguments do not fit the script's
heap. The drain at unload is `SendQueue`'s.

### MessageBuild

One draft under every edit, then its build on a worker, one attachment at a
time, while the server goes on writing its files (`Rewrite`), then up to
`Retries + 1` attempts. `Push` counts the sizes the files had when they were attached;
`Load` counts what it reads. `Kept` is what stays in the job for a retry, `attempts` what
the relay was handed. `Headers` starts from the sender, Reply-To and subject; a custom header
replaces the one of its name, as the transport library's `insert_raw` does. Texts are the classes the code distinguishes: empty, plain,
with the placeholder, and one that may not be in a header. What a dry-run account
does instead of transmitting is `Scheduler`'s.

### TemplateCache

`get` is cut at each look at the file: `Get` is the folders of the walk of `resolve`, `WalkEnds` the last
part of the path, `IsFileStill` its `is_file`; `Stat` and `Hit` are the stat and the comparison with the entry; `WalkAgain`, `Open`,
`Compare` and `Reading` are `sandbox::read`, which resolves the path a second time, opens it and
compares what it opened with what the path names by then; `Store` fills the entry. `EditFile` may come
between any two: it puts another file or a symlink at the path, a symlink in the place of a folder
above it, or nothing, with any
stamp, an old one included, since deploy scripts and coarse clocks do. A version is known by
its place in the path's history. The folders of a walk are looked at in one step. The constant `Unix` says which
`same_file` was compiled: that of Unix compares device and inode, the other returns true and
compares nothing. The run is of a Unix build; the theorems are of both.

### Settings

`Environment`, `File`, `NoFile`, `Url` and `Connect` choose a source and fill `raw`; `Merge` folds
one key at a time into `values`, in any order, as the hash table iterates; `Conclude`
is the rest of `from_map`: unknown keys, the expansion of `url=`, host and values. `Refuse` and
`Open` are `AccountManager::connect`: the sender, the password that must not travel in the clear, the
certificate file, and the port that follows the encryption. `IsLocal` is `is_local`, on hosts cut at their dots
(`Labels`). Which hosts are this machine in truth (`ThisMachine`) is for the resolver to say: assumed
is only that `localhost` and `::1` are. The instance has a `127.` host that is this machine and one that is not.

### Texts

The readers of text are functions without state, translated as operators on
sequences of symbols: a symbol is a character, or a word that no reader looks
into (`title`, `[subject]`). `Texts` is a machine of one call. Its inputs are what an author means, such as two
settings and how each is written; an action writes that down (`Setting`, `TemplateSource`,
`TemplateFile`), gives it to the reader, and the property compares what comes back with what
was meant. The writers are the specification: what `config.rs`, `template.rs`, `format.rs` and the documentation
say of quotes, escapes, braces, sections and specifiers.

- `ConfigRoundTrip`: a value arrives as it is, in each of the styles in which it may be
  written (`Fits`), in a file and in a settings string, and takes nothing of the setting behind it.
- `FilledOnce`: a template, the value of a variable (formatted or not) and the arguments put
  into it are each read once. Escapes, lone braces and unknown names stay what they were.
- `SectionsApart`: each section's text is what stands between its header and the next, with
  any kind of line break; an unknown section goes nowhere; the last of two alike counts.
- `CheckedIsTheFile`: on a disk with symlinks, the path that `resolve` returns
  leads, by the system's own rules, to a regular file under the root, through no symlink.

### What the models abstract

- Time is a natural number of ticks; `RETRY_DELAY` is one tick in every
  instance. The clock stands still while the queue is locked, since
  the lock is held only across a scan of memory.
- The doubling of a pause is read from a table (`Doublings`) of the seventeen
  shifts the code allows.
- In `Scheduler` and `SendQueue` a wait on the condition variable is a worker that has not
  looked yet: `wait_timeout` with `IDLE_WAIT` makes it look again whatever the notifications
  do. `Wakeup` has the waits themselves.
- Message contents, log lines and error texts are left out. Of a relay's error
  the model keeps its class and whether the relay may hold the message.
- The branches for a poisoned mutex are left out: no code panics while holding
  one of these locks (the attempt, where a panic is possible, holds none).
- In `Settings` a key is what `normalize_key` leaves of it, and a value only empty,
  unusable, a URL or something else: the grammar is in `ConfigText`. The percent-decoding
  of a URL and the ranges of the numbers are not modelled.
- In `Texts` white space is four characters, a number is one symbol, and a float
  prints as the places asked for. `Precisions` has the digits that are a number to the
  code: with others (`%.99999999999999999999d`) a specifier counts as one without a precision.
- A file is read in one step. A read of a file that is half written yields a
  version of its own in `TemplateCache`; a read torn across two writes is not modelled.
- A draft's priority is not in `MessageBuild`; it is in the other modules. A custom header whose name the
  library refuses although `email_add_header` took it is skipped by the code (`message.rs:202-206`); `AddHeader` takes only
  names that the library accepts as well. The headers of an attached part (file name, content id) are the library's.

## Runs

Passing runs take from a few seconds to about two and a half minutes with two workers. All of
them say `CHECK_DEADLOCK FALSE`: with the bounded number of jobs answered, the clock
at its bound and no unload, or once a message is sent or a setting refused, the
system rightly has nothing left to do.

| Run | Instance | Shows |
|---|---|---|
| `scheduler_safety` | 2 workers, 2 accounts (one dry run), HIGH, LOW and tests, 2 jobs, 1 retry | `TypeOK`, `OneOwner`, `RetriesBounded`, `NoOvertaking` |
| `wakeup` | 2 workers, 2 accounts (one rate-limited, interval 3), mail only, pause up to 2, idle wait 2, 2 jobs, 1 retry, shutdown at any moment | `RetrySpacing`, `LockoutBounded`, `RateSpacing`, `SomeoneLooks`, `WakesInTime`, `NobodyParked` |
| `sendqueue_counts` | 2 workers, 2 accounts (one dry run), mail and tests, 2 jobs, unload at any moment | `InFlightExact`, `QueuedExact`, `OneHome`, `CountedBeforeTold`, `SentMeansDelivered`, `DrainTruthful`, `KeepsPromise` |
| `sendqueue_live` | 1 worker, 2 jobs, 1 retry, unload at any moment, under `FairSpec` | `EventuallyTold`, `ShutdownEnds`, `ImplementsScheduler` |
| `plugin_safety` | 2 scripts, 2 accounts, 2 drafts, handles up to 2, 1 job | `NothingDangles`, `DefaultStays`, `FailureExplained`, `SentOrStillYours` |
| `plugin_live` | 2 scripts, 1 account, 1 draft, 2 jobs, under `FairPluginSpec` | `CalledOnce`, `EveryListenerHears` |
| `message_build` | 1 file (attached any number of times) and data, sizes 1 and 2, limit 3, 1 custom header, 1 rewrite, 1 retry | `WithinLimit`, `SameOnRetry`, `NoSmuggledHeader`, `EveryPartOnce` |
| `template_cache` | Unix, 1 path, 2 files, 3 stamps, links at its end and above it, 3 changes | `ReadIsChecked`, `FreshUnlessStampRepeats`, `ClearForcesRead` |
| `settings_sources` | every source of up to 2 of 18 settings, 4 URLs, 3 addresses, local and `127.` hosts | `NoCoinFlip`, `DialsAsWritten`, `ClearOnlyByChoice` |
| `texts` | values of up to 3 of 11 symbols in 4 styles, 2 forms; templates of up to 3 parts, values of up to 2 and a percent sign that ends them; files of up to 3 sections; paths of up to 5 parts on a tree of 8 nodes | `ConfigRoundTrip`, `FilledOnce`, `SectionsApart`, `CheckedIsTheFile` |
| `scheduler_probes` | 2 workers, 3 jobs, no rate limit | a violation of `OneProbePerPause` |
| `settings_typo` | as `settings_sources` | a violation of `NoSilentKey` |

Why the bounds are enough for the question each run asks: two workers are the
least that can meet on a gate, a counter or a job, and the workers are symmetric;
two jobs are the least that can overtake, share an account's slots, or be in
two places; in `sendqueue_counts` the dry-run account has room for one job and the other for
two, so that a full queue that refuses a job occurs; that a limit of four is the least of which LOW
leaves something is the business of the theorem `QueuedAlwaysExact` alone, since this run sends no LOW mail and that part of `QueuedExact` has nothing to say in it; one retry gives a job a first attempt that may be followed and a last one that may not; the
pauses and intervals are of different lengths, so that each can be the one
that decides. The priorities concede 0, 1 and 2 ticks, and with HIGH and
LOW alone both orders occur within the clock's bound: NORMAL, which the other
runs send, differs from them only in its number. `Horizon` bounds only the time that passes while nothing waits: the
clock may always reach what a queued job waits for. `CounterMax` stands for
`u32::MAX` and is never reached.

In `Plugin` two scripts are the least that can own drafts of each other's accounts
and both define a callback; handles that end at two wrap within the run; one job
in `plugin_safety` is enough because its properties relate the tables at one
moment, and `plugin_live` has two so that one result waits while another is announced.
In `Wakeup` the idle wait of two ticks is longer than a retry's delay and shorter than the
interval of the limited account, so that either can end a sleep.
In `MessageBuild` a limit of three with sizes one and two lets two or three parts fit and
one grown file break the limit; a file holds anything before it is attached, so one
rewrite, between attachment and build or between build and retry, is what each
property needs. Three versions are the least in which a
`TemplateCache` entry can be stamped with one version, hold another and be compared
with a third. In `Settings` two settings make a pair of spellings or a URL with a
sibling.

### Fairness

`FairSpec` assumes weak fairness of each worker's next step, of the tick that
polls and announces, of the drain's loop and the drop after it, and of the
clock. Worker threads are scheduled by the operating system and an attempt
ends because the transport has a timeout; the server calls `on_tick` as long as
it runs; `drain` sleeps 50 ms at a time; time passes. Nothing is assumed of
scripts, of the relay's answers, or of whether the server unloads. `EventuallyTold`
makes an exception for an unload: announcements stop there.

`FairPluginSpec` assumes that workers answer (what `EventuallyTold` shows of the
queue), that the server ticks, and that a callback, once entered, returns. Nothing
is assumed of what scripts call.

### Disagreements with the documentation

Two runs exhibit something the code does and a comment or document denies:

- *One probe per pause* (`scheduler_probes`). The module comment of `sender.rs` and
  `docs/sending.md` say an outage costs one probe per pause. A pause moves the
  account's gate to one instant, and when it comes every idle worker may pick a
  message of that account. Up to `WORKER_COUNT` probes follow one pause.
- *No silent key* (`settings_typo`). `README.md` and `docs/configuration.md` say an
  unrecognised key is an error, never a silent no-op. `from_map` looks for
  unknown keys before it expands a `url=` value and not after, so a misspelled
  parameter inside `SMTP_URL` or `url=` is ignored. The same URL given to
  `email_setup` directly is refused.

Others were met while modelling; the models follow the code and no run is spent on
them:

- a quote in a value without double quotes around it (`from_name=O'Brien`) is a character of the value
  in a file, and opens a quotation for the splitter of a settings string, which then takes the next
  `;` for text (`config.rs:54`), although "one parser means one set of rules for a password, wherever it was
  written" (`config.rs:31`); `Fits` leaves such values out of the inline form;
- `IDLE_WAIT` is called "only a safety net: every change to the queue wakes the workers anyway"
  (`sender.rs:44-46`); `submit` wakes one worker (`sender.rs:280`), and when that one takes another job the
  idle wait of the others decides when the new job is seen (`SomeoneLooks`);
- "the opened file's identity is compared with the checked one's, and a mismatch is refused"
  (`sandbox.rs:81-84`); `same_file` (`sandbox.rs:100-109`) compares it with what the path names after the open, so a regular
  file put there since the walk is read, and so is one behind a folder that became a link;
- "replacing a file with a symlink in between does not get past it" (`docs/security.md:44`); where
  the system is not Unix nothing is compared (`sandbox.rs:113-116`) and a link put there between the walk and the open is followed
  (`ReadIsChecked` says both);
- a password in the clear to a host that is not this machine "is refused outright" (`docs/security.md:56`, and
  `account.rs:286-289`, `account.rs:362`); `is_local` takes every name that begins with `127.` and
  goes on (`account.rs:368-370`), a name in the DNS included (`ClearOnlyByChoice`);
- the text of a section loses leading line breaks as well, although only the trailing one is said to go
  (`template.rs:181`);
- the quarter of the queue kept from LOW (`sender.rs:85`) is computed by integer
  division, so a `queue_limit` of one to three keeps none;
- a connection test whose attempt panics is counted in `failed` (`sender.rs:339`),
  although a test is said to count in neither (`sender.rs:511`);
- `email_close`, `email_status` and `email_stats` of an account that is not open, and `email_destroy` of a dead
  handle, return false without recording an error (`natives/account.rs:56`, `natives/account.rs:85`,
  `natives/account.rs:119`, `natives/message.rs:42`), unlike what `docs/errors.md:7-21` says of every native;
  `email_errno()` then tells of an older failure (`FailureExplained` excepts the four);
- after the default account is closed, `email_is_account()` is false although other
  accounts are open (`natives/account.rs:62`);
- `email_stats` over every account leaves out what closed accounts sent;
- a handle that wraps onto a live draft replaces it; that takes two thousand million
  drafts.

## What is proved

Every safety invariant and action property of `Scheduler`, `Wakeup`, `SendQueue`,
`Plugin`, `MessageBuild`, `TemplateCache` and `Settings`, both refinements of `SendQueue`,
and all of `Texts`. A theorem holds for every number of workers, accounts, scripts,
files, jobs and messages, and for every value of the other constants that satisfies the named
assumption of its module; the runs check the same definitions on small instances.

Each proof has the same form: an inductive invariant, one lemma per action that the
action keeps it, and the theorem as a consequence. The invariants and why they are needed:

### Scheduler (`SchedulerProofs`; `SchedulerAssumption`, `GateAssumption`)

| Theorem | States | Inductive invariant |
|---|---|---|
| `TypeCorrect` | `TypeOK` | `TypeInv` |
| `OneOwnerAlways` | `OneOwner` | `OneOwner` with `TypeInv` |
| `LockoutAlwaysBounded` | `LockoutBounded` | `PaceInv`: `Holder`, `ReadyToTake`, `GateRemembers` and the property |
| `RateAlwaysSpaced` | `RateSpacing` | `PaceInv` |
| `RetriesAlwaysBounded` | `RetriesBounded` | `TriesInv` |
| `RetriesAlwaysSpaced` | `RetrySpacing` | `SpacingInv` |
| `NeverOvertaken` | `NoOvertaking` | `OrderInv` |
| `PauseLengthBounded` | a pause never exceeds `MAX_PAUSE` | none: a fact of `Gate` |

- `TypeOK` is not inductive: a worker that puts its entry back must hold one.
  `TypeInv` adds `Owned`: a busy worker holds an entry, and every job in the queue
  or in a worker's hands has a number below `nextSeq` and a history. One lemma
  per action shows what the action does to the workers; the later invariants cite
  those lemmas rather than the actions.
- `OneOwner`: a new job's number is unused because all used ones are below
  `nextSeq`, and every other action moves one entry between the queue and one worker,
  or changes it in place.
- `LockoutBounded` alone is not preserved by `Take`, which adds an interval to the
  gate's instant. It holds because the scan saw the gate open, and since then only
  a pause can have closed it (`ReadyToTake`); no second slot can be spent in between
  because the queue is locked (`Holder`), and a pause never exceeds `MAX_PAUSE`.
- `RateSpacing` follows from `GateRemembers` (the gate is never earlier than the last
  slot plus the interval: pauses only move it later and a recovery leaves it alone).
- `TriesInv`: of a job that waits, the attempts made and the retries left are no more than
  the account's retries (`ToTry`); of one at the relay, which has begun an attempt, one more
  (`Trying`), and this attempt has left no copy there yet.
- `SpacingInv`: what keeps a refused job back is written in its entry; what keeps one back
  after a connection failure is the account's gate, which other workers may pause again
  but never open early.
- `OrderInv`: every deadline is the moment of submission and the allowance of the priority,
  and a retry changes neither (`Genuine`). What was the best of a locked queue when it was
  scanned is still the best when its slot is taken (`Urgent`): until then a job can at most
  stop being eligible.

### Condition variable (`WakeupProofs`; `WakeupAssumption` besides)

`WakeupAssumption`: there is a worker, the main thread is none of them, the idle wait is
positive.

- `WakeupImplementsScheduler`: `WakeSpec => Spec`, so every theorem above holds with
  sleeping workers; `WakeupKeepsPace` says so of `LockoutBounded`, `RateSpacing` and
  `OneOwner`;
- `SomeoneAlwaysLooks`, `WakesInTimeAlways`, `NobodyParkedAlways`.

The three properties are inductive on top of `SleepInv`, which adds to the types that a
sleeper is idle and owes no notification, that it sleeps no longer than the idle wait,
and that a job on its way back is marked as built. For `SomeoneLooks`, a retry is watched by all who are idle; a new
job begins with the one that `notify_one` wakes, and a worker stops watching only by going
to sleep no longer than the job has to wait, or by taking a job, and then it is one that went by (`NewJobsStep`). Two
lemmas carry the argument.
`WakeTimeBounds`: the wait is no later than any queued job's moment; the minimum exists
because sets of numbers are well ordered (`LeastNumber`).
`EligibleOnlyLater`: no step makes a queued job
eligible earlier than a sleeper computed, because a gate is never moved back, not even by
a recovery. Without that second fact a recovery would be a wake-up that nobody sends.

### Send queue (`SendQueueProofs`)

- `SendQueueImplementsScheduler`: `SendSpec => ImplementsScheduler`. The three positions in which
  a worker has finished its attempt but not all of its bookkeeping map to the scheduler's
  `finish`. The inductive invariants of the scheduler then hold of the queue (`Inherited`), through an
  instance of `SchedulerProofs` with that mapping; all that follows rests on them.
- `SendQueueKeepsPace`: `RetriesBounded`, `NoOvertaking`, `RetrySpacing` and `LockoutBounded` hold of
  `SendSpec` as well.
- `PromiseKept`: `SendSpec => KeepsPromise`. The jobs that owe an answer are those at certain places
  of the way (`OnTheWay`), which a submission adds to, `SendResult` takes one from, and
  nothing else changes. `OneOwner` is what makes it one.
- `InFlightAlwaysExact` and `QueuedAlwaysExact`: a counter equals the size of a set of jobs (`FlightInv`,
  `QueuedInv`), and each write of `finish` takes exactly one job out of exactly one of the sets.
  `QueuedExact` also says that the waiting jobs of LOW, and of LOW and NORMAL together, never exceed
  what `check_room` allows these priorities (`LevelsOK`, inductive because a counter of all jobs is no
  smaller than one of some). `BulkLeavesAQuarter` is what that amounts to: while only LOW waits,
  `queue_limit / 4` places are free for other mail, none of them if the limit is below four.
- `OneHomeAlways`: `HomedInv` says of all places of a job (the queue and the workers' hands, the
  channel, the batch being announced, the list of those told) that they are apart and are
  everything that was submitted.
- `DrainAlwaysTruthful`: `DrainInv` joins the two: a counter of zero is a set that is empty, so when
  the unload ends with nothing lost no job is on its way.
- `CountedAlwaysBeforeTold`: `CountedInv` compares the counters with the jobs whose outcome is decided,
  from `Count` over the channel and the batch to the announcement.
- `SentAlwaysDelivered`: `SentInv` ties an outcome to the history of its attempts, on its way through the
  same places.

### Plugin (`PluginProofs`)

- `NothingEverDangles` and `DefaultAlwaysStays` from `TablesInv`, which adds what the loaded
  scripts and the handles are. Handles may wrap and may replace a draft.
- `FailureAlwaysExplained` from `FailureInv`, for every failure but the four that record nothing: the property is inductive once the tables are sound;
  the answers that arrive until the next call touch neither of the two error slots.
- `AlwaysSentOrStillYours` under the hypothesis `MaxCreated <= HandleMax`, from `CounterInv`: no handle
  is given twice. The hypothesis is needed. After `i32::MAX` drafts a handle
  comes round again, and a one-liner would replace a live draft and then destroy it. The
  run's own instance satisfies it; below that number of drafts it costs nothing.
- `NothingEverForgotten`: the safety half of `EveryListenerHears`. `NothingForgotten` says of each step that a
  result leaves the channel and the batch only when every loaded script that defines the
  two broadcast callbacks has a call of its own for it (`AnnounceReaches`), and that a call leaves `calls` only into
  `ran`, which has the calls that were made or given up (`RunRemembers`).
- `PluginKeepsPromise`: `PluginSpec => PromiseSpec`. What the natives and the tick do to the queue is
  what `MailPromise` allows. With `PromiseKept` the two sides meet: the send queue and the
  plugin are each proved against the same specification.
- `AlwaysCalledOnce` from `MailInv` (a job not announced is in one of queue, channel and batch, and
  once) and `CallsInv` (only of an announced job was a call made or is one due; the calls of a
  job are in their order, and none that is due was made, nor its named one).

### Message build (`MessageBuildProofs`)

- `AlwaysSameOnRetry` from `RetryInv`: what is kept for a retry is what the first attempt sent.
- `AlwaysWithinLimit`, `NeverSmuggledHeader` and `AlwaysEveryPartOnce` from one invariant in four parts:
  `DraftInv` (what a draft can be made of), `LoadedInv` (what was read so far is the beginning of
  `LoadOrder`, within the limit), `RetryInv`, and `FaithfulInv` (what is kept, and each
  attempt, is a whole build of this draft). That every attachment is sent once is a count: `partition`
  splits a sequence into two, and `RetainCount` shows that each member is in one of
  them as often as it was in the whole.

### Settings (`SettingsProofs`)

- `NeverCoinFlip` from `TableInv`: the canonical table holds for each setting the value of its only
  key among those merged so far, in whatever order; a second spelling fails before it is
  written. It is the source that the call asks for, and no other (`OriginInv`).
- `AlwaysDialsAsWritten` and `ClearAlwaysByChoice` from `AccountInv`: the settings an account was
  opened with are those of the expanded table, and the account is what `connect` makes of them. For
  a host that `is_local` accepts, `SettingsAssumption` leaves two cases: it is this machine, or its name begins with `127.`.

### Files (`FilesProofs`; `DiskAssumption`, `DigitsAssumption`, `TextAssumption`)

- `ReadAlwaysChecked`, `AlwaysFreshUnlessStampRepeats` and `ClearAlwaysForcesRead` from `CacheInv`: for each position
  of `get` it says of the call which versions of the file its stamp, its open file and its text can
  be of, and of a Unix build that the file of one of them stood at the end of the path; of each entry, that its stamp was seen at its version or before. A version never
  changes once it is history (`SameHistory`).
- `AcceptedAlwaysTheFile`: `TextSpec => []CheckedIsTheFile`. `resolve` reduces a path by arithmetic
  first and looks at the disk afterwards; the system looks at the disk at each part. The two
  agree because of `Passable`: everything on the way to a path is there and is no link. A part that the system
  follows leads where the arithmetic says and keeps the way passable (`FollowStep`), so by induction over the parts
  it leads to the normalised path (`LeadsToPassable`); a path that `resolve` accepts is passable
  (`AcceptedPassable`), and the system follows a passable path to its end (`PassableLeads`). `DiskAssumption`
  says what a file system is (whatever is there is in something that is no file; the names
  are not dots) and that the server folder has no link on its way, since
  `canonicalize` returned it; `TextAssumption` that a request is made of names and dots.
- `AlwaysFilledOnce`: `TextSpec => []FilledOnce`, for templates and values of any length over any
  symbols. The invariant `MailInv` is that what was rendered is what was meant; the work is in the two readers,
  each followed part by part. `Composed` says that a template is the join of what its
  parts are written as. A round of `Render` that starts where a part ends copies the plain parts
  before the next brace (`PlainRuns`), reads the part with that brace whole (`PartAtBrace`), and stops where
  that part ends, with what the parts mean written so far (`NextRound`); what a value holds is in the output
  by then and is not looked at. No part is written as nothing, so `Render` has rounds enough
  (`RoundsEnough`). Of a value, `Means` says that when its first k parts are read, the
  pieces and the text in hand, filled with the arguments, are what those parts mean, that there are as many holes as
  arguments used, and that a piece is raw when one of those parts was. Each of the forms of a part keeps that
  (`PartRead`, with `UnfilledNext` and `FilledNext`), and what is begun at the end of the
  value becomes text (`EndRead`). `TextAssumption` says what a template and a value are made of: symbols and keys
  without braces; characters, doubled percent signs, specifiers with their argument, and a percent
  sign before a character that says nothing. `DigitsAssumption`: a digit is none of the letters of a specifier.
- `SectionsAlwaysApart`: `TextSpec => []SectionsApart`, for any number of sections with bodies of any
  length. The reader goes line by line, the author wrote section by section; the proof follows the
  file symbol by symbol. `HasRead` says of what was written so far, as the editor saves it: what the lines that
  have ended told the reader, the line that is open, and whether a known section has begun. A symbol makes the
  open line longer (`HasReadSymbol`), a line break is one step of `OnLine` whatever the editor puts
  before it (`HasReadBreak`). So the preamble leaves the reader where it was (`PreambleRead`), a body is what is
  buffered and the open line together (`BodyRead`), and after k sections what would be flushed is
  what is meant by those k (`SectionsRead`). `TextAssumption` says what an author writes: a body holds no header
  and no carriage return of its own, what stands before the first section ends its line, one section is known.
- `AlwaysRoundTrip`: `TextSpec => []ConfigRoundTrip`, for two settings with values of any length over any
  symbols. A value that fits its style (`Fits`) is followed through both readers of a value. `ReadsTo` is the state of
  `unescape` behind a text, `InState` that of the scan of `split_statements`; one symbol is one lemma
  about each (`NoEscape`, `EscapeCloses`; `BehindQuiet` and its like), and a style is an induction over the value
  (`SingleWritten`, `PlainWritten`, `DoubleWritten`, `LooseWritten`). The two must agree: a value in double quotes
  is read as it was, and the scan is outside quotes again where it ends, with nothing cut (`Stays`). `FittingWritten` is
  the four of them together. A setting is read as its key and its value (`SettingReads`), by
  the positions of its parts (`SettingSays`) and the first `=` of the line; blanks around it change nothing.
  A file of two settings has two lines (`FileOfTwo`, by the state of `lines` after each symbol), a string
  of two has one cut, at the separator (`StringOfTwo`). `TextAssumption` says what a setting is: blanks
  and perhaps `export `, a key without blanks, quotes, `=`, `#` or `;`, any value; between two, a line break, or in a string
  one `;` or line break among blanks.

### How the proofs reason about data

An induction over a number is one over a set of numbers (`NumbersInduction`): the least
number that is not in the set (`LeastNumber`, from the library's theorem that inclusion
of finite sets is well-founded) would not be reached. So no theorem with an operator as parameter is used. Recursion in what is proved about is by recursive functions:
that such a function exists is an induction of its own (`NormalizesExist`, `LeadsExist`, and the
same for `Retain`, `FlattenSeq`, `Render`, `ParsePieces`, `Pieces`, `ReadLines`, `Scanned` and `ReadEscapes`). Where a text stands in what was
joined is a matter of positions (`Joins`, `JoinsGrow`). `Retain` stands where `SelectSeq` would, whose test is an operator.

### What is only model-checked

- Liveness: `EventuallyTold`, `ShutdownEnds`, `EveryListenerHears`. The prover has no ENABLED.

## What could come next

The modules and the runs are complete as far as the program's own logic goes; what stays out
is listed below. Every safety property the runs check is a theorem, and so is the refinement; the
liveness properties wait for a prover that knows ENABLED.

## Not modelled

- The SMTP transport (`lettre`) is external: only the outcomes an attempt can have.
- The characters of an address, which the transport's library parses: `MessageBuild` and `Settings`
  have the values that may become a header or an address as classes. `logger.rs` decides nothing; `build.rs` and `include/` generate text at build time.
- Of a URL, the `url` crate's parsing and percent-decoding: `Settings` takes a URL as its parts. Of the
  options, the ranges of the numbers: a value parses or does not.
- MIME types, file names and the encoding of attachments, which the transport's library builds.
- Reading Pawn's strings (their code page) and the memory of a script, which the SDK does.
