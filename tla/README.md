# A TLA+ verification of lingo-async

lingo-async is the SQS-driven worker of Open Lingo: a Lambda function that takes
events off the `lingo-events` queue and applies their side effects (XP credits
and quest progress through callbacks into lingo-core, leaderboard increments in
DynamoDB, an audit log), plus an operator's script that moves dead-lettered
messages back. This directory holds TLA+ models of that code, the TLC
configurations that check them, and TLAPS proofs about them.

To check a model, `tlc -config worker_effects.cfg MCAsyncWorker`; to check the
proofs of a module, `tlapm AsyncWorker_proofs.tla`. `PROJECT.json` lists the
runs, the source lines of each definition, the hazards and the findings.

## The system

| Component | Source | State it keeps | Operations |
|---|---|---|---|
| Dispatch loop | `app/handler.py` | the batch, the record in hand, `batchItemFailures` | `lambda_handler`, `_dispatch`, `_safe_save`, `_safe_update_status` |
| Contracts | `app/contracts/messages.py` | none | `parse_event`, `_unwrap_kombu_envelope` |
| Handlers | `app/handlers/*.py` | none | one `handle` per event type |
| Leaderboard updater | `app/leaderboard/updater.py` | rows in DynamoDB, each with a TTL | `update_leaderboard`: bucket names and TTLs, two `ADD`s |
| Quest evaluator | `app/quests/evaluator.py` | `_quests_surface_unmounted`, per container | `evaluate_quests_for` |
| Event log | `app/db/**` | rows of a sqlite file or a DynamoDB table | `save`, `update_status`, the constructor |
| Core client | `app/http/lingo_core_client.py` | none of its own | `_request`, behind `add_xp`, `list_quests`, `bump_progress` |
| Circuit breaker | `app/http/circuit_breaker.py` | state, failures, opening time, per container | `allow`, `record_success`, `record_failure` |
| DLQ replay | `scripts/dlq-replay.py` | counters of a pass; the two queues | `replay` (dry run, apply), confirmation |
| Internal token, boot probe | `app/http/internal_token.py`, `app/handler.py` | cached token, per container | `resolve_internal_service_token`, `_verify_internal_token_on_boot` |
| Local consumer | `app/local_consumer.py`, `app/run_local.py` | a counter; the sqlite log on disk | `handle`, the start of the process |
| Configuration, build, deployment | `app/config.py`, `scripts/build*`, workflows | none | none at run time |

SQS invokes `lambda_handler` with a batch. For each record the loop parses the
body, saves a log row, runs the handler, and updates the row. Whatever raises
puts the record into `batchItemFailures`; SQS deletes the other records,
redelivers the reported ones, and dead-letters a message after
`maxReceiveCount` deliveries. The handlers call into lingo-core through the core
client, whose breaker all calls of a warm container share, and write the
leaderboard directly. The Lambda scales out: several containers run at once, and
the queue, lingo-core, the leaderboard and the log are shared among them. On a
developer's machine `LocalConsumer` takes the place of SQS and Lambda: it gives
the same loop batches of one and acknowledges or rejects each.

What is hard here is not any single function but what lies between them: the
queue delivers at least once, no effect is idempotent, a container can be killed
between any two effects, a callback that times out may have been applied, and
the latch, the cached token and the breaker carry what one event learned over to
later ones. Five clocks that know nothing of each other count the same seconds:
the request timeout, the breaker's cooldown, the Lambda's time limit, the
queue's visibility timeout, and the calendar that names the leaderboard's rows. What
makes each component correct:

- *Dispatch loop*: nothing is deleted that was not done; nothing done is held
  back by a neighbour; poison ends in the DLQ; every message settles.
- *Handlers, leaderboard, quests*: every effect owed happens before the
  acknowledgement; a failed credit never causes a second leaderboard entry or
  quest step; what redelivery multiplies is bounded by the deliveries.
- *Event log*: a row never says `ok` of something that failed; a failing log
  never disturbs dispatch; the rows of a finished message say so.
- *Core client and breaker*: a call tells the caller the truth; nothing is sent
  that was not admitted; an outage is probed and forgotten.
- *Leaderboard buckets*: boards turn over at midnight of the right days, New Year
  included; a redelivery days later leaves rows that agree with each other.
- *Outages*: a rejected message does not come back to a breaker that still
  rejects; an outage of ordinary length kills no message.
- *Internal token*: what the boot probe reports is what the callbacks will see;
  a rotated token is picked up.
- *Local consumer*: what is acknowledged was done; nothing loops, nothing sticks.
- *DLQ replay*: nothing is lost; only what was asked for moves; duplicates have
  a cause; a run ends.

## The modules

| Module | Models | Role |
|---|---|---|
| `CoreCall` | the result of a callback | contract between `CoreClient` and `AsyncWorker` |
| `RemoteCall` | no code | the abstract call that `CoreClient` implements, EXTENDS `CoreCall` |
| `CircuitBreaker` | `circuit_breaker.py` | the methods as actions |
| `CoreClient` | `lingo_core_client.py` `_request` | EXTENDS the breaker, adds the retry loop and lingo-core |
| `Outage` | the breaker, `_request`, `lambda_handler`, and the queue, in time | EXTENDS the breaker; the only module with seconds |
| `WireFormat` | `_unwrap_kombu_envelope` | operators on layered texts |
| `Events` | `parse_event`, and what each handler owes | EXTENDS `WireFormat`, operators on bodies |
| `EventsRepo` | `db/` | operators on the rows of the log |
| `AsyncWorker` | `handler.py`, `handlers/`, `updater.py`, `evaluator.py` | composes `CoreCall`, `Events` and `EventsRepo` with queue, containers and lingo-core |
| `Delivery` | no code | the abstract contract `AsyncWorker` implements |
| `LocalConsumer` | `local_consumer.py`, `run_local.py` | composes `WireFormat` and `EventsRepo` with a broker and a process |
| `Calendar` | Python's `datetime`, as far as `updater.py` uses it | operators on dates |
| `LeaderboardBuckets` | bucket names and TTLs of `updater.py` | EXTENDS `Calendar`, a clock and one award |
| `InternalToken` | `internal_token.py`, the boot probe | one container and what it talks to |
| `DlqReplay` | `dlq-replay.py` | the script between two queues |
| `MCAsyncWorker`, `MCDlqReplay`, `MCLocalConsumer` | | values of constants for TLC |
| `*_proofs` | | theorems, each module about the one it is named after |

A definition whose name begins with `Broken` is a slip the code could contain.
No specification uses it; `PROJECT.json` names, for each checked property, the
slip that makes TLC refute it, which shows that the property depends on the code.

### CircuitBreaker and CoreClient

`state` and `failures` are `_state` and `_failures`. Of `_opened_at` the code
only uses the distance to now, so `elapsed` keeps that distance, in ticks,
saturated at the cooldown; `failures` saturates one above the threshold (named
bound `FailureCap`), since only the comparison with the threshold is ever made.
`Allow`, `RecordSuccess` and `RecordFailure` are the methods; `Reject`, `Begin`,
`Succeed`, `FailPermanent`, `FailTransient` and `Resume` are the ways through
`_request`: rejected by the breaker, admitted, a 2xx (whose body may still fail
to parse), a non-transient error that the breaker does not hear of, a transient
error that it does, and the return from `time.sleep`. `core` goes up and down at
any time. `applied` counts how often lingo-core carried the request out: a lost
answer may or may not have been.

`RemoteCall` is what remains of all this for a handler: a call is refused on the
spot, or it is made and later returns with one of the outcomes of `CoreCall`.
`CallSeen` instantiates it with "`pc` is not idle" for a call under way, and
`ImplementsCall` is the refinement. `AsyncWorker` draws the results of its
callbacks from the same `CoreCall`, so that the two modules meet in it.

A container runs one request at a time, as the Lambda runtime does, and a cold
start is a new behaviour from `Init`.

### Outage

The breaker's actions are those of `CircuitBreaker`; around them is one
container that receives batches, and a tick is one request timeout of 5 seconds
(`CORE_CLIENT_TIMEOUT`, the connect and the read timeout of a request taken as
one). The settings are those of `config.py` and
`DEPLOY.md`: cooldown 30 s, time limit 30 s, visibility 60 s, 3 deliveries. Only a
request that hangs takes a tick; refusals, good answers and the backoffs, which
sum up to less than a second, take none. `core` hangs or refuses by turns during
one outage of any length up to `MaxOutage`. A request that was under way while it
hung (`hung`) may stay without an answer until its timeout, and that may come
after the end of the outage: the failure counts against the breaker all the
same, and may open it when lingo-core has been back for up to 5 s
(`lingo_core_client.py:98-106`). `Kill` is the time limit, which
takes the breaker with it. `untested` and `late` are history: the messages that
were rejected and whose dependency nobody has called since, and the failed
deliveries after the end of the outage.

What happens within a tick is not told apart, so that each bound in seconds is
good to one tick. The boot probe of a cold start is left out. It bypasses the
breaker (`lingo_core_client.py:133`), but one that hangs delays a container's first
invocation by a request timeout while its batch is invisible already
(`handler.py:121`), and the deployed visibility timeout has no room for that (60 s
= 30 s + 30 s). The properties of this module leave that delay out.

A message stands for a delivery with one callback. An award with a credit and
three bumps makes up to five; that changes the length of an invocation, which
the model bounds by `LAMBDA_TIMEOUT` whatever its records do.

### WireFormat, Events and EventsRepo

A text is a sequence of layers, `base64`, `envelope64` and `envelope` around an
event, other text, or bytes that do not decode; what kombu's SQS transport makes
of an event (`KombuSqs`) is `<<"base64", "envelope64", "event">>`. `Unwrap` peels
as the code does: it looks for an envelope in the text, then in the text without its base64, and
takes exactly one off; where it finds none, the text stays as it came. A payload
that calls itself base64 and is none raises something other than
`ValidationError` (`UnwrapRaises`, `Escapes`). A body is a record of a text and
the fields that the code branches on. `FirstEffect`, `AfterCredit` and
`AfterBoard` give the order in which a handler goes through the effects it owes.

A log row is `[id, at, status]`, `at` standing for `received_at`. The operators
return the *set* of stores a call may leave: an unreachable store is unchanged,
because the loop swallows the exception either way; sqlite refuses the second
insert of an id; the DynamoDB update finds any row of the id, or none if its
index lags. `AsyncWorker` uses both backends, `LocalConsumer` only sqlite, as
`ConsumerAssumption` says.

### AsyncWorker

Each element of `Workers` is a container. `pc` is `idle`, `loop` (between two
records), one of the stages `credit`, `weekly`, `monthly`, `quests`, `bump`, or
`record` (the effects are over, the status update is due). The steps are split
where another container, lingo-core or a kill can come between: one action per
remote call. Reading a body, its validation, the save and the choice of the next
stage are one step (`Accept`, `RejectInvalid`), since only the save is visible
outside. Which record is next is left open, which is more than the code does: it
goes through the batch in order, and SQS gives the batch in any order.

`xp`, `weekly`, `monthly` and `bumps` count, per message, how often an effect
happened; they are history as well as the stores' content, as nothing in the
program reads them. A failing effect may have been applied up to `MaxAttempts`
times (`WriteAttempts` for a DynamoDB request that boto3 repeats): for the
callbacks that is `CoreCall`, whose outcomes are those of `RemoteCall`, which
`CoreClient` is proved to implement.

Outside the code: `Publish`, `Bury` and `Deliverable` are the queue (with the
fault `"duplicate"` it hands out a message that is still in flight), `Crash`
kills a container, `Recycle` reclaims an idle one, `MountQuests` and
`CloseQuest` are lingo-core. `Faults` selects which of them may go wrong, so that
each run can ask its own question.

`Delivery` states the promise without containers or effects: a message that is
completed has its obligations met, one that is given up was tried
`MaxReceive` times, obligations once met stay met. `Contract` instantiates it
with `met` as the set of messages that are `Applied`.

### LocalConsumer

`payload` is what kombu hands to `handle`, already without its own layers.
`HandlerRaises`, `HandlerRejects` and `HandlerAccepts` are the three ways into
`lambda_handler` with a batch of one, `Dispatch` and `Record` its rest,
`Settle` the `ack` or `reject`. `LoseConnection` returns unacknowledged messages
to the queue while `handle` goes on with one of them (`severed`); its settlement
then raises and kombu's mixin reconnects. `Restart` is a new process: it counts
from 0 again. Its log is empty or that of the last process (`StartLog`): `main`
removes the file, but goes on where `os.remove` raises, and does not look for a
file whose path only the `.env` file names. `owner` is history, the message for
which this process inserted each row; the rows of an old log have none.
The brokers of `run_local.py` give no delivery tag, so the counter is the message id
(`local_consumer.py:55`). The effects of an event are one step here, as
`AsyncWorker` has them one by one.

### Calendar and LeaderboardBuckets

`Calendar` is the closed form in which Python computes ordinals and ISO weeks.
`LeaderboardBuckets` runs a clock beside it that knows only month lengths, leap
years and that weekdays follow one another, so that the two are independent: the
closed form is checked against the counting. The clock shows the first and the
last second of each day. One award is delivered (`Deliver` reads the clock as
`update_leaderboard` does), written to the weekly and then the monthly board,
and may fail at any point and come back up to `Retention` ticks later. `entries`
is the history of the `ADD`s, `shown` that of the clock: the instants it showed
while each delivery was under way, whatever `now` the delivery kept. A behaviour ends when the clock leaves
`LastYear`, and each year's days are reached with an award at every stage.

### InternalToken

`env` is the setting, `ssm` the parameter, `expected` what lingo-core takes; each
changes independently. `cached` is `_cached_token`, where `Unresolved` is `None` and
`Empty` the empty string of a lookup that found nothing, which is kept as well
(`internal_token.py:81`). Every client is constructed afresh (`Construct`), so
`bearer` is resolved anew each time. `BootWithoutToken`, `BootWithToken` and
`ProbeAnswered` are the three ways through the boot probe and `report` is what
it logs. `mounted` says whether lingo-core serves the quests router, which the
probe asks. `rotated` is history: lingo-core changed its token since the verdict.

### DlqReplay

`where` is where a message is; a message "away" may still arrive in the DLQ.
`hidden` are those that a receive made invisible (apply pass only: the dry run
receives with a visibility timeout of 0). `phase` is the pass, `inbox` what the
`for` loop has not reached, `sent` a message between `send_message` and
`delete_message`. `Stop` is an interrupt or an exception from SQS at any point,
`Start` another run, with `--apply` or without (`apply`). `previewed` is history, what the
dry run showed, and `grants` counts the runs that the operator let go on.
`Asked` are the messages whose *event* contains the filter string and `Readable`
those whose *body* shows the event, which kombu's base64 does not; the code
looks at the body (`Matches`).

A receive returns something when something is visible. A long poll of one second
nearly does; an empty answer before that would end a pass early, which is the
same as having a smaller maximum.

## Runs

The passing runs.

| Run | Question | Bounds | States |
|---|---|---|---|
| `core_client` | Is the retry loop with its breaker right? | shipped threshold 5 and 2 retries, cooldown of 4 ticks | 1,120 |
| `worker_effects` | Does a message survive every failure of its effects, in two containers at once? | 1 message (a credited award, one from a lesson, a rejected one), 2 containers, 3 deliveries, 2 attempts, sqlite log | 672,000 |
| `worker_batch` | Do records of a batch leave each other alone, and is their log right? | 2 messages, 10 kinds of body, 2 deliveries, failing DynamoDB log with a lagging index | 5,330,000 |
| `worker_liveness` | Does every message settle? | 2 messages, parsable or either kind of poison, kills, unavailable log | 124,000 |
| `outage` | Does an outage of lingo-core kill messages, and what does its end cost? | 2 messages, the deployed settings in ticks of 5 s, outages up to 95 s | 342,600 |
| `leaderboard_buckets` | Are buckets and TTLs right on every date, also of a redelivery? | 2019 to 2027, 2 deliveries, 2 ticks between the first and the last | 1,367,000 |
| `internal_token` | Does the boot probe tell the truth, and is a rotation picked up? | 2 tokens, one container after another | 8,160 |
| `local_consumer` | Is a developer's consumer safe to disconnect and restart? | 2 messages, 3 kinds of payload, 2 losses, failing log, removed or kept at a restart | 439,800 |
| `dlq_replay` | Is the script safe to interrupt and repeat, and does it end? | 4 messages, 3 of them matching, maximum 2, 2 runs, each with `--apply` or without | 124,200 |

Why the bounds suffice. The effects of a message never depend on another
message, so one message with enough deliveries shows every order of failing and
succeeding effects, and two in a batch show every way in which records could
disturb one another; three deliveries allow a failure before and one after a
success; two quests allow a bump loop that fails half way. Two containers
suffice for duplicates, since the properties speak of pairs of deliveries. For
the breaker, 5 failures at 3 attempts per request make the threshold fall into
the middle of a request, which is the interesting case, and four ticks let a
cooldown be interrupted. `worker_batch` treats its two messages as
interchangeable (`MCSymmetry`): the loop may take either first, and no
definition tells them apart. The replay's maximum of two is below the number
of matching messages, so that a run leaves some and a second one must be let go
on for them; batches of two mix messages that match with one that does not, and
two runs let one finish what an interrupted one began.

The bound of `outage` is tight: with these settings the shortest outage that
dead-letters a message lasts 18 ticks, and `MaxOutage` is 19, so that the run
contains such outages and `ShortOutageKillsNothing` is not vacuous. Two messages suffice
for a batch whose second record meets a breaker that the first one opened. The
nine years of `leaderboard_buckets` hold leap years, years of 53 weeks (2020 and
2026) and a New Year's Day on each day of the week; the theorems are
for every year. Two tokens are all that can be told apart: the expected one and another.
Two losses of a connection allow a message to be handled three times and a
process to repeat the numbers of the one before.

The theorems below remove the bounds.

What the properties say:

- `AckedMeansApplied`: a deleted message had every effect it asked for: the
  credit, both buckets, every quest that stayed open, except the quest steps that
  the worker gave up behind a 404 (`missed`). `KeepsContract` is the
  refinement of `Delivery`.
- `DamageBounded`, `FanoutFollowsCredit`: no effect happens more often than
  attempts times deliveries, and no leaderboard entry or quest step without a
  credit that worked: the order of effects argued for at `xp_awarded.py:48-51`.
- `PeersAutoDelete`: completed records of a batch are deleted whatever becomes of
  their neighbours. `worker_batch` checks it where the code upholds it (no body
  that escapes the parser), `worker_peers` where it does not.
- `LogNeverOverstates`, `RowsAreClosed`: a row that says `ok` is right, under
  either backend and whatever fails: `worker_effects` has one sqlite row for each
  message, `worker_batch` one DynamoDB row for each delivery, of which a lagging
  index gives any or none. A deleted message has no row left at `received`,
  which holds for sqlite only (see below).
- `EventuallySettled`, `PoisonIsKept`: liveness of the queue.
- `RejectedComesBackLater`: when a rejected message is visible again, lingo-core has
  been called in the meantime or the breaker lets its call through, although its
  visibility timeout began before the cooldown did. Deployed, the two are
  exactly as far apart as they must be: 60 s >= 30 s time limit + 30 s cooldown.
- `OneFailureAfterOutage`, `ShortOutageKillsNothing`, `OutageIsOvercome`: after
  an outage each message fails once at most, however the invocation under way and
  the open breaker meet; an outage of up to 85 s dead-letters nothing: 120 s
  between the first and the third delivery, less the cooldown, less the timeout
  of a request left hanging; a message with two deliveries left at its end is
  done in the end.
- `BoardsTurnOver`, `OneInstantPerDelivery`, `BoardsConsistent`: boards change
  at midnight before a Monday or a first, only then, to a name not used before,
  and a closed board's rows expire 30 days after its last second; the two boards
  that a delivery enters were open together while it was under way, even if week
  and month both end between its writes; no redelivery moves the TTL of a row,
  and the monthly board never shows more of an award than the weekly ones. That a
  redelivery after a boundary enters other boards than the first delivery did is
  what the code does, and permitted.
- `BootVerdictHolds`, `OneTokenPerContainer`, `RotationIsPickedUp`: "ok" at boot
  is not followed by a 401, and "error" is no false alarm, until lingo-core's
  token changes; no lookup that succeeds late makes one container use two tokens; once the
  sources agree, containers with an old or empty token go away.
- `DoneAndNoLoop`, `NothingSticks`, `LogTellsOwnStory`: what the local consumer
  acknowledges was done and nothing is handled again unless a connection or the
  process was lost; every message leaves the broker; a row that this process
  inserted says `ok` only of the message it inserted it for, whether the log of
  the last process was removed or not.
- `ClosedIffUnderThreshold`, `AdmissionRespected`, `ImplementsCall`,
  `RecoversAfterOutage`, `ProbesKeepComing`: the client. A half-open breaker whose
  probe got a 4xx waits for a verdict that never comes; `ProbesKeepComing` says
  that it lets requests through all the same.
- `NothingIsLost`, `OnlyGrantedMove`, `SentOncePerRun`, `AllPreviewedMoved`,
  `RunsEnd`: the script. `OnlyGrantedMove` bounds what all runs have moved by
  `--max` for each run with `--apply` that the operator let go on (`grants`), and to
  what the filter keeps; without a grant nothing moves.

The runs that end in a violation each show a statement in the repository that
the code does not bear out; `PROJECT.json` quotes both sides.

| Run | Statement | What happens |
|---|---|---|
| `worker_peers` | `handler.py:18-20`: one bad message never holds back its peers | an undecodable envelope fails the whole batch, which is then applied again |
| `internal_token_blind` | `handler.py:75-77`: a rejected token is reported loudly at boot | where lingo-core does not mount the quests router, the probe gets a 404 whatever the token, and warns of an unexpected status |
| `dlq_replay_hangs` | `dlq-replay.py:167-168`: the dry run comes first and shows what would move | it never ends when the filter matches nothing, and no filter matches base64 |

Smaller disagreements that came up while modelling and have no run of their own:

- `circuit_breaker.py:71-73` says a half-open breaker lets one probe through. A
  probe answered with a 4xx tells the breaker nothing, so it stays half-open and
  admits the next call as well. Harmless: lingo-core is up.
- `handler.py:185-186` says each row is updated after dispatch. After a
  redelivery a message has two rows in DynamoDB, and the update takes the first
  that the id index gives (`dynamo/events.py:91`); the other stays `received`.
  `RowsAreClosed` therefore is checked with sqlite.
- `dlq-replay.py:83-84` says handlers tolerate reprocessing. They apply their
  effects again; `DamageBounded` says how often.
- `evaluator.py:36-38` says a latch for the life of the container is right since
  the quests router only comes back with a redeploy, "which recycles the
  container anyway". It is lingo-core that is redeployed; a warm worker keeps the latch
  (`MountQuests`) and gives up the quest progress of its events (`missed`).
- `.env.example:19` sets `EVENT_LOG_SQLITE_PATH`, which the settings read from
  the `.env` file, while `run_local.py:29` looks in `os.environ` only and then
  does not remove the log; nor does it where `os.remove` raises. The new
  process's first message then finds the old row of number 0 in its way, its own is
  never inserted, and its status goes to the old row (`StartLog`).
  `LogTellsOwnStory` therefore speaks of the rows that the running process inserted.
- `config.py:46-49` says a tripped breaker stops the client for the cooldown;
  the request whose failure trips it goes on with its retries
  (`lingo_core_client.py:91-113`), each of which restarts the cooldown.
  `AdmissionRespected` says exactly which sends that allows.
- `handler.py:149-150` says a failing log must never fail the batch; an sqlite
  file that cannot be opened does, from the repository's constructor
  (`handler.py:191`), and each time costs every record of the batch a delivery.
  `RepoUnavailable` is that step; in `worker_liveness` it may happen at every
  delivery, and the messages still settle. The constructor of the DynamoDB backend
  touches nothing.
- `lingo_core_client.py:178` and `xp_awarded.py:30-31` say lingo-core writes the
  leaderboard itself; with `LEADERBOARD_ENABLED` the worker writes it as well
  (`xp_awarded.py:82-84`).
- The dry run of the replay script counts receives, not messages
  (`dlq-replay.py:109`), so one message may be announced as `--max`; and the
  apply pass receives afresh (`dlq-replay.py:196`), so it may move messages that
  were not shown.

Deadlock is checked for `CoreClient`, `Outage` and `InternalToken`. The other
systems really stop, with every message settled, the script over or the calendar
at its end, so their runs switch that check off.

## Fairness

- `CoreClient!FairSpec`: weak fairness of the request loop and of time. The
  first says that the worker keeps having events that need a call; without it a
  breaker with nothing to do would stay open, harmlessly. Nothing is assumed of
  lingo-core, which may stay down for ever.
- `AsyncWorker!FairSpec`: weak fairness of each container's next step, the
  invocation by the event source mapping included, and of the redrive of each
  message. Lambda runs what it has started, or kills it, which is `Crash` and
  ends the invocation; SQS redrives. `Crash` may happen at every delivery.
- `Outage!FairSpec`: weak fairness of the container and the queue (`Work`), of
  time, and of the end of the outage, which is what `OutageIsOvercome` is about.
- `InternalToken!FairSpec`: weak fairness of the boot, of lingo-core's answer (or
  the end of the retries), and of `Recycle`: AWS reclaims every container some day,
  which `internal_token.py:17-19` counts on. Nothing is assumed of SSM; the
  property has agreement of the sources as its premise.
- `LocalConsumer!FairSpec`: weak fairness of the process. Losses are bounded by
  `MaxLosses`, and nothing forces one.
- `DlqReplay!FairSpec`: weak fairness of the script, which keeps running until
  it ends or is stopped, and of nothing else.

## Proofs

All theorems hold for every value of the constants under the named assumptions
(`BreakerAssumption`, `RetriesAssumption`, `EventsAssumption`, `RepoAssumption`,
`WorkerAssumption`, `ReplayAssumption`, `TokenAssumption`, `ConsumerAssumption`,
`BucketsAssumption`, `OutageAssumption`); TLC evaluates them on every run. All
but the last only give the constants their types. `OutageAssumption` also relates
the settings: the visibility timeout is at least the time limit of the function
plus the cooldown, which the deployment meets with equality.

The theorems are of three kinds: safety properties from an inductive invariant;
refinements; and, next to each liveness property, what can be proved of it
without fairness (the last part of this section).

`CoreClient_proofs` proves `TypeOK`, `ClosedIffUnderThreshold` and
`AdmissionRespected` invariant, and that the client implements `RemoteCall`. None
of these but `TypeOK` is inductive alone. The induction (`LoopInv`) adds that a
request under way was applied at most once per answer it has seen, that it sleeps
only if another attempt follows, and that no sleeping request leaves the breaker
half-open. In `Refinement` the admission of a request is `Call`, its last answer
`Return`, a rejection `Refuse`, and all between is a stutter.

`AsyncWorker_proofs` proves `TypeOK`, `AckedMeansApplied` and
`LogNeverOverstates` invariant, that effects only grow, and that the worker
implements `Delivery`. `AckedMeansApplied` speaks of deleted messages only, and
its induction needs what the loop knows of undeleted ones: `StageInv`, which
effects are behind the record in hand at each stage, and `BatchInv`, that a
record the loop has left without reporting is applied. `LoopInv` keeps the books
of the loop apart (`todo`, `failures` and `cur` are disjoint parts of the
batch). The other half is `MetStable`: whatever *other* containers and lingo-core
do, an obligation met stays met, because counters only grow (`Grow`), bodies do
not change, and quests only close. With it the invariants of a container survive
the steps of another, which is why duplicates do no harm. `Refinement` then follows one lemma
per step: the deliveries are `Try`, the response is `Complete`, the redrive is
`GiveUp`, every effect is `Work` or a stutter.

The converse of `AckedMeansApplied` is `OnlyWhatWasAsked`: no effect without an
event that asks for it. It needs the stage the record in hand has reached to be
one its body leads to (`StageAsked`), and the list of quests to bump to be of
quests that the event advances.

`AsyncWorker_redelivery_proofs` builds on that invariant. `DamageBounded` and
`FanoutFollowsCredit` are kept as budgets: what has happened to a message, plus
K for each container that may still make the effect for a delivery it has
(`Owing`) or for a credit it has paid (`Fed`), fits into K per delivery or per
credit. One lemma, `BudgetKept`, says which changes of such a set and such a
count are harmless, and each effect has a lemma that its step is one of them.
`PeersAutoDelete` is a theorem where the code upholds it: no container is killed
and no body escapes the parser (`Undisturbed`). `RowsAreClosed` is a
theorem for the sqlite log whose writes work (`OneRowEach`): the induction says
that a container's current record has its row and each record behind it a closed
one, and that no save or update, of whichever delivery, opens a closed row again.

The budgets are kept with the tries that `Faults` leaves (`CoreTries`,
`WriteTries`), so that they also say where a second copy comes from:
`OnlyFaultsMultiply` gives one effect per delivery to a lingo-core and a DynamoDB
that answer. Without faults there is, moreover, one delivery of each message that
parses (`OnceInv`: a record is reported only if it does not parse, so a neighbour
is never redelivered), and `ExactlyOnce` follows from the two, `AckedMeansApplied` and
`OnlyWhatWasAsked`: each effect that was owed, once. That is the promise of the
design; the other theorems say what each fault makes of it.

`DlqReplay_proofs` proves `TypeOK`, `NothingIsLost`, `OnlyGrantedMove`,
`SentOncePerRun` and `AllPreviewedMoved`. The induction ties the script's control
to the queues: a message between `Send` and `Delete` is in the DLQ, matches and was sent at least
once; one that the loop has yet to reach has been sent at most in earlier runs.
`OnlyGrantedMove` is kept as a credit (`GrantInv`): an answer of the operator adds
`MaxMessages` to it, each message sent for the first time is paid for by the one
that the pass counts for it, and a pass that ends or is stopped gives its rest away.
`AllPreviewedMoved` needs an induction of its own (`ShownInv`), on what becomes
of the messages the dry run showed between the two passes and during the second.

`InternalToken_proofs` proves `TypeOK`, `BootVerdictHolds` and
`OneTokenPerContainer`. What is inductive is that the token a warm container
would resolve now is the one its client carries: the environment does not change
under it and the cache, once filled, is never filled again. The verdict follows
from that and from `expected` not having changed.

`LeaderboardBuckets_proofs` proves `TypeOK` and the three properties, for every
year; `BoardsTurnOver` for a clock that starts on the right day of the week. It
rests on lemmas about `Calendar`: years have 365 or 366 days, week 1 begins on a
Monday within three days of New Year, and `fromisocalendar` of `isocalendar` is
the Monday on or before a day. So two instants share a weekly bucket exactly if
they share a week (`SameWeek`), and the induction only carries that the counted
weekday is that of the date (`WeekdayRight`). The TTL of a row is a function of
its bucket's name (`NameFixesTtl`), which is why no later write moves it;
`OneInstantPerDelivery` follows from one instant for each delivery to which all its
entries belong (`AllOf`). `WeeklyGrace` and `MonthlyGrace` say how long a row outlives an award.

`Outage_proofs` proves `TypeOK`, `RejectedComesBackLater`,
`OneFailureAfterOutage` and `ShortOutageKillsNothing`, for every setting that
meets the assumption. The invariant relates the clocks: what a message waits and
what the breaker has left, what an invocation has spent and the timers of its
records, and the length of the outage against the deliveries used up. After the
outage, a message that failed already has its next delivery behind the cooldown.
The tick that a hung request has waited may lie after the end of the outage
(`Overtime`); it is the tick by which the bound of `ShortOutageKillsNothing` stays
below the deliveries less the cooldown.

`LocalConsumer_proofs` proves `TypeOK`, `DoneAndNoLoop` and `LogTellsOwnStory`,
whether the old log is removed or kept. The induction knows that the rows with an
owner have numbers below the counter, so that no number is given to two messages
of one process, and that such a row of the number in hand belongs to the message
in hand.

`EnvelopeRoundTrip` and `UnwrapGivesText`, in the same module, are about
`WireFormat` and every text: what kombu's SQS transport puts on the queue is
unwrapped to what was published, also if that looks like an envelope itself, and
what is unwrapped is a text unless the unwrapping raised.

### What is proved of liveness

The prover does not know ENABLED, so no theorem concludes from weak fairness.
Everything else of a liveness argument is proved, in three parts.

*The work runs down.* A measure falls with every step and nothing raises it.

| Theorem | Steps that lower it | Bound |
|---|---|---|
| `RequestsRunDown` | those of one request | `2 * max_attempts` |
| `InvocationIsBounded` (`Outage`) | those of an invocation and the waiting in it | `2 * MAX_ATTEMPTS + 1` per record, and one |
| `InvocationIsShort` (`AsyncWorker`) | those of an invocation, whatever the other containers do | `Cardinality(Quests) + 6` per record, and one |
| `EverythingRunsDown` (`AsyncWorker`) | all, kills and duplicates included | lexicographic: messages unsent, deliveries left, steps of the invocations, the rest |
| `QueueRunsDown` (`LocalConsumer`) | those of the consumer, between two losses | five per message, and eight |
| `RunIsShort` (`DlqReplay`) | those of the script, if the filter passes over nothing | four times `3 * MaxMessages + 4` |

The premise of `RunIsShort` is needed: with a message to pass over, the dry run
receives it for ever, which is the finding of `dlq_replay_hangs`.

*Something can go on.* `SomebodyGoesOn`, `NoMessageIsStuck` and `ScriptGoesOn`
show that as long as work is left, the guards of some action of the worker, the
consumer or the script hold. The guards are written out (`CanGoOn`, `CanInvoke`,
`CanBury`, `CanConsume`), one disjunct per action.

*Coming to rest is being done.* `SettledAtRest` and `RestMeansSettled` draw
`EventuallySettled` and `NothingSticks` from the weakest use of fairness, that
the system comes to rest; `PoisonGoesToDlq` draws `PoisonIsKept` from
`EventuallySettled`. Likewise `SurvivorsAreDone` draws `OutageIsOvercome` from the
queue's moving at all, `ProbesRecover` draws `RecoversAfterOutage` from requests
that end and probes that come, and `RotationNeedsRecycling` draws
`RotationIsPickedUp` from containers that end. Their premises are temporal and
are the part that TLC checks under fairness: they say where it is needed and
that the outcome depends on nothing else. `SurvivorsAreSafe` is the half of
`OutageIsOvercome` that needs no premise: a message with two deliveries left when
lingo-core is back is never dead-lettered. Its induction counts the deliveries
used up since then, of which one may have failed (`OneFailureAfterOutage`) and one be
under way (`Spared`).

Only model-checked: that fair behaviours come to rest, that is, the eight
liveness properties without the premises above, `ProbesKeepComing` and `RunsEnd`
among them; and the three violations.

## What is not modelled

- base64 and JSON as algorithms: they are layers that are put on and taken off.
- Fields that are only copied.
- `ttl_epoch` of the log, which nothing here reads; logging and wording.
- Configuration (its values are CONSTANTS), packaging, workflows.
- A rise of `active`: new quests appearing between list and bump are owed
  nothing by the events before them, so the model leaves them out.
- How long a healthy lingo-core takes. `Outage` lets it answer within a tick; were
  every answer to take the full 5 s, a batch of ten would outlast the time
  limit of 30 s. `Crash` of `AsyncWorker` covers what such a kill does to effects.
- `EVENT_LOG_BACKEND = "dynamodb"` for the local consumer, which `run_local.py`
  does not set up.
- Two containers in one outage: each has a breaker of its own, and `Outage`
  asks what one of them makes of its messages.

## What is left

- `ReplayLoop`, the replay script composed with the worker: today the two meet in
  `copies` and `Publish` only.
