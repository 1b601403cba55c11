# simple-serving: the verification project

TLA+ modules of simple-serving (`src/simple_serving`, `src/card`), the TLC runs
that check them on small instances, and theorems about them that TLAPS proves
for every value of their constants.

## 1. The system

simple-serving puts a gateway in front of an inference engine on a rented GPU
instance. One gateway process is one lane: the text lane in front of vLLM, or
the picture lane in front of ComfyUI. Each is one asyncio event loop, so the
code between two awaits is atomic; everything that is hard comes from what may
happen at an await, from clients and engines that fail, and from the instance,
which is paid for while it runs and is stopped by the gateway or its launcher.

| Part (source) | State | Operations | What makes it correct | Modules |
|---|---|---|---|---|
| Generation places (`admission.py`, `Admission`) | a line per class, four counters | `enter`, `leave`, `_dispatch` | no leak, no cap passed, no idle place, no unfair overtaking | `Line`, `Admission` |
| Count places (`admission.py`, `CountPlaces`) | a line per class, two counters | `enter`, `leave` | the same, one pool for all classes | `CountPlaces` |
| Lifecycle (`service.py`) | status, drain and its generation, sleep, timers, accepted work, requests of ours in flight | `authorize`, `accept`, `release`, `drain`, `open`, `sleep`, idle check, deadlines, engine hooks | a drain ends all work, a sleep is final and stops the instance, an open undoes only its own drain, the card sleeps only when idle and always when idle | `Lifecycle` |
| Health (`service.py`, `engine.py`, `pictures/service.py`) | what was verified | `_check_engine`, `_warm_up` | a changed engine stops all work | `Health`, `Engine` |
| Text requests (`inference.py`, `routes.py`) | a task, its stop reason, a count ticket, a ticket, an engine stream, the terminal send | `serve`, `run`, `stop`, `cleanup`, `_send_terminal` | the engine request ends before the place frees, the place before the terminal message, one terminal message at most | `TextLane`, `Request` |
| Checks (`policy.py`, `validation.py`) | none | `resolve`, `check_*` | one code each, in the contract's order; callers do not share a cache | `Checks`, `Engine` |
| Streams (`stream.py`, `engine.py`) | what the stream has had | lines, events, `chunks`, `end` | one finish, one usage, in order | `EngineLines`, `Stream` |
| Exchange, guard, metrics (`asgi.py`, `app.py`, `metrics.py`) | what was sent; a row; counters | `send_*`, `request_ended` | an answer of the contract, and a row that says what happened | `Request`, `Answer`, `Outcome`, `Measures` |
| Configuration (`config.py`, `card.py`, `card/bootstrap.sh`) | none | `load`, `config`, the preparation | a prepared card has a gateway that starts and permits what its engine does | `Configuration`, `CardConfig` |
| Fit of the container (`preflight.py`) | none | `check`, `report`, `plan`, `offload_unfit` | what is planned or reported to fit is taken | `Preflight` |
| Vast (`vast.py`) | none | `stop_until_accepted`, `show`, `resume` | a stop is asked for until it is taken | `Lifecycle`, `Launcher` |
| Picture jobs (`pictures/jobs.py`, `comfy.py`, `graphs.py`) | phase, what was heard, reads of the queue, whether ComfyUI may hold the job | `run`, `_follow`, `_poll`, `_deliver`, `cleanup` | no record deleted before the job is over, no job reported gone that may run | `PictureJob`, `ComfyAnswers`, `PictureResult`, `PictureMemory` |
| Picture service (`pictures/service.py`, `routes.py`) | jobs, unresolved stops, numbers, the queue's last read | `accept`, `_resolve_stops`, `_watch_queue`, checks of a graph | a class's jobs on the card stay within its cap; a graph touches its caller's files alone | `PictureLane`, `PictureGraph`, `PictureInput` |
| Uploads (`pictures/uploads.py`) | names with state, generation, expiry, lock | `put`, `erase`, `sweep` | bytes are erased in the end, and only by their own cleanup | `Uploads` |
| Sweeper (`card/pictures/image-sweeper.py`) | when it first saw a record | a pass over records and files | nothing wanted is deleted, nothing stays | `Sweeper` |
| Launcher (`card.py`) | two processes, two markers, a lock | `run`, `launch`, `retried`, `Pair.run` | the instance is stopped however the pair ends, unless by a signal | `Launcher` |
| Owner's commands (`cli.py`) | a local lock, a tunnel | `up`, `sleep` | `running` is never written against a stop in flight | `Owner` |
| Preparation, smoke and load tools, fakes, monitoring | | | | section 5 |

Who calls whom: a request is authorized and accepted by Lifecycle, runs as a
`Work`, which takes a count place, then a generation place, then an engine
stream, and is released. A drain, a deadline, a sleep and an engine change stop
the works in Lifecycle's set; a stop cancels the work's task and takes it out
of the line. Health checks call Lifecycle's hooks, and in the picture lane also
the resolution of unconfirmed stops and the sweep of uploads. Lifecycle's sleep
stops the instance in Vast; the launcher does so when the pair ends by itself;
the owner resumes it.

The hard behaviours, each at its line, are listed under "hazards" in
`PROJECT.json`, with the properties that cover them.


## 2. The modules

Conventions. An action is one stretch of the program's code between two awaits,
with every call in it. `step`, `stage` or `at` is the await at which a task
stands. Definitions named `X_Something` next to `X`, with the comment "Fault",
are plausible errors in `X` that no specification uses; each property of a run
is shown to fail when the one that `PROJECT.json` names replaces `X`. Optional
values are sets of at most one, `{}` where there is none. Every module of state
has one `TypeOK`.

### Places

`Line` - a ticket and the line, for both kinds of places. A deque per class is
represented by `ahead[t]`, the set of tickets before `t` in its class's queue:
`add` puts all waiting tickets of the class ahead of the new one, `remove`
takes a ticket out of every set. A member of `Ticket` is a request that comes
again and again, each time with a new `Ticket` object. Cancelled futures need
no variable: `_grant` makes a ticket active whether or not its future is
cancelled, and the model does the same.

`Admission` - `enter` is `EnterActive`, `EnterLine` or `EnterRefused`, `leave`
is `LeaveWaiting` or `LeaveActive` followed in the same step by `Dispatch`. The
code's loop is written as at most one grant, which is not an assumption:
`WorkConserving` is the loop's exit condition, an invariant that is checked and
proved from `OutsideIsExternal`, the rule `config._key` enforces. (Without it,
one key's place could admit two waiting tickets of different classes, and the
loop would grant twice.)

`CountPlaces` - the same for counts; one place at
most is free while a count waits, so that its loop, too, grants once.

### The service and its text requests

`Lifecycle` - a lane's service as `class Lifecycle` has it, with the requests
seen as it sees them: in preparation, refused, waiting, active (`Work.active`),
ending, and the reason of the first stop. One action per method: `Authorize`,
`Accept`, `Release`, `Drain`, `Open`, `Sleep`, `IdleCheck`, `DrainDeadline`,
`SleepDrained` and `SleepForced` (the task of `_sleep_then_stop`), the attempts
to stop the instance, the engine's hooks, and around them an instance that
stops and is resumed, with a new boot that knows nothing. An `open` carries the
boot and the generation of a drain whose answer its client has got, and is sent
at any time, again and again, also in a later boot. Methods that `_close` and
`_fall_asleep` share are operators used in each of them, so that a sleep closes
the gate in the same step. Time is ticks of one clock. A timer is what is left
of it, and a tick passes only while no timer is due, so timers run in time but
in any order with the other steps of their tick. `alone`, `drains` and `opens`
are history: nothing but properties and the enabledness of `Open` read them.

`Health` - the check of a lane's engine around `Lifecycle`: what is read of the
engine (`reading`), what is awaited before it is used, and the hook that
follows; the warm-up, whose answer may come after a sleep or another engine. In
the picture lane the engine is ComfyUI's fingerprint. `HealthSpec` is what
`MCLifecycle` checks; its `LateReadsOfTheLife` are the reads that a hook uses
although the service has gone on meanwhile.

`TextLane` - the requests of the text lane, over all of these. A request is two
asyncio tasks, the handler and the work's task. The module composes

- `Cnt == INSTANCE CountPlaces` and `Adm == INSTANCE Admission`, whose actions
  `Enter...` and `Leave...` are conjuncts of the steps that call them. So the
  end of a count is one step that leaves the count's place and asks for a
  generation's, as `Generation.run` does between two awaits.
- `L == INSTANCE Lifecycle` under a refinement mapping: a request's `phase` is
  computed from its step and its ticket, `work` and `ours_inflight` from the
  steps, and the sleep, its instance and its boots are constants, since a sleep
  adds nothing to how a request is stopped (it is a drain with another reason).
  `ImplementsLifecycle` is `L!Spec`.

A cancellation takes the place of the task's next step, also when a grant or an
answer has come meanwhile: every step of the task has the guard `GoesOn`, and
`Cancel` is the only one without it. `LineLeft` is `_stopping` of many requests
at once in closed form. The code leaves ticket by ticket and calls `_dispatch`
after each; a ticket that leaves the line frees no place, so no call of
`_dispatch` grants anything, by `Adm!WorkConserving`, and the result does not
depend on the order. A timer may run at any time after it was set: `Lifecycle`
has the clock, here only the order of a timer with the rest counts. `open` is
the one for the drain that is on (`Lifecycle` has the refused ones). A refusal
before acceptance and its send are `EndRefused`. A failed health check that
changes no request is left to `Lifecycle`. `ShutDown` is the end of uvicorn's
graceful time; after it each handler is cancelled once, wherever it is:
`CutTask`, `CutDone`, `CutLate`.

`Request` - one request of any route on a listener, from its arrival to the row
that is written of it, in the detail that `TextLane` leaves out: `Guard`, the
preparation with its 30 seconds, the checks, what is counted, the stream
relayed event by event, each send that waits for the client, the client that
leaves, the terminal message and the row. `TextLane`'s places and tickets are
here waits that end. It is built from modules without state:

- `Checks` - key, status, class and scope, then the checks of a body, each a
  condition and its code, in the code's order; `Engine` - what vLLM's answers
  come to, and what of a caller goes into the payload (the cache salt);
- `Stream` - the `Translator`: what each event of the engine becomes, and what
  the stream must have had at its end; `Events` is everything `next_event` may
  give. Below it `EngineLines`: bytes to lines, lines to events;
- `Outcome` - the row's outcome and code, read from the row alone; `Measures` -
  what a row adds to the counters, and the buckets of a histogram;
- `Configuration` - what `load` of both gateways accepts and returns.

`Answer` is the abstract specification of what a client may see: one JSON answer
or one stream, begun once, its parts in order, cut short anywhere, nothing after
the terminal message. `Request` is shown to implement it (`A!Spec`).

`CardConfig` - what the preparation refuses of a manifest, the engine's
arguments, and the gateway's file that the launcher writes: `Config` is one of
the files that `Configuration` is about.

`Preflight` - the container against the manifest: the memory limit from the
machine's RAM and the cgroup's files, the room of a copy of the KV cache, the
GPU, the disk; and what an offer must have for such a copy. A number that cannot
be read is `{}`. How the numbers are read and printed is left out.

### The picture lane

`PictureJob` - one picture, from its acceptance to the end of its cleanup, the
client's own stop (`routes.stop`), and what `_resolve_stops` goes on doing about
a stop that was not confirmed; then the next one. `step` is the await of the
job's code: those of `run`, `_follow`, `_poll` and `_deliver` (`TaskStep`), then
those of `cleanup` and of `stop_job` (`Cleaning`). A cancelled task ends at its
await (`Cancelled`), and only the cleanup's wait for the submit holds up what
comes next. A follow hears of its job in three ways:

- the socket's messages (`inbox`), which are the job's only if they came on the
  socket it was submitted under. A message is in `inbox` from when ComfyUI sends
  it, so a drop of the socket may cut off any end of it;
- the shared read of the queue (`watch`, then `view`). One that began before the
  submit's answer is "early", and `_take_view` drops it;
- its own reads of the queue and then of its record (`Poll...`). The order
  matters: read the other way round, a job could leave the queue between them.
  Two reads in a row without it are asked for as well, against restarts.

ComfyUI is external, and modelled from how the code uses it: queue and history
change in one step (`card`), a request ends, a request that failed had its effect
or not, and has none later. A job is recorded after "success" and before the
message that means over. A restart forgets everything. Times (grace, intervals)
are left open: what may be due may come or not. `Tells` stands for every event
that is sent while the follow goes on. A drain lets a job go on that is drawn;
the reason "timeout" is like a changed engine or the end of a drain.

`PictureLane` - the jobs together: `accept` with the class caps, the number a
job gets on the card (`_numbered`), unresolved stops, and the health check that
goes through them one after the other while jobs come and go. A job is here
followed until it ends, fails or is stopped, and the looks for its stop have one
outcome; `PictureJob` has their detail.

`PictureGraph`, `PictureResult`, `PictureInput`, `PictureMemory` and
`ComfyAnswers` are without state: what a graph may be and touch and what is
submitted of it; which pictures of a record are sent, in which order and what of
their bytes; the PUT of an experiment's reference; memory samples and partial
loads; what ComfyUI's answers come to. `PictureChecks` compares them with
reference definitions (section 3).

`Uploads` - a reader's references on the picture card. A name has
its `Upload`'s state (`entry`, `state`, `over` for "its ten minutes are over"), and a
request for it is a PUT, a DELETE or the sweep's look at the name (so a look has
the name as its identity). A PUT is a handler and a task that sends, and goes on
as `_erase_after` when it is not kept. What the code calls `_current(upload,
generation)`, together with the identity of the `Upload` object, is `holds`: a
request's upload is current, has a newer PUT, or was reclaimed, that is its name
belongs to another object with a lock of its own. The lock is FIFO: `line[n]` is
its holder and those that wait; a holder whose future is woken but which has not
run is at the head and not yet "busy", and `locked()` is false then, as in
asyncio. `fresh` is the event loop's order for the tasks that `put` has created:
they reach the lock in their order and before any answer is seen or time goes
by. ComfyUI is external: a request to it ends, a failed one may have written its
bytes, and none writes after its end (`Sweeper` has the send that does). A
shutdown cancels PUT handlers (`Cut`); a DELETE or a sweep that it cancels is
left out.

`Sweeper` - the card's own sweeper beside ComfyUI, a picture, its record and an
upload, on a clock. Time is kept as ages, and the time a pass took at its start
as what has gone by since. ComfyUI writes a file and up to `RecordGap` later the
record that names it; a pass takes up to `PassTime`, reads the records at one
time and walks over the files at another.

### The instance

`Launcher` - `card --run`: one pair of an engine and a gateway for each start of
the container, the markers `gave-up` and `stop-unconfirmed` on the disk, the
gateway's rows, a signal, a retry, and the stop of the instance in Vast. Two
launchers may overlap, as a retry starts one while another waits. Between that
wait and the pair is a stage of its own ("starting"): the container may be found
unfit, or a process not be spawned, and only there and at the end of a pair is
`gave-up` written, so that the end of a wait never undoes a retry
(`GivesUpUnready`). Vast is
external: it means the instance to run or to be stopped (`intended`) and the
container follows (`actual`). `Owner` - `up` and `sleep` of the owner against
that card. A read of Vast that fails and a poll that goes on waiting change
nothing.

## 3. The runs

| Run | Instance | Shows |
|---|---|---|
| `admission` | ten requests, all four classes, two outside keys; class caps 1 or 2, two shared places, one active and one waiting per key | every cap binds and every class is overtaken or held somewhere; safety, and starvation only by priority |
| `lifecycle` (`Health`) | a request of ours and an outside one, idle interval 2, drain deadline 1, forced stop 2, two drains asked for, two boots; three engines, one of them verifiable | safety of drain, open, idle timer; a sleep stops the instance, a drain ends all work, an idle card sleeps |
| `text_lane` | a generation of ours, one of an outside key and a reader's count; one generation place, one count place; no drain | both kinds of places under every stop, failure and shutdown, with two in line for the counts |
| `text_lane_drain` | a generation of ours and an outside one; two drains, each with its open and its deadline | a drain judges requests by their tickets as `Lifecycle` says, and clears the line |
| `request` | one request of any route, by any key of the card's own file and two more; every stream of the engine, every stop, a client that stalls or leaves | its answer is one of the contract, its row is true, prefix caches are apart, it ends |
| `picture_job` | one job after the other; one failed read survived, two looks for a stop; stops by the client and by a timeout | what the client and its class are told is so, a record is deleted once and after the end, an unconfirmed stop resolved |
| `picture_lane` | two readers' jobs under a cap of 2, two experiments' under a cap of 1 | class caps on the card, the order of drawing, a full class has room again |
| `uploads` | one name, two PUTs and a DELETE, two scopes with a cap of one, shutdown | bytes in the folder are known of; an upload whose client has its answer stays, and its bytes do, whatever older sends and cleanups come after it |
| `uploads_names` | two scopes with a cap of one, and either two names and one PUT, or one name, a PUT and a DELETE | where a PUT can be refused for the cap: an abandoned PUT is erased, an expired name forgotten; and a cleanup ends though newer requests come to the lock of its name |
| `sweeper` | a picture with its record, an upload; grace 2, caps 3, gap 1, passes up to 2 | nothing wanted goes, nothing stays |
| `card` (`Owner`) | two launchers, one `up`, one `sleep`, one reconnection | nothing is left running, no resume against a stop, an unready card stops, the commands end |
| `picture_lane_full` | as `picture_lane` | *violated*: a class is told full while it has a place |

The violation is what the code does, against what it says: `accept`
(service.py:117) adds the accepted jobs of a class to its unresolved stops, and a
job whose stop is not confirmed is in both until the end of its stream has been
sent, which a client that does not read holds up. So it takes two places, and
another job is refused `queue_full` while the class has a place free, where
`docs/pictures.md:319` counts jobs.

Pure definitions are compared with references by ASSUMEs, which TLC evaluates at
the start of a run, over all small inputs:

- in `request` (`MCRequest`): `ListsAreRead` (vLLM's list of models),
  `CountedOnce` (each row adds one to one series of each kind, all there from the
  start), `BucketsTell` (cumulative buckets), `CutsDoNotShow` (however the
  engine's body is cut into chunks, its lines are the same, up to the limit on a
  line), `EventsAreGroups` (lines to events),
  `LimitsAreRead` and `PartsAreKept` (the numbers of a container);
- in `picture_job` (`PictureChecks`): `AllowedTouchesOwn`, `NonceKeepsGraph` and
  `CopiesAreNodes` (graphs), `UploadsSayOneType`, `OrderIsJavaScripts` and
  `FrameThenCopies` (pictures of a record), `StrippedHasNoText` (PNG chunks),
  `InputsAreTheirNames`, `MaximaOverReads` and `LoadsAreNew` (memory),
  `AnswersAreOurs`, `UnreadableHidesNothing` and `PartsAreRead` (ComfyUI's
  answers).

Bounds.

- A request is reused as soon as it has ended, so three requests make
  unboundedly many, three at a time: enough for one on each side of a drain
  (active, waiting) and an outside one. `MaxDrains` bounds the drains that a
  control call begins (a sleep may begin one more), 2 for an open that meets a
  newer drain; `MaxBoots` 2 for one that meets a newer boot.
- An interval of two ticks lets a request end inside it, and DRAIN_DEADLINE <
  FORCED_STOP as the configured 60 s and 120 s.
- In `text_lane` a generation counts before it waits, so three requests put two
  in line for the one count place; the refusal of a count for its key's cap does
  not come up there, and is covered by the theorems on count places.
  Drains, which multiply its states, have the run with two requests, where one
  is active and the other waits.
- In `uploads` two PUTs and a DELETE of one name meet in every order at its
  lock, with the sweep's look as a fourth, and a third generation comes from a
  PUT that is reused. Names meet only at a scope's cap, which `uploads_names`
  fills with one. Its liveness is checked in two cases, which the DELETE's name,
  drawn at the start, tells apart (the action constraint `Within`, which cuts off
  claims and DELETEs only, none of the fair actions): one PUT goes from
  name to name, or a PUT and a DELETE of one name come again and again and
  contend for its lock with the sweep and the cleanups.
- In `picture_job` jobs do not meet (each has an id of its own), so one is
  enough; RECORD_TRIES = 1 and STOP_POLLS = 2 are the least with which a failed
  read is survived and two reads in a row confirm a stop. "client" is a reason
  whose client hears no end, "timeout" one whose client does.
- Jobs meet in `picture_lane`: two readers' have room together, so that they
  have an order, two experiments' have not. The bound `MaxNumbered` = 2 on the
  submits lets two jobs be on the card together, or one beside an unresolved
  stop, of one class or of two; `CardWithinLimit` is proved without it but for
  its lying below ORDER, the distance between the numbers of two classes.
- In `sweeper` passes may outlast the grace, and the record may come between a
  read of the records and the walk, but RecordGap < GRACE: the 5 s of grace
  (image-sweeper.py:169, which image-serve.sh leaves as it is) are to outlast the
  time ComfyUI takes from a file to the record that names it.
- In `card` one reconnection is enough for a tunnel that ends before and after
  the gateway got ready.
- In `request` `MAX_LINE_BYTES` = 2 with bodies of up to five bytes lets a line
  end before, at and after the limit.
- Classes and keys in `admission` give two rivals per class where order matters
  and one where it does not.

Fairness.

- `Admission`: an active generation leaves, because its wall time stops it and
  its cleanup leaves; a waiting one need not.
- `Lifecycle` and `Health`: timers fire, the sleeping task goes on, Vast takes
  one of the attempts and an instance that was told to stop stops. Nothing makes
  a request end, not even a stopped one, so that the liveness of a sleep does
  not rest on well-behaved clients. Without a Vast that takes the stop the
  attempts go on for ever, as `vast.py` says.
- `Request`: the handler goes on, its timers (preparation, wall time, terminal)
  run out, a cancelled task ends, and a send to a client that has left returns.
  The engine and a client that is there may be silent for ever: `RequestEnds`
  shows that neither is needed. The one exception is a refusal by the `Guard` or
  the framework ("turned"): `app.py` puts no deadline on its send, so that a
  client that stays and does not read holds such a request open.
- `Uploads`: the tasks run, a request to ComfyUI ends, well or not (it has a
  timeout; strongly fair, since the event loop looks for answers on each turn),
  and health checks begin sweeps; no client has to read, and every request to
  ComfyUI may fail.
- `PictureJob`: the job's code goes on, a client takes what it is sent (its task
  is stopped by the wall time otherwise, which `Request` shows), requests end,
  and ComfyUI ends what it draws; reads of the queue and the requests of a
  health check succeed now and then (strong fairness: a ComfyUI that never
  answers resolves nothing). A follow comes back to its news and to its reads
  between what it sends. The socket may stay silent and no stop is needed.
- `PictureLane`: the wall time ends a job, a submit ends, ComfyUI ends what it
  draws, health checks begin and end, and a stop that is looked for again and
  again is found resolved in the end.
- `Sweeper`: time and the sweeper go on, a server that is gone is started again,
  a record that is due is written, and a file that is due again and again is
  deleted in the end; `NoRecordStays` says itself that reads and deletes of
  records must succeed now and then.
- `Launcher` and `Owner`: the launchers' code and the container go on, a stop
  that is asked for again and again is taken in the end, `up` and a wait of
  `sleep` go on. A process that has been started need not get ready, signal or
  end.

Deadlock is not checked where the system may stop: in `lifecycle` once the
instance is stopped and `MaxBoots` is used up, in the runs of `TextLane` and in
`uploads` after a shutdown, in `request` after the row of its only request.

## 4. The proofs

Eight modules. Each proves, for every value of the constants that the named
assumptions allow, that its component's inductive invariant holds (`Init =>
IInv`, one lemma per action for `IInv /\ [Next]_vars => IInv'`), and from it the
properties of the runs. TLC has checked each invariant on the run's instance
before it was proved.

`AdmissionProofs`. The counters decide what is granted, so the invariant says
that each equals the cardinality of the tickets it counts (`CountersExact`),
that the caps hold, and that no waiting ticket has room. The last part is what
makes one grant enough: between two steps no waiting ticket has room, a leaving
ticket frees one place of one class (and of one key, whose tickets are all of
class `external`), and the grant takes it again.

`LifecycleProofs` has three layers. `IInv`: types, `HoldsExact`, "asleep means
draining", `DrainStopsTheRest` and the engine's part; most theorems follow from
it. `OpensKnown` adds what the known open calls are (their drains are older
than the present one or the same), for `OpenUndoesItsOwnDrain`. `IdleExact`
relates `alone`, `quiet` and the timer, for the idle theorems; `StopOrder` says
that a sleep's deadline runs out before its forced stop, for
`StopsCutOnlyStoppedWork`, which needs DRAIN_DEADLINE < FORCED_STOP.

`TextLaneProofs`, in three parts.

- `Fits(r)` relates the step of a request to its two tickets, its engine request
  and its stop reason. `Aside` says that a step of one request leaves the others'
  tickets as they are or grants them, which keeps `Fits` of those: a grant may
  reach a request at every step at which it can wait, the cancelled ones
  included.
- `CInv` is of the count places what `IInv` is of the generation places. Every
  step of the lane is a step of `CountPlaces` or leaves the count places alone
  (`CountSteps`): its tasks enter and leave them as that module says, never a
  ticket twice. So `CInv` holds in the lane, and `CountsKeepNoPlaceIdle` and
  `CountsGoInOrder` follow.
- `TextLaneImplementsLifecycle` is `Spec => L!Spec`: Init maps to Init, and there
  is a lemma for every action, which names the action of `Lifecycle` that it is,
  or the stutter. The phases of all requests move together when a place is left
  and given on; `Lifecycle` allows that by the tickets it gives places to in the
  same step (`Given`), and the lemmas show that only waiting requests are among
  them.

`RequestProofs`, in four parts.

- The checks: a verdict is the code of a check that fails, or "ok" where none
  does; so an authorized caller is one of a key, with one of its classes, and
  its salt is built of what may share a cache and nothing else (`Salts`,
  `CallersApart`). `CachesApart` needs of the state only that the caller whose
  body is read was authorized (`CallerInv`), and of the configuration only that
  it was accepted, so that no two keys have one label (`KeysApart`).
- The answers: `Wholes` are the few shapes that a whole answer has, `Unfinished`
  what may have been sent of one. There are lemmas for what each event of the
  engine makes of such a sequence, and for what a client reads of the messages
  that wait.
- The invariant, in parts by where the request stands: before its answer
  (`EarlyInv`), while a refusal waits (`RefusingInv`), while the task runs
  (`TaskInv`, `FreshInv`, `RelayInv`), when it is over (`ServingInv`, `OverInv`),
  while the terminal message waits (`TerminalInv`). What was sent, what waits,
  the translator's finish and `started` are tied together in `RelayInv` and
  `OverInv`, as long as the client is there; without them a second finish or an
  answer after another could not be excluded. `OutcomeIsTrue` is a conjunct, and
  has a lemma for every way to end (`EndRefused` ... `EndGood`).
  `RequestAnswersByTheContract` then needs that every step leaves the answer or
  adds to its end (`AnswerGrows`).
- The card, without any state: `CardConfigAccepted` (the gateway starts with the
  file its launcher writes), `PermittedIsServed` (what the gateway permits,
  pictures, a thinking budget and a min_p while drafting, the engine has been
  started for), `PictureConfigAccepted`. They rest on `Prepared`, what the
  preparation checks, on `WellFormed`, that the alias, the context and the ports
  of the text manifest are ones, which nothing checks, and on keys whose file the
  gateway accepts. `LargestCopyFits`: the size that `report` prints passes the
  launcher's check, and so do exactly the sizes up to it. `PlannedOfferFits`: an
  offer that has what `plan` asks for passes it, although Vast counts RAM in
  decimal gigabytes; for a container without a limit below the machine's RAM.

`PictureLaneProofs` proves `CardWithinLimit` for any jobs, classes and caps. What
`accept` counts may pass the cap later, since it counts a job twice; the set of
the jobs behind the count never does (`Room`). `Known` says that ComfyUI has only
jobs of that set, `Apart` that nothing in it is shown twice. `Numbered` says
that a job's number was given out and stays below the distance of two classes,
so that the order of the numbers, by which ComfyUI draws (`DrawnLowest`), is the
one `DrawnInOrder` asks for (`LowerGoesBefore`).

`PictureJobProofs`. The gateway learns of the card late, by messages and reads
that may be old; but what it acts on is of a kind that stays true: a job that has
begun never waits again, a job that ComfyUI had and has no longer never comes
back (`OffCard`). `NewsInv` says of every message and read on its way that it
tells only such facts; `WireInv` what has become of the submit where the job's
code stands; `StopInv` who still looks for the end of a stop. The four invariants
of the run follow.

`UploadsProofs`. The lock's line is FIFO, and that is what the proof turns on:
`LineInv` and `LockInv` say who is in a line and that only its first has the
lock, `FreshInv` the same of the sends that have not come to it, and `OrderInv`
that a send with a newer one of its name reaches the lock before that one. So the
last bytes written are those of the newest send (`NewerInv`, `NameInv`), and
bytes that nobody will erase are of an entry that is live or stale (`BytesInv`).
`AbandonedErased` is a conjunct: who left a live upload behind is still at work
on it (`PutInv`). `KeptStays` follows from the invariant step by step: a request
of an older PUT that has the lock has it before the newest one has been sent
(`NewerInv`), and one that comes to it later returns (`EraserBusy`), so that
none writes over the bytes of an upload whose client has its answer.

The sweeper, in `UploadsProofs` too, since both are about the files of that
folder. `WantedStays` says what a step erases; the invariant `SweeperInv` says
what a pass may go by, however old its reads are: a wanted job without a record
is past its cap (`PictureInv`), the records chosen for deletion are of such jobs,
and a wanted picture that the read of the records missed was younger than the gap
at the start of the pass, or is past its cap (`ReadInv`). With a gap shorter than
the grace the walk leaves it. That the gap is, is the one assumption
(`SweeperAssumption`) that no code checks; it is what the grace is for.

`OwnerProofs`, for any number of launchers beside `up` and `sleep`: one launcher
is past its lock at a time (`OneHolds`), a container that has exited has no
process, no start and no launcher (`ExitedInv`), and a resume is of such a one
(`ResumeInv`). `NothingLeftRunning` is a conjunct.

For the sake of the proofs some definitions are written without folds over
sequences, for which there is nothing to reason with: a verdict takes the least
failed check (`Checks.Verdict`), a run of deltas between two other messages
counts as one message (`Stream.Chunks`, `Request.With`), and the answers of the
contract are listed by their shape (`Answer.Answers`). The order, the beginning
and the end of an answer are told apart as before.

Assumptions on constants are named and stand in the modules that declare them;
TLC evaluates each in a run.

Only checked, not proved:

- all liveness, since fairness is beyond the prover: `StarvedOnlyByPriority`,
  `SleepStopsTheCard`, `DrainEndsAllWork`, `IdleCardSleeps`, `RequestEnds`,
  `StopResolved`, `RoomComesBack`, `ExpiredForgotten`, `CleanupEnds`,
  `CardStops`, `CommandsEndWithCard`, `NoFileStays`, `NoRecordStays`;
- what the definitions without state compute where they fold over their input
  (the references of section 3): that is induction over data.

`TypeOK` is proved of `Admission`, `CountPlaces`, `Lifecycle`, `Request`,
`PictureLane`, `PictureJob`, `Uploads` and `Owner`, and `SweeperTypeOK` of
`Sweeper`; `TextLane`'s, with its tickets, is `Typed` in `IInv`. Proved and not a property of a run: `HoldsExact`,
`ChangedEngineKeepsNoWork`, `SleepIsFinal`, `IdleTimerCovers`,
`StopCutsOnlyStoppedWork`, `EngineWithinPlaces`, `StoppedLeavesLine`, the
counters of both kinds of places, and the caps of `CountPlaces`.

## 5. Not modelled

Parts, in `PROJECT.json` with the status `not_modelled` or `partly`:

- the smoke and load tools, the fakes of vLLM and ComfyUI and the development
  servers, and the monitoring: clients, stand-ins and readers of the service, on
  which nothing in it depends. The fakes do show what the code expects of its
  engines, and the external actions agree with them;
- the preparation's downloads and installation: one sequential script that ends
  the start if it fails;
- the owner's `status`, `keys`, `trial` and `load`, and the card's diagnostics;
- how JSON, environment files and Vast's answers are read, the gauges and the
  text of the exposition, the log.

Behaviours of modelled parts that are left out:

- servers: the order in which the two uvicorn servers and the service start and
  stop; uvicorn's own 500 and its closing of a connection without an answer; an
  exception of a handler that reaches the guard;
- launcher and owner: a launcher that is killed outright; a report of Vast that
  is older than the last request; a resume that has its effect late; two `up`s
  from two machines; a stop-unconfirmed marker that an earlier disk left; a
  retry of a card that is not prepared; a write to the log that fails in a
  reader of the pair's output; the two tries of `sleep` before its first answer,
  whose looks change nothing. That an ask which was not answered is made once more
  is judged by no property: a command may give up at any poll;
- picture jobs: several preview nodes (so several files of one job in the
  sweeper), the cut of a cleanup by a shutdown, the fingerprint read before the
  stops are resolved in one check;
- sweeper: subfolders and their removal, a file replaced between the look at it
  and its removal, a record later than the grace;
- partial loads: lines of ComfyUI's log repeated word for word with the same
  time.

Where the code and what is said of it differ, beside the violation of section 3:

- `uploads.py:91` and 66: a handler that uvicorn cancels a second time, in the
  gather of `put`'s `finally`, skips the erasure it says it never skips;
- `uploads.py:120`: the entry of an expired name is dropped before the look at
  the cap; if that refuses the PUT, no sweep of the gateway erases its bytes
  (`docs/pictures.md:257`). The card's sweeper does (`NoFileStays`);
- `uploads.py:126`: a known name is claimed without a look at the cap, an erased
  one too, which does not count while it is erased (`docs/pictures.md:312`);
- `card.py:312` against `docs/cheap-card.md:25`: with a limit of n the card's file
  gives the reader class n places and the shared classes n more;
- `card.py:476`: a card that has given up gets its launcher without a look at
  whether it is prepared, and a retry then starts its pair, although a changed
  manifest "makes the card unprepared until bootstrap.sh runs again" (`manifest.env:2`);
- `metrics.py:123`: the row of a handler that the shutdown cancels outside of its
  task has no code and counts as a success (`docs/metrics.md:60`); `OutcomeIsTrue`
  excepts it;
- `service.py:378`: the engine's length is read before the await of the warm-up,
  and used after it.

What could come next: the servers' start and shutdown as a module, and a composition
of `PictureLane` with `Uploads` over a graph's references.
