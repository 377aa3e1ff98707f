# A verification project for WebSummoner

WebSummoner (`src/`, Go) is a hub for browser sessions: it takes WebDriver
requests for new sessions, lets in as many as `-limit` allows, starts a browser
for each (a Docker container or a driver process), proxies the session's
commands to it, and stops it when the session is deleted or idle for too long.
This directory holds TLA+ modules that model the parts of the hub where order,
failure and concurrency decide, TLC configurations that check them on small
instances, and TLAPS proofs of what matters most for every instance.

File names below are relative to the repository's root (`src/`). Each
definition that models code is tied to its lines in `PROJECT.json` ("map").

## 1. The system

| Component | Code | State | Operations | Hard because |
| --- | --- | --- | --- | --- |
| Admission queue | `protect/queue.go` | channels `limit`, `queued`, `pending`, `used`; `lastEmpty` | `Try`, `Check`, `Protect`, `Drop`, `Create`, `Release`; `budget`, `admitted`, `Congested` | each operation is one or two channel operations with other goroutines in between; a send in a goroutine of its own; a select with three ways out; a wait budget taken from what another request stored |
| Session life | `websummoner.go` (end of `create`, `proxy`, `reverseProxy`, `bidi`, `sess.Delete`, `onTimeout`, `resetTimeout`), `session/session.go` | the session map, each session's timer channel and lock | put, touch, delete, expire | handlers look a session up before they lock it; the idle timer is a goroutine that sends a DELETE to the hub itself |
| New session request | `websummoner.go` (`create`) | the request: attempt number, paths, temporary files, its slot | checks, firstMatch, start, attempts, answer, clean-up | a dozen exits that must each settle the slot and the browser |
| Browser service | `service/docker.go`, `driver.go`, `service.go` | browser container or process, recorder container, files | `StartWithCancel`, `Cancel`, `wait` | every call to Docker may fail after something was created |
| Browser catalog | `config/config.go`, `discovery.go` | `Browsers`, `ContainerLogs` | `Load`, `Find`, `merge`, `newer` | two sources that can each fail, reloads at the same time |
| HAR recorder | `har/har.go` | entries by request id, a socket, a `sync.Once` | `Start`, `read`, `apply`, `Close`, `write` | events in any order; started after the session is public, through the hub's own proxy; closed by several DELETEs |
| Shutdown | `main.go` (`run`) | listener, graceful period | `server.Shutdown`, cancel all | requests and cancels in flight |
| Artifacts | `websummoner.go` (`sess.Cancel`), `event/`, `metadata.go`, `upload/` | files | rename, listeners in goroutines | the goroutines are unordered, share file names, and stop with the process |
| Transfers, streams | `websummoner.go` (`fileUpload`, `uploadToContainer`, `vnc`, `streamLogs`) | none shared | copy bytes | |
| Rewriting, metrics, flags | `websummoner.go`, `metrics.go`, `main.go` | none, or read only | pure functions | |

How they meet: `selenium()` chains `Try(Check(Protect(create)))`; `create` owes
the queue one `Drop`, or one `Create` and later one `Release`. It asks the
manager (`Find` on the catalog) for a browser, starts it, creates the driver's
session, arms the idle timer, puts the session on the map and tells the queue.
`proxy` finds the session again for every command; a DELETE takes it off the
map, calls `Release`, forwards the request and, in a goroutine, calls
`sess.Cancel`, which stops the browser and renames its files. The timer does
nothing but send such a DELETE. `/status` and `/metrics` read the map and the
gauges. `sess.Cancel` also closes the HAR recorder, which `create` has started
by dialling the hub's own `/devtools/`, and sends the events that start metadata
and upload goroutines. On SIGTERM `run` waits for the requests in flight and
then calls every session's `Cancel` itself.

The behaviours that are hard to test are listed in `PROJECT.json` under
"hazards", each at its line and with the properties that would catch it.

## 2. The modules

### SlotPool, AdmissionQueue

`SlotPool` is the abstract promise: at most `Size` parties hold a slot, a slot
is taken by one party and given back by it. `AdmissionQueue` is `queue.go` at
the level of single channel operations. Channels carry empty structs, so each is
the number of tokens in it; a send on a full and a receive from an empty channel
are not enabled. `pc[r]` is the place of request `r`'s goroutine: `trying` and
`tryProbe` are `Try` before and after its probe's send, `waiting` is `Protect`'s
select, `acquired` to `creating` is the way from the won slot to the handler,
`dropping`, `promoting` and `closing` stand between the two channel operations
of `Drop`, `Create` and `Release`. `sending` counts the goroutines of
`queue.go:123` that have not sent yet. The handler behind `Protect` is reduced
to its contract (Drop, or Create and one Release). `queued`, `pending` and
`used` have a capacity of 2^31 - 1 in the code and none here.

The select of `Protect` picks any case that is ready, as Go does. Any waiting
request may win a free slot; Go serves waiting senders in order, which is one
of the orders the model has.

What is proved of the queue holds for handlers that keep to that contract. The
hub's do not always: `create` does (`SlotSettled` in NewSession), `proxy` may
call `Release` twice for a session and before its `Create` (`session_limit`).
SessionHub, which has the `limit` and `used` channels again, says what is left
of the queue's promises then.

### CoDelQueue

`AdmissionQueue` with its clock: every action of it is taken over and says in
addition what it does to the times. Time is counted in ticks and kept as ages
(`empty` is the age of `lastEmpty`, `waited[r]` that of `Protect`'s `s`), which
stop growing above all thresholds. A tick passes only when the goroutines of the
queue have nothing left to do: they take microseconds, the thresholds seconds.
Handlers behind the queue take as long as they like. `shed` holds the requests
whose budget is the short one. `asked` lets every client ask once in a tick, so
that a tick ends; `free` is an auxiliary age, that of the last tick that ended
with a slot to spare, and says in the properties what the code only estimates
with `lastEmpty`.

### SessionHub

The hub's handlers for several sessions at once. `create[s]` is the place of the
create handler, `pc[h]` and `job[h]` those of a goroutine that serves a command,
a stream, a DELETE or an expiry; `sessions` is the map, `armed` the sessions
with a running timer goroutine, `containers` the browsers that run. `Locked` is
`sess.Lock`, which matters only where a handler can stay inside: in
`queue.Release`. `Fire` starts a handler because the timer's DELETE is a request
to the hub like any other. Three auxiliary variables record history for the
properties: `freed` (sessions whose own slot was given back), `stolen` (slots
given back by a DELETE that came second) and `lapsed` (sessions whose timer
fired before they were put on the map). The `pending` gauge and the way into the
queue are AdmissionQueue's and are left out. A session's id is visible to the
client from `Respond`: `create` writes the answer before it puts the session,
and an answer larger than the server's buffer leaves before the handler returns.
Ids are distinct: drivers draw them at random. A session in `Recorded` starts a
HAR recorder: between `Put` and `queue.Create` its create handler dials the
hub's own `/devtools/<id>/` and waits for that handler, which resets the timer
under `sess.Lock` (`DialRefused`, `DialFound`, `Dialed`) and proxies the
handshake to the browser (`Handshaken`, which has no timeout and need not
come). A browser in `Silent` may stop answering at any time after the session's
start: it then keeps that handshake open and a client's DELETE in the reverse
proxy.

### BrowserService, NewSession

`BrowserService` is one browser from `StartWithCancel` to the end of `Cancel`:
each call to Docker or to the operating system is a step that succeeds or fails,
`svc` names the call that comes next, `browser` and `video` are the two
containers (or the process), `tmpVideo` and `tmpLog` say whether the files with
temporary names exist. `refused` records that Docker or the file system refused
to remove something, the only excuse the properties accept. `Dies` is the
container that exits by itself at any time.

`NewSession` composes it with one run of `create` and the deletion of its
session. `hops` counts how many times `/wd/hub` stands at the front of the path
that is posted (`r.URL.Path` is joined in place, attempt after attempt); `base`
is `u.Path`, "/wd/hub" standing for any path that is not empty or a slash.
`pending` and `used` are this request's tokens in the gauges: the one it got
from the queue, and the one `queue.Create` sends for it. `Create` may come at
any time after `Put`, before or after the session's deletion, since `har.Start`
stands between the two; which DELETEs there are and what they do to the queue is
SessionHub's. Which capability was refused, and what bodies contain, is left
out; that they can be refused, unreadable or without an id is not.

### ConfigCatalog

`Load` in two reads and a store, run by several goroutines at once, on a file
and a list of images that change between the steps. A file is what `loadJSON`
makes of it, `err` and `br`: after a value of the wrong type `json.Unmarshal`
fails and leaves in `br` what it could decode, and `Load` goes on with that when
there is a scan. A version is the sequence of its numbers, as many and as large
as one likes; `TextPrefix` and `TextLen` are what `strings.HasPrefix` and `len`
make of its text. That `Atoi` counts a segment which is no number as 0, and
clamps one beyond 64 bits, is abstracted from: such segments do not occur. Of a
browser only its origin is kept, file or image. `Matches` returns the set of
versions `Find` may return: more than one where the order of map iteration
decides. `source` is an auxiliary copy of what the storing `Load` had read.

### HarRecorder

One recorder between its three parties. `create` walks from `har.Start` to
`queue.Create`, past a handshake that the browser accepts, refuses or leaves
open; the reader goroutine takes one frame at a time; a DELETE goes
through lock, `Release`, the driver and `sess.Cancel` with `Close`. `recorder`
is the variable `harRecorder`, which Cancel reads without a lock. What orders
the two is the `used` channel: a DELETE takes a token before it cancels and
create sends one when it is through; `sole` says that no other session lends
one. Until `queue.Create` a DELETE with a borrowed token may see either value.
`frames` is what the browser has sent and serves as the reference for the file:
an entry keeps the numbers of the frames that made it, what else a frame says is
copied by the code and of no consequence. The browser is external: any number of
requests, each sent, sent again for a redirect, answered and finished.

### Shutdown

How sessions end and how the hub does: `sess.Cancel` from the stopped container
to the event, the goroutines that save metadata, upload files and remove them,
and `run` from the signal to the exit. Stopping the container and renaming the
video may fail; Cancel logs that and goes on (`StopRefused`, `RenameFails`;
`refused` and `stuck` remember it). `life[s]` is the place of a session, its
Cancel included; `asked` are the requests in flight that may be its DELETE;
`Active` is what `http.Server.Shutdown` waits for. `disk` maps a path to the
artifact whose file lies there, so that two sessions with one `videoName` share
a path. When `stage` is `exited` or `failed` no goroutine moves any more and
containers run on: every state is one in which the process may have been
stopped, and the properties about files are claimed of each. A log file goes
the way of a video and is left out. Metadata are in binaries built with the tag
`metadata`, as releases are.

## 3. The runs

| Run | Instance | States | Checks |
| --- | --- | --- | --- |
| `queue` | 3 requests (one no-wait), `Size` 2, with budgets | 10,876 | `LimitRespected`, `TokensConserved`, `ReceivesNeverBlock`, `NoCircle`; `ImplementsSlotPool` (refinement); `WaitingEnds`, `QueueReceiptEnds` |
| `no_wait` | 3 requests, `Size` 1, no budgets | | `NoWaitNeverWaits`, violated |
| `codel` | 3 requests, `Size` 1; budgets 3 and 2 ticks, target 1 | 345,435 | `ClockOK`, `GaugeHonest`; `ShedMeansSaturated`, `RefusalMeansFull`; `BudgetEndsWait` |
| `hub` | 2 sessions, one recorded and silent, 2 handlers, `Size` 1 | 57,325 | `SlotsAccounted`, `ContainersOwned`, `LiveSessionExpires`, `NotReadyMeansFull`, `WaitsForCreate`; `DeletedSessionStops`, `IdleSessionExpires`, `CreateEnds` |
| `session_limit` | 3 sessions, 2 handlers, `Size` 1 | | `LiveWithinLimit`, violated |
| `new_session` | `RetryCount` 3, up to 2 candidates | 14,450 | `TypeOK`, `SlotSettled`, `NothingLeftRunning`, `FilesPutAway`; `RecorderStopsFirst`; `RequestEnds` |
| `retry_path` | `RetryCount` 2 | | `PostsToConfiguredPath`, violated |
| `catalog` | 1 name, versions 152, 152.0.9.75, 152.0.10; up to 2 images, 2 loads, 1 change | 2,495,994 | `TypeOK`, `FileWins`, `ScannedDefaultIsNewest`; `OutageKeepsCatalog` |
| `find_tie` | versions 152, 152.0, 152.1 | | `FindIsDetermined`, violated |
| `har` | 2 DELETEs, 2 request ids, 4 page frames | 368,972 | `TypeOK`, `FileFaithful`, `SavedBeforeStop`; `CloseEnds`, `ReaderEnds` |
| `har_redirect` | the same | | `EverySendingKept`, violated |
| `shutdown` | 2 sessions, 1 name to choose, uploads remove files | 994,844 | `TypeOK`, `ArtifactSafe`, `MetadataLast`, `CleanExitStops`; `ShutdownEnds` |

Why the bounds are enough. In the queue two requests fight for the last slot
while a third probes, which is every kind of meeting there is on a channel; what
holds for three is proved for any number. With the clock, one slot is held by a
first request while a second waits out its budget and a third comes later and is
shed; the thresholds 1, 2 and 3 keep target, short and long budget apart, and
the ages saturate, so no bound cuts a behaviour off. The run sets
`-disable-queue` to false: with it a request waits only by the race of
`no_wait`. In the hub two handlers are what a race on one session takes; a
second session competes for the slot and for the tokens in `used`, and
`session_limit` has the third that a slot given back twice lets in. The hub's
runs stop (`CHECK_DEADLOCK FALSE`): a session id is used once, and a DELETE can
wait for ever in `queue.Release`, which is a behaviour of the code.
`new_session` is one request, finite but for the attempts, which its `TypeOK`
bounds. The recorder's run stops when both DELETEs are through; four frames let
two requests overlap with each other's answers and one of them be redirected
(`MaxFrames` cuts off nothing but more of the same, since an entry depends only
on the frames of its own id and on the order of sendings). In the shutdown run
two sessions and one name are what it takes for two videos to share a path, and
for one Cancel to run beside the sweep of another session; the run stops when
the process does. In the catalog names are independent
of each other, three versions order differently as numbers and as texts, and one
is a prefix of the others; one change under two loads gives each load its own
view.

Fairness. A goroutine that can run does: `WF` of the steps it takes by itself.
Operations that wait on a channel, and the lock of a session, get `SF`: Go
serves goroutines blocked on a channel in their order of arrival, and a mutex
that was waited for long is handed over. `Fire` is strongly fair over the
handlers: an idle timer that is not reset goes off, and the server has a
goroutine for its request. Clients owe nothing: there is no fairness
on requests, disconnects, DELETEs, edits or what a page does. A browser outside
`Silent` answers in the end; `Silent` may be any set of sessions.

What the code waits for without a timeout is not fair either, or is named as an
assumption:

* *The client's body.* `create` reads it after it has its slot
  (`websummoner.go:118`) and the server sets no `ReadTimeout` (`main.go:477`).
  `Prompt` in NewSession leaves `reading` out, and `RequestEnds` begins after it.
* *A driver process.* `cmd.Wait` after SIGINT (`driver_unix.go:12`) returns when
  the process ends. `RequestEnds` excuses it (`AwaitsDriver`); in SessionHub,
  HarRecorder and Shutdown, where stopping the browser is one step, that the
  process ends is assumed.
* *Docker.* Its calls run on a background context. All four assume that it
  answers, if only with an error.
* *A client's DELETE at the driver.* The reverse proxy has no response timeout
  (`websummoner.go:763`); only the hub's own DELETE has (`sess.Delete`). `Cancel`
  of a client's DELETE is fair only for browsers outside `Silent`.
* *The handshake of the recorder* (`har.go:120`, `websummoner.go:837`):
  `Handshaken` is fair only when the browser is not in `Silent` or is gone.

That a handler behind the queue ends, which `WaitingEnds` needs, is therefore an
assumption and not something the code enforces: a session that is kept busy
never ends, and neither does a `create` in one of these waits. `BudgetEndsWait`
in CoDelQueue is the property that does without it: `HandlerBegins` has no
fairness there, and only time passes and the queue's own goroutines run. In
HarRecorder Cancel goes on and a read on a dead socket returns. In Shutdown `run`
goes on and the grace period is a timer; requests may hang.

## 4. Where the code and its documents differ

* **A session can be released twice** (`session_limit`). `proxy` looks a session
  up, then locks it, and does not look again. Two DELETEs that both found it
  both call `queue.Release`. The docs' "`-limit` caps simultaneous sessions"
  then fails. `SlotsAccounted`, `OverCommitBounded` and `DeletedSessionStops`
  say exactly how far it goes: the limit is off by the number of second
  releases, and a later DELETE may wait for ever with its container running.
* **A request that must not wait can wait** (`no_wait`), since the probe and the
  admission are two steps.
* **Readiness ignores sessions being created.** HEAD `/status` compares the
  limit with the sessions on the map (`main.go:430`), so it can say "ready"
  while every slot is taken, where `guides/usage-statistics.md:137` promises
  slots. `NotReadyMeansFull` is the direction that holds.
* **A retry posts to a path joined twice** (`retry_path`).
* **Map order decides ties in `Find`** (`find_tie`), against its comment.
* **A HAR file lacks the first hop of a redirect** (`har_redirect`). The hop is
  received, and the entry of its id is replaced by the second one
  (`har.go:194`); `guides/har-capture.md:6` has "record everything a session
  requests". `FileFaithful` is what holds: the last sending of each id.

Seen while modelling, and stated in the properties as exceptions or in prose
only:

* **More containers than `-limit`.** `reference/cli-flags.md:17` calls it
  "Maximum simultaneous browser containers". `queue.Drop` comes before
  `cancelAndCleanup` and `queue.Release` before `sess.Cancel`, so the slot is
  given out again while the old container still runs, and with a Docker that is
  slow to stop them they add up. `LimitRespected` and `OverCommitBounded` count
  sessions that hold a slot; no property bounds containers.
* **Creating a recorded session can stop for ever.** `create` dials its own hub
  between `sessions.Put` and `queue.Create`, without a timeout. There are two
  circles: the dial's handler waits for `sess.Lock`, which a DELETE of the
  session holds while it waits in `queue.Release` for a token of `used` that
  this `create` has yet to send; or the dial is past the lock and a silent
  browser leaves the handshake open, while the DELETE that would stop it waits
  for the same token. `Deadlocked` in SessionHub is these two, and `CreateEnds`
  says that a create which does not end is in one of them or at an open
  handshake with no DELETE. It is not only its own session that suffers: a
  DELETE may have taken another session's token, and the DELETE of that one then
  waits for this create (`WaitsForCreate`, the third exception of
  `DeletedSessionStops`).
* **A silent browser keeps a deleted session's container.** A client's DELETE
  waits at the driver without a timeout, and the deferred cancel comes after it
  (`Unproxied`). The slot is free by then. `IdleSessionExpires` has
  `OutOfHandlers` for the same reason: with the two handlers of the run both can
  hang. That exception is the model's: the hub starts a goroutine per request.
* **A HAR file can be lost** when a DELETE comes before `create` is through and
  another session's token lets it pass: it finds `harRecorder` nil. The
  properties of HarRecorder exclude exactly this case (`sole`, `late`). Requests
  that a page sends before `Network.enable` are not recorded.
* **A file with a type error is half used.** `{"chrome": []}` is a parse error,
  yet `chrome` is in `br` with no versions (`config.go:107-108`), so the catalog
  is not empty, is not refused, and replaces the one in use even when the scan
  fails. `OutageKeepsCatalog` speaks of a file of which nothing was decoded.
* **A reload can empty the catalog.** `reference/browsers-config.md:192` says "A
  reload that would leave no browsers at all is refused"; a `browsers.json` that
  parses and lists nothing, with a scan that fails or finds nothing, is obeyed.
  `discovery_test.go:160-172` declares an explicitly empty file a choice, so this
  is listed here and not as a finding.
* **A reload can be undone by an older one.** `Load` reads without the lock; one
  that read first may store last. No property is about it.
* **Metadata can name a file that is gone.** `Caps.VideoName` gets the last name
  only when the client chose none (`websummoner.go:384`); otherwise it keeps the
  temporary one, and the metadata with it. `MetadataNamesVideo` in Shutdown
  states the contrary, and TLC refutes it as an invariant of the `shutdown`
  instance.
* **A failed graceful exit stops nothing.** When the grace period ends first,
  `run` returns before the sweep and `main` exits; every container stays. A
  request that waits for a slot counts as active, and no DELETE can free one any
  more, since the listener is closed. Also `-graceful-period` "finish live
  sessions" (`reference/cli-flags.md:36`) waits for requests and not for
  sessions: the sweep cancels those that live.
* **A budget below a second.** The floors in `New` can make the short budget
  longer than the long one; `ThresholdsOrdered` holds for a second and more.

`NewSession!FailureRemovesFiles` states the comment above `cancelAndCleanup`
("on failure also remove the temporary video/log files") for every failure. No
run lists it; the code misses it when `StartWithCancel` itself fails after it
has created the log file or started the recorder.

## 5. What is proved

Every safety invariant and every action property that a run checks is a theorem,
for all values of the constants. All proof modules follow one pattern: an
inductive invariant (`IInv` in most), lemmas that the initial states meet it and
every action keeps it, and theorems that draw the properties from it. The
assumptions are those named in the modules (`RequestsAssumption`,
`ClockAssumption`, `HubAssumption`, `CatalogAssumption`, `RecorderAssumption`,
`ShutdownAssumption`, `NewSessionAssumption`: finite sets, a limit of at least
one, a positive `-queue-timeout`, ids that are not client-chosen names, a
natural `-retry-count`, at least one candidate, and versions that are non-empty
sequences of naturals). Beyond these, the theorems of the queue are about handlers
that keep its contract and those of the hub about ids that are distinct; Docker,
drivers and browsers may refuse, hang or die at any step.

`NumberLemmas` is what two proofs need of numbers: a nonempty set of naturals
has a least member, a nonempty finite one a greatest, and a set that contains 0
and each next number up to `n` contains all (`Climb`). The library's induction
rules take an operator as parameter, which the provers cannot instantiate; its
rule of minimal elements takes a set, and with a set of indices in the place of
a predicate it gives induction over the images of a scan and over the entries of
a file.

`AdmissionQueueProofs`: `Conservation`, `LimitHolds`, `ReceivesReady`,
`Refinement`, `NoCircleForms`. `IInv` is `TypeOK` with `TokensConserved`: the
type alone is not inductive because nothing says that `limit` is at most `Size`
after a receive elsewhere, and `ReceivesNeverBlock` follows only from counting.
The core is a lemma on how one step of one request changes
`Cardinality(At(S))`, for any set of places `S`; each action then balances the
channel it uses against the places it moves between. The refinement maps a
slot's holders to the requests in `LimitOwners`. `NoCircleForms` draws `NoCircle`
from the same counts: a request that waits, for a slot or for its own sender,
always has somebody at work to wait for, since a full limit channel has an owner,
and an owner waits at most for a sender that is on its way. All of it is about
handlers that keep the queue's contract.

`SessionHubProofs`: `SlotsConserved`, `OverCommit`,
`NoForgottenContainer`, `NotReadySound`, `PoolUntilSecondRelease`,
`Refinement`, `HangsOnlyBehindCreate`. `IInv` adds to the properties a
`Support` part that ties the places of handlers to their jobs, the map to the
places of create, and each owner to a session that is off the map and has not
been freed; without it a second owner of a session, which would free its slot
twice, is not excluded. `ExpiryHolds` adds that a session about
to be put has its timer, or a DELETE from it, or has lapsed, and rests on
`Support`. `SlotsAccounted` speaks of both channels. `LimitAccounted` follows
the holders of slots one by one; `UsedAccounted` compares three sets, the
sessions that were counted, those given back and the DELETEs between the two
receives of `Release`, and is what shows that a DELETE that took its session off
the map can hang in `queue.Release` only behind a second release, or behind a
`create` that has still to count a session already given back
(`WaitsForCreate`, proved in `HangsOnlyBehindCreate`, the safety part of
`DeletedSessionStops`).
`PoolUntilSecondRelease` says that until a slot is released a second time every
step is one of `SlotPool`, read at the sessions, and `Refinement` that a hub
where this never happens implements it.

`CoDelQueueProofs`: `ClockRefinesQueue` first, since a clock that only observes
must not let anything happen that the queue does not do; with it `IInv` of the
queue is at hand. `TInv` adds `ClockOK`, that a prompt admission is remembered
(`lastEmpty` is no older than the last tick that ended with a slot to spare, or
that slot is still free or on its way to a request), and that nobody has waited
for longer than all slots have been taken. From it follow `ClockHolds`, `ShedHolds`, `RefusalHolds` and
`GaugeHolds`; `ThresholdsOrdered` is arithmetic on what `New` derives.

`HarRecorderProofs`: `SavedHolds` and `FileIsFinal`. The invariant says what
orders the parties: without a borrowed token no DELETE is past `Release` before
create is through, and the `sync.Once` is done only after the file is there,
which is written only after the reader has ended. `FileIsFaithful` and
`TypeCorrect` rest on a second one, `LogInv`: every entry is `Traced`, that is,
it points at the last announcement of its id among the frames read, and at the
last answer and end after that, and the entries were numbered in the order of
their announcements. A frame moves one entry and leaves what the others point
at the last one (`LastStays`, `LastMoves`). A file orders the entries by `seq` and its
reference by frame, and `SortedSame` shows that two rankings that agree give one
order: two orders of a set that differ would differ first at some place, where
each has an element the other puts later. `CloseNeverStuck` is what `CloseEnds`
rests on besides fairness.

`ShutdownProofs`: `ArtifactsSafe` needs that a file lies under the path of its
artifact and that an upload has its own file open and removes only what was
sent; both fail for shared names, which is why `Own` is in the property.
`CleanExit` needs that containers belong to living sessions, these to the map,
that no request is active once the sweep begins, and that nothing was swept
before; what is left over is excused only by a refusal of Docker's that the
state remembers. `MetadataComesLast` needs that metadata begin when Cancel is through, and with
the two invariants before it gives `TypeCorrect`.

`NewSessionProofs`: `TypeCorrect`, `SlotIsSettled`, `NothingIsLeft`,
`FilesArePutAway`, `RecorderIsFirst`. `TypeOK` bounds the attempts only because
the fallback to `/wd/hub` is taken once (`AttemptsCounted`), and a step of
`create` is safe only where the service stands where `create` believes it does
(`InStep`). `NothingLeftRunning` and `RecorderStopsFirst` need `MadeSoFar`: what
each call of the service finds made before it, and that the recorder is gone, or
was refused, once the browser's turn has come. `EndsInSteps` gives a number,
`StepsLeft`, that every step brings down, another attempt included, since the
attempts are bounded: a request, its session's end and the deletion take at most
43 + `MaxCandidates` + 2 * `MostAttempts` steps. `RequestEnds` is this and
fairness.

`ConfigCatalogProofs`: `FileAlwaysWins` and `OutageKeeps`, for any number of
reloads at once. The invariant is that the catalog is `Loaded` of one reading
(`OneReading`): reloads may overtake one another, and still no catalog mixes two
readings. `DefaultIsNewest` and `TypeCorrect` need what `FromImages` computes:
`NewestIs` shows by induction over the list that the version kept is one of the
images' and that no image before the index is newer, for which `newer` has to be
transitive (`NewerTransitive`, by the least index at which two versions differ).
`ScannedDefaultIsNewest` compares by `AtMost`, which says in its own words what
an order number by number is, for versions of any length; `NotNewerAtMost` ties
it to the code's `newer`.

Model-checked only: the liveness properties (`WaitingEnds`, `QueueReceiptEnds`,
`BudgetEndsWait`, `DeletedSessionStops`, `IdleSessionExpires`, `CreateEnds`,
`RequestEnds`, `CloseEnds`, `ReaderEnds`, `ShutdownEnds`). They rest on fairness,
which the prover does not reason about; where their safety part is a theorem it
is named above (`NoCircleForms`, `HangsOnlyBehindCreate`, `CloseNeverStuck`,
`EndsInSteps`).

## 6. Plan

Done: AdmissionQueue with SlotPool; CoDelQueue; SessionHub with the recorder's
dial; BrowserService and NewSession; ConfigCatalog; HarRecorder; Shutdown with
the artifacts. Proofs of every safety property the runs check.

Next: the safety parts of `ReaderEnds`, `ShutdownEnds` and `IdleSessionExpires`
as theorems, in the way of `CloseNeverStuck` and `EndsInSteps`; NewSession as an
implementation of what SessionHub's create handler does for one session.

Not modelled:

* What bytes streams and transfers copy, how JSON is rewritten, how container
  settings are computed, metrics and flags: no state that concurrent requests
  share.
* A hub killed between two steps, in SessionHub: nothing of its state is kept,
  and what stays outside (containers, files) is in Shutdown.
* Failures of the disk when the HAR file or the metadata are written.
* A DELETE of the idle timer that cannot reach the hub; the proxied stream that does not reset the timer while
  it copies; an upload into a container, which does not reset it either.
* Docker calls that never return, for which the liveness properties of NewSession
  and Shutdown have an assumption: the code sets no timeout on them.
