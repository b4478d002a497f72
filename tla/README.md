# V2bZ: TLA+ models, checks and proofs

V2bZ is a proxy back end.  It polls a panel for a node configuration and a user
list, runs the node in a proxy core (xray, sing-box, hysteria2), limits users,
and reports traffic back.  This directory models the parts of it that keep state
and run concurrently, checks them with TLC and proves the central invariants
with TLAPS.

## Inventory

| Component | State | Operations | Interacts with | Hard part |
|---|---|---|---|---|
| Periodic task (`common/task`) | running flag, stop channel | `Start`, `Close`, the loop | every task of a controller | unlocked read of the channel, restart from inside Execute |
| Node controller (`node/controller.go`, `node/task.go`, `node/node.go`) | current configuration, user list, limiter, tasks | `Start`, `Close`, `nodeInfoMonitor`, `renewCertTask`, `reportUserTrafficTask` | panel client, core, limiter, certificates | three tasks and `Close` without a common lock, calls that fail half-way |
| Panel client (`api/panel`) | ETags, body hash | `GetNodeInfo`, `GetUserList`, `GetUserAlive`, reports | panel | what was seen is remembered before it was applied; retries |
| Limiter (`limiter`) | users' limits, online devices, buckets, registry by tag | `AddLimiter`, `UpdateUser`, `CheckLimit`, `GetOnlineDevice`, `UpdateRule` | controller, dispatcher of every connection | several concurrent maps updated one after the other |
| Selector and cores (`core`, `core/xray`, `core/sing`, `core/hy2`) | the core of each node, its users, uids, counters, marks of rejected connections | `AddNode`, `DelNode`, `AddUsers`, `DelUsers`, `GetUserTrafficSlice`, the hooks of a connection | controllers, limiter | partial failure; maps keyed by uuid that several nodes share; reading and resetting counters |
| Dispatcher (`core/xray/app/dispatcher`) | link managers and counters per user; the cache of a sniffed connection | `getLink`, `DispatchLink`, `CloseAll`; `sniffer`, `routedDispatch` | limiter and its rules, core | look-up then store; closing under a range; deadlines over several reads |
| Certificates (`node/cert.go`, `node/lego.go`, `node/options.go`) | certificate, key, metadata and account files | request, fall back, renew, report | controller, ACME, panel | files written one after the other by two tasks; crashes |
| Watcher and server (`conf/watch.go`, `cmd/server.go`) | configuration, core, nodes | debounce, reload | everything | lost changes, overlapping reloads |
| Counters (`common/counter`) | bytes per user | add, read, reset | core, connections | lost updates |
| Configuration files (`conf`, `common/json5`) | none | strip comments, decode | server | scanner at the end of the input |

What makes each correct: a task that is closed ends and one that runs is served;
the core, the limiter and `c.userList` agree with each other, and in the end with
the panel; the core never serves another configuration than `c.info`; reloads do
not overlap; a rejected device does not stay in the online table; traffic is not
reported twice; a change of the configuration file takes effect; the certificate a
node serves matches its key and is the one the panel pins; a deleted user is cut
off; nodes that share a core do not disturb each other; sniffing ends and loses no
byte.

`PROJECT.json` lists what is hard to test at its line (`hazards`).

## Modules

* `Task`: `common/task/task.go`.  A *loop* is the goroutine of one `Start` and
  names the channel made with it.  `Start`, `Close`, and the loop's steps
  `Select` (reads `t.stop` without the lock), `Tick`, `Stopped`, `ExecuteOk`,
  `ExecuteErr`.  A finished loop's name is used again, so `Loops` bounds the
  goroutines alive at once, not the restarts.
* `NodeController`: one controller with its panel client, its limiter and the core
  as it sees it.  It composes `Task` (`Monitor == INSTANCE Task`): the monitor's
  `Execute` is spelled out call by call (`FetchNodeOk`, `FetchUsersOk`, `AdoptNode`,
  `RemoveNode`, `Cert`, `ReplaceNode`, `RefillUsers`, `CheckInterval`, `Restart`; or
  `CompareUsers`, `RemoveUsers`, `AddNewUsers`, `CommitUsers`), so that the renewal
  (`Renew...`), `Close` and other loops interleave between calls.  `Controller.Start`
  is one step, because no task exists before it ends; `StartFails(i)` stops it at
  each stage and leaves what was done.
  User lists are functions to plans; `Deleted` and `Added` are `compareUserList`,
  whose key is uuid and speed, so a changed device limit is no difference.  Core
  calls fail as xray's do: on an absent node, on a duplicate or absent user, after
  part of the list.  `nodeSeen` and `userSeen` are what the client's hash and ETags
  identify.  Left out: alive counts, the traffic map, the report task (it shares
  only those and the online table with the monitor; it and its restart are in
  `Traffic`), and `optionsForNode`.
* `Server`: `conf/watch.go` and the reload of `cmd/server.go`.  Time is a clock in
  steps of the debounce: `Edit` changes the file, `Ignore` and `Spawn` are the
  watcher's two answers to the event, and each spawned goroutine runs `Wake`,
  `ReadFile`, `CloseNodes`/`NodesDown`, `CloseCore`, `NewCore`, `StartCore`,
  `StartNodes`/`NodesUp` on the shared configuration, core and nodes, next to other
  such goroutines.  A file that does not load leaves an empty configuration, or what
  `json.Unmarshal` had filled in before a type error (`Partial`).  `NodeOut` and
  `NodeBack` are what a controller's monitor or renewal does to its node meanwhile: a
  `nodes.Close()` that meets a node out of the core panics.
* `Traffic`: the xray counters and the report.  Connections (`Accept`, `GetCounter`,
  `Move`, `Disconnect`) add units, each with a name of its own, to a user's two
  counters.  Every loop of the report task reads and zeroes them one atomic operation
  at a time (`Begin`, `LoadUp`, `LoadDown`, `ZeroUp`, `ZeroDown`, `ZeroDownUnknown`,
  `EndScan`) and pushes them with retries (`Pushed`, `Refused`, `PushError`); `Restart`
  is the monitor's restart of the task, which leaves a loop inside `Execute` alive, so
  that two scans can overlap.  `DelUser` and `AddUser` interleave, but not with a scan,
  whose lock they take.  History variables record how often each loop charged a unit,
  and which units were lost, pushed again or read by two scans.  It starts with the
  node's `TrafficCounter` in place; what the report sends of online users is in
  `Limiter`.
* `Limiter`: `CheckLimit`, `GetOnlineDevice` and `UpdateUser`, where each call on a
  `sync.Map` is one step and an inner map is an object of its own, still usable by
  who loaded it.  `Check`, `Register`, `Add`, `LookOld`, `Forget`, `Undo`, `UndoFirst`,
  `Speed`, `Store` are the steps of a connection; `Begin`, `Visit`, `Copy`, `Drop`, `End`
  those of the report; `DelInfo`, `DelOnline`, `DelBucket`, `ReAdd` and `AddInfo` those
  of an update; `SetAlive` is the monitor's new alive list.  The lookup of the limits
  and of the alive count is one step.  Dynamic limits are left out: nothing sets one.
* `Cert`: `node/cert.go`, `node/lego.go`, `node/options.go`.  The monitor and the
  renewal task each run `requestCertAndReport` on the same four files: `ReadConfig`,
  `Look` (`certificateReady`), the account (`LoadUser`, `RegisterUser`, which asks the
  authority and truncates the file, `SaveUser`), `Obtain` or
  `AcmeRefuses` with the fallback to a self-signed certificate, the truncating and
  filling of the certificate and then of the key, `LoadBack`, `WriteMeta`, and
  `Report`.  `AddNode`, `ReloadDel` and `ReloadAdd` are what their callers do with the
  result.  With placeholders in a path (`Paths`) lego writes to other files than
  everything else reads.  Two registrations that save the account at once do not mix
  their bytes.  `Crash` stops the process at any step and `DiskFault` fails a write, so
  files may be torn; `Age` lets certificates expire.
* `Dispatcher`: connections through `Dispatch` (two pipes) and `DispatchLink` (the
  caller's link) are set up one `sync.Map` call at a time (`LoadManager`,
  `StoreManager`, `AddLink`, `LoadCounter`, `StoreCounter`, `GetCounter`), routed and
  closed in the ways the code closes them, against `DelUsers` of the xray core
  (`RemoveUser`, `DropCounter`, `LoadLinks`, `CloseLink`, `EndRange`, `ForgetManager`),
  whose range over the links calls back into the map it ranges over.  `DeleteUnknown`
  is the report that drops the storage of a user without a uid.
* `Cores`: several nodes on several cores.  `Candidates` is the choice of the selector;
  `Start`, `AddNode`, `AddUsers`, `Poll`, `DelUsers`, `AddNewUsers`, `UpdateUser`,
  `Reload`, `DeleteLimiter`, `DelNode` and `Report` are the controllers' calls on the
  shared cores; `Connect...`, `Request`, `Move`, `StoreZero`, `LogTraffic` and
  `Disconnect` are a connection with the hooks each core has for it, opened in one step.
  What a core shares between its nodes is in `UidKey`.  A connection adds to the storage
  it was opened with; `orphans` are those whose storage was dropped, `severed` those
  whose uid was missing at some time.  `pend` says that a counter holds something, not
  how much: the `Store` of `conn.go`, which overwrites it, is visible only when it
  stores zero (`StoreZero`).
* `Sniffer`: one connection, to an address or a domain, from the dispatcher to its
  outbound: the sniffing loop
  with its shared deadline (`Cache`, `CacheNothing`, `CacheFails`, `Tick`), the rules
  (`CheckDomainRule`, `CheckProtocolRule`) and the relaying of what was held back,
  against a client that sends and closes when it likes, `CloseAll`, and an `UpdateRule`
  that publishes its patterns before it fills them in.
* `TaskProofs`, `NodeControllerProofs`, `TrafficProofs`, `LimiterProofs`,
  `SnifferProofs`, `DispatcherProofs`, `CoresProofs`, and `FilesProofs` for `Server` and
  `Cert`: theorems.
* `MCTask`, `MCNodeController`, `MCServer`, `MCTraffic`, `MCLimiter`, `MCCert`,
  `MCDispatcher`, `MCCores`, `MCSniffer`: instances for TLC.

`NodeController` holds the controller's view of the limiter and of the core's user
set; `Traffic` and `Limiter` refine what happens below that view, per connection,
and take `UpdateUser`, `AddUsers` and `DelUsers` as arriving at any time.  `Dispatcher`
refines `DelUsers` of the xray core in the same way, `Cert` the single step in which
`NodeController` requests a certificate, and `Cores` puts several controllers, each in
the order of calls that `NodeController` has, on shared cores.

In every component module a definition marked `Mutant` before an action is that
action with a plausible mistake in it.  No specification uses one; each shows that
some property of a run would notice the mistake.

## Runs

| Run | Instance | Shows |
|---|---|---|
| `task` | 3 loops, failing Execute | no loop is stranded on an open channel nobody holds, a running task is served, a closed one ends |
| `ctl_sync` | 2 users, 3 plans, 2 configurations (one TLS), 2 panel changes, lost and garbled replies | the core follows `c.userList`; a user is cut off only if its entry changed; no panic; node and users converge |
| `ctl_faults` | 2 users, 2 plans, 2 configurations, 2 changes; certificate and core failures, renewal, `Close`; fetches succeed | the core serves only `c.info`; the limiter follows `c.userList`; a closed controller stops |
| `ctl_overlap` | 2 loops, 3 configurations (two intervals, bad rules), 3 changes, 1 user | reloads exclude one another |
| `ctl_panic` (violation) | certificate failures only | the panic in `RemoveNode` is reached |
| `server` | 2 versions, 4 edits, files that load in part or not at all, failing calls, 2 overlapping reloads, nodes out of the core | only a change between the end of the sleep and of the debounce window can be lost; reloads that neither overlap nor fail rebuild core and nodes in order, and panic only on a node that is out of the core; other changes are served |
| `traffic` | 1 user, 1 connection at a time, 2 report loops, 3 units, 1 retry, 2 user changes or restarts | nothing is charged twice but by a repeated push or two scans that read it before either reset it, at most once per attempt of each loop; four ways to lose bytes and no other; counters drain to the threshold |
| `limiter` | 2 users (one limited to one device), 2 addresses, 2 concurrent calls, 2 speeds below and above the node's, 1 report, 1 update, 1 change of the alive list | a rejected device leaves nothing behind; a device beyond the limit gets in only if known, or by a named race; a bucket has the speed in force unless an update overtook a connection |
| `cert` | a local configuration whose paths have placeholders, 5 of the panel (none, automatic with fallback, self-signed, file, invalid target), 3 certificates, 1 fault, 1 change | certificate and key match and the node serves them; the panel pins what is served; no reload is repeated; a due certificate is replaced |
| `dispatcher` | 1 user, 2 connections in both modes, 1 deletion or replacement, any number of reports | the managers hold what is open; a deleted user is cut off; what is open is counted; `DelUsers` returns |
| `cores` | 2 nodes, 2 users, 2 connections, 4 core configurations, 3 setups, 4 events | who is listed is served and charged, who is served is listed, rejections are marked, limits apply; each up to what the shared maps do |
| `sniffer` | 2 sniffers with every verdict on 2 chunks, an address or a domain asked for, 2 rule sets, 1 update | no byte is lost, repeated or reordered; sniffing is bounded and ends; a recognised forbidden protocol and a forbidden destination are refused |

Bounds.  Three loops are the current one and two survivors.  Two users let one
change while the other does not.  Two or three changes are a change, one that undoes
or overtakes it during the poll, and one after.  A garbled reply counts as a change,
so the client is disturbed a bounded number of times.  `Loops` with two elements
blocks a second restart while both loops live; `ClosedControllerStops` is checked with
one interval only, because a restart after `Close` breaks it.  In `ctl_sync` no
certificate request fails: that panic is `ctl_panic`.  In `server` a node may leave the
core and come back any number of times.  Counters are per user, so `traffic` has one
user, and loops share nothing else; two loops are the survivor of a restart and its
successor, and three units exceed the threshold of one and leave a rest in a counter
that is read by both.  A second connection would add to the same
counter, or as an orphan only lose units; the proofs have any number of them.  In `limiter` the
effective speeds of a user are 1 and 2, so a re-rate changes the bucket; a report
makes an address known, one of the two calls is let in or races the other, and the
second user is there for an address that belongs to somebody else; calls and addresses
are interchangeable (symmetry).  In `cert` three certificates are one that is there,
its replacement and that of the other task; one fault is one file torn or one report
lost, and crashes leave further torn files.  The local configuration, with its paths,
is in force when the panel sends none.  Link managers and counters are per user
and per node, so `dispatcher` has one of each, and two connections for the races of
first connections.  In `cores` the four configurations are one of each type and an
xray core whose key another takes over; the setups put both nodes on one core, or on
different ones that the selector picks; four events are, for instance, a connection,
a poll, a reload and a `Close` (connections are interchangeable).  In `sniffer` two
chunks are the first read and the one after, a deadline of two steps is shared by two
reads, and the link's own wait is longer than it.

Fairness.  Goroutines that can run do, timers fire and calls return (WF on each
loop's step, the renewal's and the second half of `Close`; on the watcher, the reload
goroutines and the clock; on the steps of each report loop; on both tasks' certificate
requests and reloads; on `DelUsers`; on the sniffing goroutine and its clock).  A
caller that keeps asking is answered in the end (SF on the two successful fetches, and
on the renewal's registration and order at the authority): without it nothing can
converge.  Nothing obliges the panel or the file to change, the watcher to close, a node
that is out of the core to come back (its certificate may have failed), a certificate
to age, a user to be deleted, or a connection to move data.  Deadlock is
not checked: a task may never be started, `Start` may fail, a panic ends the process,
and elsewhere the bounds end the calls or a connection is simply over; it is checked
in `traffic`.

## Findings

* `ctl_panic`.  A failed certificate request during a reload returns with the node
  removed.  The next configuration change finds no node to delete, and
  `log.Panic("Delete node failed")` ends the process.

Met while modelling, without a run of their own.

In the controller: with `Options.Name` set the block under `// Update limiter`
(`node/task.go:106`) is skipped, so users that arrive with a new configuration are
added to the core and rejected by the limiter; an interval change leaves the old
monitor loop alive beside the new one (it re-reads `t.stop`), and the two lose user
updates; the same restart revives the task of a controller that was closed during the
poll; the report task is given the pull interval (`node/task.go:169`); a panel that
removes its last user is ignored; a configuration fetched in a poll whose user list
fails is dropped until the panel changes it again; the renewal task exists only if the
node had TLS when the controller started.

In the server and the report: the watcher ignores events for ten seconds after one it
acted on, but the goroutine it started reads the file after five, so what is written
in between (`conf/watch.go:27`) is not read until the file changes again; a file with a
type error is used as far as it was decoded (`conf/watch.go:40` goes on after the
error); a reload that closes a controller whose node is being exchanged, or whose
certificate failed, ends the process (`node/node.go:44`); a new push interval restarts
the report task (`node/task.go:170`), and when the old loop is collecting, both loops
may charge the same bytes; the online
report (`node/user.go:38`) drops only users whose traffic is in the slice and below
the threshold, so a user without any traffic stays in it.

In the limiter: a bucket made by a connection that read its speed before an update
outlives the update; rejecting a user's first device drops the devices that registered
beside it; `UpdateRule` publishes nil patterns before it compiles them.

In the certificates: a crash between certificate and key leaves a pair that
`certificateReady`, which looks at the certificate alone, takes for good; an account
file cut off by a crash is never repaired, and every later request fails; `{domain}` in
a path is replaced when lego writes (`lego.go:164`) and nowhere else, so such a
certificate is never found; the
self-signed fallback is not recognised as self-signed (its template is no CA), so it
is kept until it expires.

In the dispatcher: `CloseAll` closes only the managed direction of a connection;
connections that are being set up during `DelUsers` escape it, as does one whose
manager lost to another first connection's `Store`; likewise of two first connections
of a node one `TrafficCounter` is lost; `CloseAll` ranges over a map that others write.
`Sniffer.Sniff` never returns `ErrProtoNeedMoreData`, so the branch for it
(`default.go:499`) is not taken, and a sniffer that asked for more data is dropped;
`CounterReader` ignores the deadline it is given and waits a second; QUIC is not in
`DestOverride`, so its domains never meet the domain rules.

In the cores: sing-box keys uids, and hysteria2 its users, by uuid for all nodes, so
deleting a user from one node stops its accounting, or its access, on another;
connections of sing-box that are open meanwhile add to a storage nobody reads, also
after the user is back; a
hysteria2 user of one node authenticates at another, where it is rejected without a
mark; a user dropped in the same poll as a reload stays in `usersMap`; without `Core`
a node may get another core at every reload; UDP of sing-box has no speed limit
(`hook.go:91`); `counter/conn.go` stores the size of the last call instead of adding
it.

## Proofs

Every safety invariant and action property the runs check is also proved, for every
value of the constants.  The argument of each proof is its inductive invariant.

`TaskProofs`, for any number of loops: type correctness, `CloseReachesEveryLoop`,
`RunningTaskIsServed`.  The inductive invariant adds that the task is running
exactly while its channel is open, and that the loop of the last `Start` sleeps on
its own channel; without the latter `Stopped` could end the loop that serves the
task.

`NodeControllerProofs`, for any users, plans, configurations, loops, number of
panel changes and set of faults:

* `ControllerTypeCorrect` and `ControllerReloadsExclude`, from `ControllerIInv`: the
  task's invariant (taken over from `TaskProofs`), the locals of the monitor where
  it uses them, and that nothing exists before `Start`.  The argument for the
  exclusion: whoever is between `DelNode` and `AddNode` keeps the node absent, and
  `DelNode` of an absent node fails.
* `ControllerImplementsTask`: the monitor of the controller is a `Task`, step by step
  (`TaskMoves`); only the end of the process is the controller's own.  So
  `ControllerMonitorServed`: the task's two invariants hold inside the controller.
* `ControllerNodeMatchesInfo`, `ControllerLimiterTracks` and the action property
  `ControllerUnchangedStayConnected`, assuming that all configurations poll at one
  interval (`FixedInterval`), the second also that no Name is set.  `SingleIInv` says
  that there is one loop, that a reload's configuration is still `c.info`, and that a
  pending difference is still the one between `c.userList` and the fetched list.  Both
  assumptions are needed: with two intervals two loops overlap, and with a Name a
  reload leaves the limiter behind.
* `ControllerNoPanic` and `ControllerCoreTracks`, assuming that only the panel
  misbehaves (`PanelFaultsOnly`: one interval, rules that compile, and no failing
  certificate request or core call, renewal or `Close`).  These are the constants of
  `ctl_sync`, with replies lost, garbled and overtaken by changes; `ctl_panic` shows
  that a failing certificate request breaks the first.  `SyncInv` fixes what the core
  holds at each point of a poll, and `DifferenceApplies` says that what
  `compareUserList` returns takes one list to the other without meeting a user that
  is missing or there already.

`FilesProofs`, the server, for any number of edits and concurrent reloads: type
correctness, `ServerLossOnlyInDebounce` (every version of the file is read, will be read
by a goroutine still asleep, has its event pending, or fell into the window) and
`ServerReloadsRebuild` (while no two reloads have met and none has failed, the stage
of the only reload fixes the state of core and nodes, and a panic is one of
`nodes.Close` on a node out of the core).

`FilesProofs`, the certificate, for any number of certificates, faults and changes and
any configurations: `CertTypeCorrect`, `CertPairMatches`, `CertServesCurrent`,
`CertPinnedIsServed` and the action property `CertNoRepeatedReload`.  `CertInv` has one
part per question:

* `IdInv`: a certificate that a request was issued is newer than the metadata it read,
  so that writing it is a change for the renewal;
* `FlowInv` and `LifeInv`: what a request that failed, succeeded or has not begun holds;
  only the monitor changes the options, and a process that is gone has no request;
* `PairInv`: a request that writes undisturbed is the only one to write;
* `ServeInv`: an undisturbed pair is served, or a request is on its way that will have
  it served (`MonitorAdds`, `RenewalReloads`);
* `AloneInv`, `PinInv`: requests that did not overlap found what is in the file, and
  that is what they report;
* `ReloadInv`: the metadata on disk are those of the last reload until the renewal
  writes others.

`TrafficProofs`, for any users, connections, thresholds, retries and number of report
loops: type correctness, `TrafficNoOvercount`, `TrafficLossesExplained` and
`TrafficOvercountBounded`, from `TrafficInvariant`.  Its parts say where a unit can be:
`StageInv` what a loop holds at each stage; `PlaceInv` that a unit is in one counter at
most and, once a loop has taken it, in none, and that no two loops have it unless two
scans read it (`shared`); `ChargeInv` that what a loop has charged of a unit and may
still charge is at most the number of attempts; `ExactInv` that nothing is added to a
counter being collected without being recorded.  Both exceptions of `NoOvercount` are
needed: the model has behaviours that charge a unit twice in each way.

`LimiterProofs`, for any users, addresses, calls and updates: `DetermineSpeedLimit`;
type correctness, which needs that a free name for a new inner map always exists
(`NewMap`, by counting who can hold one); `LimiterBucketMatches` from `BucketInv`
(outside an update every call of a user works with the speed in force, and between
`DelInfo` and `ReAdd` no call of it can begin); `LimiterRejectedLeave` and
`LimiterOverLimitExplained` from `DeviceInv`: an address in a user's map was admitted, or
a call that will take it out when it rejects the device has put it there, no two users
share a map, and two undecided calls for one device know of each other.

`SnifferProofs`, for any deadline, wait, sniffers and number of chunks:
`SnifferBounded`, from `ClockInv` (while the loop runs, the time that passed was charged
to the deadline or belongs to the read in progress, and some is left);
`SnifferBytesKept`, from `StreamInv`, which adds that a connection that was cut receives
nothing more: otherwise a later chunk could follow a gap; and
`SnifferForbiddenIsRefused`, from `SniffInv`: while the loop runs the candidates have no
clue and every other sniffer was dropped, afterwards a match is the result, and the
rules were asked about it; and from `DestInv`: the destination is the one asked for or
the one the result puts in its place.

`DispatcherProofs`, for any users, connections and deletions: `DispatcherTypeCorrect`,
`ManagersHoldOpenLinks`, `DelUsersCutsOff` and `OpenConnectionsAreCounted`, all from
`DispatcherInvariant`.  Its parts are what a connection has at each stage (`Staged`);
that the registered manager is the one of every connection not excused (`Reached`), and
that open connections of a user out of the inbound are still ahead of the deletion in
progress (`Pursued`); and that a connection's counter is the one that is collected
(`Counted`), whichever of `DelUsers` and a report drops the others.

`CoresProofs`, for any nodes, users, connections and cores of any types and names:
`CoresTypeCorrect`, `CoresLimitedUnlessClosing`, `CoresRejectedIsMarked`,
`CoresListedIsServed` and `CoresServedIsListed`.  `LimitInv` says that from `Start` to
`Close` a node has a limiter that knows its list; `ServeInv` what an inbound holds at
each stage of its controller (`Serves`), and whose each entry of a shared map is or who
left it (`Traced`); `StorageInv` that a connection lost its storage only on sing-box,
after its uid was missing.

The constants' assumptions are `TaskAssumption`, `ControllerAssumption`,
`ServerAssumption`, `CertAssumption`, `TrafficAssumption`, `LimiterAssumption`,
`SnifferAssumption`, `InputsAssumption`, `DispatcherAssumption` and `CoresAssumption`.
The type invariants are proved and, but for `CertTypeOK`, no run repeats them.

Only model-checked: liveness, since fairness is out of the prover's reach:
`ClosedTaskEnds`, `NodeConverges`, `UsersConverge`, `ClosedControllerStops`,
`ChangesServed`, `TrafficDrains`, `DueIsReplaced`, `DelUsersReturns` and `SniffEnds`.

## Plan

Done: all nine component modules, and proofs of every safety property their runs check.
Next, in order:

1. An abstract specification of accounting (bytes moved, charged, lost) that `Traffic`
   implements, and the refinement as a theorem; the amounts in sing-box's counters,
   which `conn.go` overwrites.
2. `CoreTracksUserList` with certificates that fail: what of it survives a reload that
   stops half-way.
3. The json5 comment stripper against a reference definition.

## Not modelled

Translation of configurations into the cores' formats (`core/xray/inbound.go`,
`core/sing/node.go`, `core/hy2/config.go`, `core/hy2/serverConfig.go` and the like),
geo data, loggers, command line tools, wrappers of library calls, and generated code:
they keep no state that another part depends on.  The comment stripper of
`common/json5` is a sequential function of its text.  The waiting of rate-limited
connections is a library's.  No code reaches `SpeedChecker`, the dynamic speed limits,
`RenewCert` and `CheckCert` of `lego.go`, and the FakeDNS sniffers, whose engine
`getCore` never configures.  xray, sing-box, resty, fsnotify and lego are outside; how
the code uses them is modelled.
