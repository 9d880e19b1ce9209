# A verification of tantu

tantu connects two paired machines. One has the browser and one has the work: a
sign-in started on the work machine is completed in the browser of the other (the
OAuth bridge), and files and texts are sent between them (QuickDrop). A
long-running Hub on each machine serves both, keeps histories and shows a
dashboard. This directory holds TLA+ models of the parts of that program where
several goroutines, two machines and a file system have to agree, the TLC runs that
check them on small instances, and TLAPS proofs that settle the most important
properties for every instance.

Everything is translated from the Go source; `PROJECT.json` maps each definition to
its lines.

## 1. Inventory

| component | state it keeps | operations | hard behaviour |
|---|---|---|---|
| QuickDrop sender (`drop/sender.go`) | offset, digest, outcome | `SendDrop` | timeout after the last byte: was it saved? |
| QuickDrop receiver (`drop/receiver.go`) | session, running SHA-256 | `ReceiveDrop` | many sessions interleave; every chunk may be the last one received |
| Hub drop callbacks (`hub/hub.go` 1820-2230, 3034-) | reservations of drop_ids, open files, inbox | `OnMeta`, `BeforeComplete`, `OnDropReceived`, `OnDropDoneAttempt` | work after the mutex is left; cleanup against the next attempt |
| quota (`drop/quota.go`) | sessions and bytes, in total and per peer | `Acquire`, `AddBytes`, `Release` | growth of streams of unknown size, int64 range |
| completion ledger (`drop/tombstone.go`) | key -> completion, its file | `Lookup`, `Record`, `load` | the write is outside the mutex; restart |
| staging (`drop/staging.go`) | partials, manifests, activity markers, a lock directory | acquire, touch, sweep, budget | two processes, stale locks, crash leftovers |
| sign-in B-side (`bridge/bside.go`) | one request | `Run` | exactly one delivery to the application |
| sign-in A-side (`bridge/aside.go`) | callback listener, captured callback | `Run` | the fixed callback port is a shared resource |
| session registry (`bridge/session_registry.go`) | live sessions | `Register`, `Cancel`, `CancelOnPort`, `CancelByFlow`, `CancelAll` | a canceller waits, without a lock, for the cancelled |
| coalescing (`bridge/session.go`) | active keys, recent answers | `acquire`, `wait`, `finish` | identical retries join or replay |
| listeners and dispatcher (`transport/lan.go`, `ssh.go`, `bridge/dispatcher.go`) | handshakes, queued and live connections | `Accept`, `Close`, `Serve`, `handleConn` | a connection authenticated while the listener closes; the drain at shutdown |
| relay coordinator (`hub/relay_coordinator.go`) | one call per request key | `Do`, `relayOAuth`, `CancelRelay` | cancel before registration, stale snapshot, detached contexts |
| histories (`hub/relay_history.go`, `hub/operations.go`) | bounded lists and their files | record, update, clear, load | snapshot under the lock, write outside it |
| publication (`hub/hub.go` 3034-) | files under their final names, hidden temporaries | `finalizePartFile` and what it calls | look-up and rename are two steps; crash in between |
| Hub lifecycle (`hub/hub.go`) | a generation with its listeners, tasks and readiness channel | `Start`, `Stop`, `Ready`, `Err` | several callers of each, one object, several generations |
| runtime slot (`hub/ipc.go`) | `hub.json` and its lock | claim, probe, remove, delegate | a slow Hub taken for a dead one |
| dashboard (`hub/web_dashboard.go`, `logger.go`) | links, sessions, cookies; the event ring and its streams | exchange, request, subscribe, replay | one-use links, sliding lifetimes, reconnects |
| pairing (`pairing/handshake.go`, `pair.go`, `hub/unpair_notify.go`) | both users' decisions | initiator, responder, remove | one side saves, the other does not |
| peer store (`pairing/store.go`) | peers, default, active peer, identity, files | add, remove, resolve, confirm address | two processes, replacement without an atomic rename |
| peer health and addresses (`hub/peer_health.go`, `hub.go` 2380-2760) | a verdict and an address per peer | probe loop, reconcile, confirm | late answers, backoff, peers that move |
| discovery (`discovery/discovery.go`, `health.go`) | sockets, node table | start, hear, prune, close, sample | bounded tables, silent failure |
| codec (`protocol/codec.go`) | a byte stream | encode, decode | a deadline in the middle of a frame |
| directory send (`cmd/tantu/multifile*.go`) | a batch and its report | expand, send, report | keys shared by files, a second run after a partial one |
| pages, terminal output, path rules, tools | - | - | no protocol state of their own |

How they interact. The dispatcher accepts a connection and hands it to
`ReceiveDrop` or `ASide.Run` with callbacks into the Hub. Sessions of the receiver
share the quota, the ledger, the drop_id reservations and the staging directory.
Sessions of the A-side share the registry, the coalescing manager and the loopback
ports; a cancel (a `bridge_cancel` message, the dashboard, or a newer sign-in that
needs the port) reaches a session through the registry. On the machine with the
application the relay coordinator runs one B-side per request key, and its
`CancelRelay` ends the local wait and asks the peer to release its half. `Start`
brings up the listener and the dispatcher, claims the runtime slot so that commands
find this Hub, and begins the background work: the heartbeat, the discovery engine
and, when a beacon comes from an address nobody is recorded at, dials that may
confirm a peer's new address in the store. The store is shared with the command
line, and so are the staging directory and the slot.

What makes each part correct: nothing is published but what was sent, and what the
sender is told is true; a retry is harmless; quota, ports, keys and reservations
always come back; a cancellation is never lost and never hits the wrong sign-in;
every caller gets an answer; trust needs both users' consent and no crash loses it;
one Hub serves a store, one generation serves a Hub, and both can be found and
stopped; what is shown (history, health, events, the result of a batch) is what
happened.

The hazards these statements are aimed at are listed, with the line where each one
bites, in `PROJECT.json`.

## 2. Modules

| module | models | proofs |
|---|---|---|
| `TransferQuota` | `drop/quota.go` | `TransferQuotaProofs` |
| `Tombstones` | `drop/tombstone.go` | `DropTransferProofs` |
| `DropTransfer` | a transfer end to end; composes the two above by `INSTANCE` | `DropTransferProofs` |
| `StagingArea` | `drop/staging.go`: lock, markers, sweeps, budget | `FilesProofs` |
| `Publication` | `finalizePartFile` (`hub.go`), renames of `staging.go` | `FilesProofs` |
| `HistoryLedger` | the two histories and their files | `ListsProofs` |
| `Selecting` | the filter loop that several modules use | `ListsProofs` |
| `SignIn` | B-side, A-side, registry, coalescing, ports | `SignInProofs` |
| `RelayCoordinator` | callers, leaders' flows, cancellations, recorded attempts | `RelayCoordinatorProofs` |
| `Pairing` | both exchanges, the dialogs, removal and its notice | `ControlProofs` |
| `PeerStore` | `pairing/store.go` | `FilesProofs` |
| `PeerHealth` | the heartbeat and the door to background work | `LiveProofs` |
| `Reconnection` | addresses of peers that move | `LiveProofs` |
| `Discovery` | the engine, its table, its health and the watcher | `LiveProofs` |
| `HubLifecycle` | `Start`, `Stop`, `Ready`, `Err` | `LiveProofs` |
| `RuntimeSlot` | `hub.json` between Hub processes and commands | `ControlProofs` |
| `Dispatcher` | LAN and SSH listeners, sessions, drain | `LiveProofs` |
| `Framing` | `protocol/codec.go` | `FilesProofs` |
| `DashboardAccess` | links, sessions, cookies | `ControlProofs` |
| `EventStream` | the event ring and its streams | `ListsProofs` |
| `DirectorySend` | `tantu send <directory>` | `ListsProofs` |

The `MC` modules give them their instances. `MCFiles`, `MCControl` and `MCLive` put
several components that share no variable into one run each: a variable `topic`,
chosen in the initial state, says which component moves, and the others stay as
they started. That is a union of the components' state spaces and not a product,
and loses nothing, since no behaviour of one can depend on another. Components that
do share state are composed properly: `DropTransfer` drives the quota and the
ledger by `INSTANCE`, and every step of it is a step of theirs or leaves them alone
(`LedgerImplemented`, `QuotaImplemented`); a restart of the Hub is the one step
that empties the quota.

### TransferQuota
State: the total counters, the per-peer entries and the lease of every attempt.
`Acquire`, `AddBytes` and `Release` are one action each, as each runs under the
quota's mutex. A declared size of 0 means unknown: the reservation is then one
chunk, capped by the limits, and every received chunk grows it. The int64 range is
the constant `MaxTransferQuotaBytes`; the overflow check of `Acquire` is the
operator `NoOverflow`.

### Tombstones
The ledger in memory, the file, and for every writer the snapshot it took under the
mutex and has not written yet: `Record` and `Persist` are two actions. Where a
rename is refused the file in the way is moved aside first (`MoveAside`), and a
second refusal may or may not put it back (`PersistFails`). `Restart` loads the
file or nothing, since `load` ignores a file that is unreadable, too large or no
ledger. The order of the ledger is the order of completion, so the cap removes its
oldest entries. The 24 h retention is left out: no run is about a clock.

### DropTransfer
An attempt is one `SendDrop` with its own connection; a retry is another attempt.
The wire is a pair of channels, the one towards the receiver bounded by
`ChannelCap`; a break (`ConnFail`) loses any tail of what is under way. A payload
is a sequence of chunks and its digest is the payload itself. The receive session
has a step for every place where the code leaves a mutex or waits: `Lookup`,
`Reserve`, `Stage`, `SendAck`, one `RecvChunk` per chunk, `Verify`,
`RecordCompletion`, `PersistLedger`, `SendComplete`, then `Received` and `Done`, or
`Failed` and `Cleanup`. Refusals are actions of their own. `Crash` ends the
receiving Hub and starts it again; disk state stays, and the owners of markers are
gone. `Claim` is `ClassifyTransferError` with the byte counts the dashboard passes
to it, so the properties about what the user is told quantify over the real
classification. Metadata validation, file names and progress reports are
abstracted.

### SignIn
A request is one B-side run with its request id. On the A-side a session steps from
`Register` through `Acquire` (own, join or replay), `CollectOnPort`,
`CancelNext`/`WaitForRelease` for each session it found, `Bind`, `Callback`,
`AwaitComplete`, and its deferred calls in their order: `CloseListener` (which
signals the release), `Finish`, `Unregister`. `Bind` fails behind another session's
listener, and also when a program outside tantu holds the port. A request id is
drawn at random (`bside.go`, `generateRequestID`), so no entry of the registry is
overwritten by a second request with the same id. Each registry or manager call is
atomic; the wait for a release is not, and may time out. A done context closes the
session's connection some time later (`ConnDown`). Users cancel through the
registry at any time.

### RelayCoordinator
A caller of `relayOAuth` is refused, follows the call in flight for its key, or
leads a new one; the leader's `Register`, ledger updates, dial, flow, `Clear` and
`Leave` are separate because cancellations come in between. Contexts keep their
first cause. `CancelRelay` is a snapshot (`ChooseTarget`), the lookup by id and
then by key, the release, and the final ledger update. The HTTP request of a caller
may go away at any time.

### StagingArea
Processes receive into partials and maintain the directory. The maintenance lock is
taken by `LockMkdir`, kept alive by `LockHeartbeat`, and taken from a holder that
looks dead in two steps, `LockJudge` and `LockReclaim`; the second removes whatever
lock is there by then. An activity marker is acquired, touched and released, and a
stale one is looked at and removed in two steps. A sweep goes over the directory
entry by entry: it lists first, looks at an entry (`SweepLook`) and removes it
(`RemovePartial`, then `RemoveRemains` for the manifest and the marker that go with
the bytes), so that what it saw may have changed; manifests and markers that a
crash left without their bytes go the same way, and `SweepLegacy` turns to the
partials beside the final files. The budget (`BudgetLook`) counts partials and such
left-over markers. Age is `Tick`, bounded by `MaxClock`.

### Publication
A delivery verifies its partial (`VerifyStaged`), makes the directories
(`EnsureRelDirs`), looks a name up (`LookUpName`) and renames onto it
(`RenameIntoPlace`), or copies through a hidden temporary; the copy, its check and
its final rename may each fail (`CopyFails`). A crash may fall between any two of
these; `SweepTemps` runs at the next start.

### HistoryLedger
Both histories have the same shape: the list changes in one section of its mutex,
is copied in another, and the copy is written later (`RecordOp`, `CopyHistory`,
`WriteHistory`, and their relay counterparts). The clear button empties the list
and removes the file in two steps. `LoadOps` keeps what `ValidOp` accepts.

### Pairing and PeerStore
`Pairing` has two machines, an attempt for each that dials, and an ordered
connection that may break with what it carried. A side sends its hello, asks its
user, sends the answer, awaits the other's and saves. A Hub started with
`--auto-pair` does not ask (`AutoAccept`), and `Consents` counts that as its user's
yes. After the older exchange the dialing machine reads its list and adds the peer
once more (`RelistReads`, `RelistAdds`). Removal sends one notice, which may be
lost or late. `PeerStore` is the file system below: the directory lock, which is
judged stale and removed in two steps (`JudgeStoreLock`, `RemoveStoreLock`), load,
modify, and replacement, either by an atomic rename or (`replaces = FALSE`) by
moving the old file to a backup first; a crash may fall between any two, and the
next load restores a backup that has no file. The processes in `slow` may be
suspended in the middle of a call until their lock is stale. A re-add
(`NormalizePeer`) works from the list its caller read earlier, and `reflagged`
remembers the peers whose default flag it brought back.

### HubLifecycle, RuntimeSlot and Dispatcher
A generation is named by the `Start` call that runs it, and goes through its two
binds (`BindWire`, `BindWeb`), claim, serve, ready, run, cleanup; whatever fails
gives back the listeners that are there. `Stop` captures a generation, shuts the
door to background work, waits for the run loop and for the probes, each with its
timeout. `RuntimeSlot` is the same claim seen from several processes: the lock
directory, judged stale and removed in two steps, the descriptor, which is renamed
into place or first moved aside (`MoveAside`, `PublishOrRestore`), the probe that
may miss a live owner (`ProbeFindsNobody`, bounded by `MaxMissed`), and a command
that reads the descriptor and is executed by whoever accepts its token.
`Dispatcher` follows a connection from the raw accept through its handshake
goroutine and the slot it holds (freed after the bookkeeping on the LAN and before
the queue over SSH), the queue, the session cap and the first envelope to its end,
and the three parties of a shutdown: the listener's `Close`, the watcher that waits
out the grace, and the accept loop.

### PeerHealth, Reconnection and Discovery
`PeerHealth` separates a tick (read the store, synchronise the probes, collect what
is due, start what fits into the pool) from the probes, which look their peer up
when the dial starts (`ResolvePeer`) and whose verdicts are recorded after the
schedule has been looked up again. `Reconnection` knows where a peer is and where
it is recorded to be; a beacon starts an attempt that dials the candidates, and
only a connection that authenticated the peer moves its record. `Discovery` has the
sockets' own life, the table with its two limits, the rate limit of sources and the
sampler, which reports a fault once when it begins and once when it ends. What
counts as a fault is what the code samples: no listening socket bound, or a beacon
that could not be written (section 6 names what is never reported).

### Framing
The stream is a sequence of cells; a write may stop after any cell and a read may
be cut at any cell. Sizes are classes relative to the two budgets.

### DashboardAccess and EventStream
A link is minted, presented by whoever has it, and exchanged for a session in two
steps; every request slides the session and its cookie, whose answer may be lost.
`EventStream` gives an event its id, appends it to the ring and queues it for every
open stream in the steps in which the code holds its locks; a browser reconnects
with the last id that arrived.

### DirectorySend
A tree is expanded into files with names (flattened or not), within limits on their
number and their bytes, each is sent with a key derived from the user's, directly
or through the Hub, and the batch ends in a status and an exit code. A transfer may
fail (`SendFails`) or its answer may be lost (`AnswerLost`), the user may
interrupt, and the command may be run a second time. What the command is then told
is the classification of the code, size by size: a lost answer is a duplicate risk,
except that of an empty file, or of a request to the Hub, it may also be a plain
failure; and a cancellation before anything arrived may be called a risk. The
receiver is its ledger of completed keys.

## 3. Runs

| run | instance | properties |
|---|---|---|
| `drop_changed_file` | 2 overlapping attempts on one drop_id, the file changed in between, 3 chunks, a crash | `PublishedIntact`, `StagedOwnsDrop`, `ClaimsTrue` |
| `drop_retry` | 3 sends in a row on one key, the third with other content | `AtMostOnce`, `SuccessClaimsTrue` |
| `drop_live` | 2 streams of unknown size, quota of one session, close errors | `QuotaReturned`, `SendsAndSessionsEnd` |
| `sign_in` | a sign-in, its identical retry and a fresh one on one port; registry of 2, one active key | `TypeOK`, `HeldPortIsReleasable`, `RetrySparesOwner`, `ReplayIsReal` |
| `sign_in_live` | 2 fresh sign-ins on one port, user cancels, broken connections | `ReleasedPortIsFree`, `SessionsEnd` |
| `relay` | a relay, its retry, another request; one in flight, one cancel, one caller who leaves | `TypeOK`, `OneFlowPerKey`, `CancelHonoured`, `CancelReachesTarget`, `AttemptSettled`, `CallersReturn` |
| `files` | quota (4 attempts, 2 peers), staging (2 processes, 2 partials, a crash), publication (2 deliveries of one name, a crash), each history (2 records, room for 1), store (2 processes, 2 peers, a crash), codec (2 frames, a cut) | `WithinLimits`, `SessionsAccounted`, `BytesAccounted`, `OwnerMarked`, `MaintenanceSpares`, `VisibleIsWhole`, `HistoryTruthful`, `StoreSound`, `FramesSound` |
| `control` | pairing (both dial, a fault, a removal), lifecycle (2 generations, a stopper or a waiter), slot (2 Hubs, a command, one missed probe, a death), 2 browsers and 3 links, an event stream of 5 events over a ring of 2, a directory of 4 paths, one of them empty, of which up to 3 exist, sent twice | `TrustAgreed`, `GenerationsSound`, `SlotSound`, `RunningHubFindable`, `AccessGuarded`, `StreamFaithful`, `BatchSound` |
| `live` | heartbeat (2 peers, a pool of 1), 2 peers that move between 4 addresses, discovery (table of 2), a Start and a Stop, 2 connections with room for one session on either transport | `StateBounded`, `AddressWasProven`, `SessionsGuarded`, `PeersSettle`, `ShutdownEnds` |

What the runs of several components show, part by part:

- *staging*: a partial in use is marked by its user and spared by every sweep of
  both processes, whatever dies; no file that is not Tantu's is removed.
- *publication*: what is visible is whole and verified.
- *histories*: a row shown to the user is the only one of its transfer and does not
  claim what did not happen; what was cleared stays cleared, except in the races
  section 6 names.
- *store*: no crash and no second writer loses a pairing while no process is
  suspended in a change for 30 seconds; a name resolves to the peer it means or to
  none, the selection is paired, there is one identity.
- *codec*: a decoder never resumes inside a frame and delivers what was sent.
- *pairing*: nobody is trusted without both users' yes to one attempt (given
  beforehand where a Hub runs with `--auto-pair`), and without a fault both
  machines end alike.
- *lifecycle*: generations do not overlap, `Stop` outlives the probes it waits for,
  whoever waits on `Ready` is woken and learns the outcome.
- *slot*: as long as no probe missed a live Hub, one serves; a command is executed
  by the Hub whose descriptor it read; a Hub that ends never deletes its
  successor's descriptor.
- *dashboard*: a link admits one browser, a browser in use stays admitted, and one
  admitted to an earlier run is out; a reconnecting browser gets every event in
  order that the ring or its queue could hold.
- *directory send*: exit code 0 is true when no two files share a key, a plain
  failure of a first direct run means that no file with content arrived, and a
  second run with a key publishes nothing twice.
- *background work*: state belongs to paired peers and is bounded, a removed peer
  disappears, a peer that changed network is found again, and a discovery engine
  that bound no listening socket, or could not write a beacon, is reported.
- *shutdown*: `Stop` and `Serve` return; no connection leaks; on the LAN no session
  is cut within its grace.

Three runs end in a counterexample on purpose: they state what the repository says
and show that the code does something else.

| run | what the repository says | what happens |
|---|---|---|
| `batch_same_name` | a partial send is never mistaken for a complete one | two files of a directory whose derived keys agree and whose contents are equal: the second is answered as a duplicate of the first and reported as sent, and is not on the peer |
| `publish_same_name` | publication does not overwrite | two deliveries of one name both find it free, and the rename of the second replaces the first |
| `peer_moved_port` | a peer that moved its port is found again | a beacon from a host some peer is recorded at is ignored, whatever its port |

### Why the bounds are enough
Two attempts are what every disagreement about one drop_id needs (the one that
stages and the one that interferes), and three are needed for the ledger: one that
publishes, one that is suppressed, one that conflicts. Three chunks give a head, a
middle that differs and a tail, so a resumed prefix can be right or wrong behind a
head that matches. A channel of one frame already separates "sent" from "received".
Three sign-ins are an owner, an identical retry and a rival, and a registry of two
makes the third meet the limit. One cancellation meets a leader at every step; a
second one would only repeat its writes. Crashes are bounded by `MaxCrashes`,
quotas are set so that a second session is refused in `drop_live`.

Sequential sends in `drop_retry` (`Overlap = FALSE`) are deliberate: with two at
once both may publish, and the older snapshot of the ledger may be written last
(section 6). That run shows what a retry is worth after a lost answer, and nothing
about overlapping writers.

In `files`, a ring or a history of one entry already evicts; two processes are the
Hub and a command beside it, one that works and one that interferes or dies (what a
third can do is in section 6, and no run or theorem claims that it is harmless);
one crash falls between any two steps of anybody. In `control`, two generations are
what an overlap needs, three links are one in use, one replaced and one of the next
run, and five events turn a ring of two over while a browser is away. The directory
has two files of one base name and content, an empty one whose name makes no key,
and one of two bytes; with limits of two files and two bytes some trees can be sent
and some cannot. In `live`, a pool of one makes a due probe wait, and a table of
two with one node per host meets both limits. The other bounds cap the faults
(`MaxMissed`, `MaxFaults`, `MaxStalls`, `MaxCuts`, `MaxLostReplies`...); each is at
least one, so that every fault happens.

### Fairness
- `DropTransfer`: weak fairness of each side's steps, since Go runs every runnable
  goroutine, and of `ConnFail`, since both sides put a deadline on the transfer
  whose expiry closes the connection.
- `SignIn`: weak fairness of each A-side session, of its timer, and of the closing
  of a connection whose context is done (`context.AfterFunc`). None of the B-side
  or of the browser: a user may walk away.
- `RelayCoordinator`: weak fairness of a leader's own steps, of its timer
  (`time.AfterFunc`), of the return of a flow whose context is done, and of
  followers. A flow may otherwise run as long as it likes.
- `PeerHealth`: weak fairness of the scheduler, which a ticker wakes, and of every
  probe, which has a dial timeout.
- `Reconnection`: weak fairness of beacons from where a peer is (every Hub sends
  them periodically), of the cooldown, of the dials (they time out) and of the
  confirmation after a connection.
- `Discovery`: weak fairness of the engine's own start and close, of its loops once
  their sockets are closed, and of the watcher's ticker.
- `HubLifecycle`: weak fairness of `Start`'s and `Stop`'s own steps, of tasks and
  of the heartbeat's end once cancelled. None of a new `Start` or `Stop`.
- `Dispatcher`: weak fairness of the listener, of the watcher (the grace is a
  timer), of the accept loop, and of the end of a session whose connection was
  closed. None of a session's peer.

Deadlock is checked in the drop runs; elsewhere the system rightly stops when every
request has ended, every bound is used up or the Hub has been stopped.

## 4. Proofs

All are safety properties and hold for every value of the constants under the named
assumptions of the modules (finite sets of attempts, requests or keys; limits that
are natural numbers).

- `TransferQuotaProofs`: `TypeCorrect`, `LimitsHold`, `SessionsExact` and
  `BytesExact`. `LimitsHold` follows from the checks of `Acquire` and `AddBytes`
  with type correctness; `SessionsExact` relates the counters to the cardinality of
  the set of held leases. `BytesExact` says that the byte counters are sums over
  that set. The sum is a recursive function; that it exists, and that adding,
  growing or removing a lease changes it by that lease's bytes, is proved by
  induction on the size of the set, from the well-foundedness of `<` on the
  naturals (`LeastNumber`, `AllNumbers`), which needs no operator as a parameter.
- `DropTransferProofs`: one inductive invariant, `DropInv`, for every number of
  attempts, drop_ids, keys, payloads, limits and crashes. `DropTypes` holds the
  declarations. `Owned` says that a session that staged data owns its drop_id, and
  gives `DropsOwned`. `DiskSound` says that a session past its verification has
  hashed its payload and that every published file is its attempt's payload, and
  gives `FilesIntact`. `WireSound` says which frames and answers may be under way
  in which state of the two sides, with the buffers' bounds. `LedgerSound` says
  that the ledger in memory, the copies still to be written and the file hold each
  key once and only completions that were delivered. `QuotaSound` says that a
  session holds a lease exactly between `Reserve` and the deferred `Release` and
  that the counters are exact (lemmas of `TransferQuotaProofs`), and gives
  `LeasesGivenBack` and `TransfersWithinLimits`. `SuccessSound` says that an answer
  on the wire or an outcome is true of a delivery. The same invariant makes every
  step one of the two modules below (`LedgerImplemented`: `Tombstones` is
  implemented; `QuotaImplemented`: `TransferQuota` is, up to the restart of the
  process). Some results have hypotheses, and each one stands for something the
  code does not promise otherwise:
  - `SuccessesTrue` (`OnlyFiles`): a text lives in an inbox that a crash empties.
  - `FailuresTrue` (`Careful`): the sizes are declared, since an interrupted send
    of unknown or zero size is reported as not saved whatever arrived, and `Close`
    does not fail, since its failure is reported after the rename. `ClaimsHold` has
    both hypotheses.
  - `RetriesDeliverOnce` (`Sequential`): attempts take turns, the receiver does not
    die between publication and record and `Close` does not fail there, and the
    ledger has room for the keys in use (it forgets the oldest otherwise). It is
    about retries after a lost answer, and not about sends that overlap, which the
    code does not keep apart (section 6).
- `SignInProofs`: `TypeCorrect`, and four theorems, each through an invariant of
  its own that says where a session may be when shared state refers to it.
  `SessionsTracked` (registered or cancelled from `Register` to `Unregister`;
  listening only between `Bind` and the deferred close) gives
  `HeldPortsReleasable`. `ReleaseIsPast` (the release signal comes from a session
  past its listener) gives `ReleasesTrue`. `KeysOwned` (the owner of a key is the
  one the manager lists, and only an owner clears its port) gives
  `RetriesSpareOwners`. `SuccessDelivered` (success, wherever it is remembered,
  came from a delivered callback) gives `ReplaysReal`.
- `RelayCoordinatorProofs`: `TypeCorrect`, which includes the bound on relays in
  flight. `FlowsListed` (the map lists exactly the relays in flight, and a
  registered flow has its cancel function) gives `SingleFlight`, and makes
  `CancelHonoured` inductive (`CancelsHonoured`). `TargetsKept` (a cancellation
  keeps hold of the relay it chose) with `CancelHonoured` gives
  `CancelsReachTargets`. `EndsRecorded` gives `AttemptsSettled`.
- `LiveProofs`: `HealthSafe` through `HealthInv` (a record belongs to a peer that
  is probed or about to be cleared; a `Stop` that waited has shut the door first).
  `AddressesProven` through `AddressInv` (the peer has been where it is now, and
  the address of every sighting on its way to the store has a host and a port that
  the peer has had), and the bound on an attempt's candidates. `DiscoverySafe`
  through `DiscoveryInv` (the table, the share of one host and the rate limiter).
  `LifecycleSafe` through `LifecycleInv` (`OneUnderWay`: the generation under way
  is the one the Hub points to; `DoorKept`: a `Stop` that found the Hub running
  keeps that generation's door shut; `ChannelsKept`: the channel a generation took
  is the one `Ready` hands out; `WaitersKept`: what a woken caller has learnt).
  `DispatcherSafe` through `DispInv` (`SocketsPlaced`: whoever has an open socket
  has somebody who answers for it) and `SlotsBounded` (handshake slots).
  `LiveStateBounded` puts the five together for the composition that the run `live`
  checks.
- `ControlProofs`: three components that share nothing. `PairingAgreed` needs two
  invariants. `ConsentInv` says that a yes, whether a machine holds it, it is on
  the wire, a store rests on it or a list read earlier does, is one that was
  consented to. `OutcomeInv` says that a no is a denial, that a side which ended
  refused has one behind it, and that a side which saved still trusts until
  somebody unpairs. The second needs the first: a side that saves does so on the
  yes it received, and that yes must be the other user's. `AccessSafe` is inductive
  with `PresentRunOnly` (what may still become a session belongs to this run, as
  long as no handler outlived its listener). For the slot, `TokensTrue` (a
  descriptor has the token of its generation, also where it was read) gives
  `CommandsReach` whatever dies. `HoldersLive` says that nobody has died inside a
  transaction on hub.json. As long as that is so no lock is abandoned, whoever is
  past the lock made the one that is there, and the Hub that has the slot is the
  one the descriptor names: `SlotHeldWithoutDeaths`, for any number of Hubs. From
  the first such death on locks may be reclaimed, and then a Hub and commands may
  take one another's away: nothing is assumed of that. Of two Hubs, though, one is
  dead by then, and the slot is the other's. That is the case split behind
  `SlotSafe` and `HubStaysFindable`, whose hypothesis `TwoHubs` says that the store
  has two Hubs and any number of commands, and that no command is killed inside its
  transaction: either Hub may die anywhere.
- `FilesProofs`: `PublicationSafe` (what has a final name passed verification).
  `CodecSafe` through `EncoderSound` (how much of a frame is on the stream says how
  its call ended) and `DecoderSound` (the decoder is latched or stands in a chain
  of frames). `StoreSafe` (`StoreStands`) rests on no lock at all: for any number
  of processes, the removal of live locks included, names resolve to the peer they
  mean or to none, one peer at most is the default but for those a re-add made it,
  and where a rename replaces its destination a load finds the list saved last.
  `StoreHolds` adds what the lock gives, through six parts: who is under the lock
  made it and lives, file and backup hold lists that were saved and are never both
  missing, an update is not lost, the selection is listed or about to be cleared,
  and there is one identity. Its hypothesis `TwoTools` is the Hub and a command,
  and it promises this while nobody is `slow`: a stale lock is then a dead
  process's, and of two processes the other is the only one that can remove it,
  which is proved and not assumed. It also needs that a rename replaces its
  destination or that nobody dies (section 6 says what happens otherwise).
  `OwnersMarked` and `SweepsSpare` through `StagingInv` (`ReclaimsDead`: whoever is
  about to remove an abandoned lock is alone; `OwnedMarked`: a partial that is
  received has a marker, recent and of its receiver alone; `RemovalsRight`: what is
  about to be removed is nobody's), with the hypothesis `TwoReceivers`, the Hub and
  one receiver beside it, and none on what a removal finds.
- `ListsProofs`: the filter loop `Keep` of `Selecting` is a recursive function; its
  existence and what it keeps (order, membership, length) are proved as the sums
  are. `HistoriesTruthful` through `HistoryInv` (`RowsTrue`: lists, files and
  copies hold truthful rows, one for a transfer; `OutcomesLate`; `ClearedGone`:
  what was cleared is in no list and in no copy that will be written).
  `StreamsFaithful` through `StreamInv` (`LoggersInTurn`: one goroutine logs, and
  it logs the newest event; `RingRecent`: the ring has all events from its oldest
  on; and for each browser what it was shown, what is queued for it, what is being
  replayed and what it may still ask for). `BatchesSound` through `BatchInv` (every
  file is still to be sent or has a result; a tombstone tells of a file that
  arrived; a key of its own is published once; a file with content whose direct
  send is a plain failure did not arrive in a first run).

`TwoTools`, `TwoReceivers` and `TwoHubs` bound how many processes there are, and
are no step conditions: every step the code can take with that many is in the
model, with the removal of a lock that somebody else has made since. They are
needed. With a third process one may die under the lock, and of two that judged it
stale the later removes the one the earlier has just made. Both are then in the
critical section, and of three Hubs, or of two after a command died in the lock,
two serve (section 6).

The statements were checked with TLC first, on the instances of section 3.

Only model-checked: the liveness properties (`SendsAndSessionsEnd`, `SessionsEnd`,
`CallersReturn`, `PeersSettle`, `ShutdownEnds`), which rest on fairness. Every
other property of a passing run is the statement of a theorem.

## 5. Plan

What remains, in this order:

1. An abstract specification of delivery (a send is offered, delivered once or
   given up, and its user told the truth) that `DropTransfer` implements.
2. `CancelByFlow` and `CancelAll`, and a composition of two Hubs:
   `RelayCoordinator` cancelling across the wire into `SignIn`'s registry.
3. `HubLifecycle` and `Dispatcher` as one module, so that the drain is seen from
   `Stop`.

## 6. Known limits and observations without a run

Transfers and files:
- A retry that overlaps the first attempt is looked up before that one records, and
  both publish (`receiver.go:325`; `tombstone.go:3` speaks of at-most-once).
- A text whose final answer cannot be sent is recorded as complete but never put
  into the inbox; its retry is called a duplicate (`receiver.go:753`).
- After a drop_id is given back, the late removal of an empty partial may hit the
  next attempt's (`hub.go:2212`).
- Two overlapping writers of the completion ledger may leave the older snapshot on
  disk (`tombstone.go:144`), and a restart then forgets a completion. No property
  covers it: `SettledLedgerIsDurable` holds for attempts that take turns. A ledger
  that is unreadable or larger than `load` accepts is ignored without a word
  (`tombstone.go:206-215`), and `lastPersistErr` is never cleared once set.
- A file whose closing fails after it was renamed is reported as rejected
  (`hub.go:3067`).
- The timeout or cancellation of a send of an empty file is classified as "not
  saved" whatever the receiver did (`operations.go:243,255`): the test is that
  bytes were sent. Conversely a direct batch gives the whole size for the bytes
  sent, so that a cancellation before anything arrived may be called a duplicate
  risk (`multifile_send.go:276`).
- With three processes, a waiter that judged a lock stale may remove the one
  another waiter has just made, and two are in the critical section: the staging
  lock (`staging.go:493-512`), the store's (`store.go:215-221`) and the runtime
  lock (`ipc.go:120-123`), where with three Hubs, or with two and a command that
  was killed inside the lock, two can end up serving one store. The runs and
  theorems are about two processes (two Hubs and any number of commands), where the
  models have the same step and it does no harm.
- A process suspended for more than 30 seconds in the middle of a change of the
  store has its lock taken although it lives (`store.go:215`), and may then write
  over a newer list. `StoreHolds` says nothing of such runs, `StoreSafe` does. The
  same is left out of the models of staging and of the slot, whose holders are
  taken to finish or die.
- A peer added again from a list read earlier (`NormalizePeers`, `hub.go:903-915`;
  `handshake.go:593-601`, 632-641, 650-660) brings back a peer that was removed, or
  a default flag that was given to another, in the meantime.
- Where a rename cannot replace (Windows), with three processes and a crash: a
  reader that saw only the backup may, after a writer has published a new list,
  still rename the old backup over it, and the update is lost (`store.go`,
  `restoreBackupIfMissing`).
- A crash leaves a marker that blocks the resume of the same drop_id for a day
  (`staging.go:613`).
- Hidden temporaries of a nested publication are not swept: the sweep looks at the
  top directory only (`hub.go:3111` says they are reclaimed).
- Records of transfers in flight, and of suppressed duplicates, are dropped when
  the history is loaded (`operations.go:537`), although the ledger is written when
  a transfer begins so that a restart can show it died halfway
  (`operations.go:428`).
- A history write whose copy is older than the clear brings the cleared rows back,
  and a crash between the two steps of the clear keeps the file.

Sign-in and relays:
- Two fresh sign-ins on one port that register before either binds cancel each
  other (`aside.go:502`, `session_registry.go:236`).
- A relay that timed out is recorded as cancelled (`relay_coordinator.go:351`).
- `CancelRelay` falls back to the key, and so may release a newer relay of the same
  request; it also records "cancelled" over "complete" when it comes late
  (`relay_coordinator.go:509-519`).
- `SessionRegistry.Cancel` reports success also when its wait for the release ran
  out (`session_registry.go:236`).

Lifecycle, peers and dashboard:
- `Stop` waits for the run loop and the background work and not for the
  dispatcher's `Serve`: it returns while sessions drain (`dispatcher.go:172-182`
  promises the drain before the user gets the terminal back).
- A `Stop` delayed behind a restart shuts the background-work door of the newer
  generation (`hub.go:1483-1492`).
- On SSH, the listener's `Close` ends the connections below running sessions before
  their grace (`ssh.go:664-695`, `dispatcher.go:246-260`).
- The discovery health's flags and counters are read in two parts
  (`health.go:134-157`). It never reports an engine whose read loops gave up on an
  open socket (`discovery.go:398-404`; `Usable`, `health.go:192`, asks for the
  socket only, although `discovery_health.go:14-20` lists the give-up among the
  gaps it closes), nor one whose outbound socket never opened (`discovery.go:634`
  returns and counts nothing); and a send failure that coincides with the first
  degraded sample has no line of its own. `BindOrSendFaultReported` promises none
  of these.
- `--auto-pair` also accepts the attempts this machine dials
  (`web_dashboard.go:1538`), although its text speaks of incoming ones.
- `ReturnHandshakeError` (`lan.go:456-461`) is set by tests only and is not
  modelled; over SSH a connection has one channel, which is what the program's dial
  opens.
- A removal notice that arrives after a new pairing removes the new one.
- A link exchange that stalls for the two seconds of a shutdown and across a
  restart mints a session in the new generation (`web_dashboard.go:205-224`,
  `hub.go:1031`).
- The upload handler names its destination and the dial resolves the active peer
  once more; a switch in between sends to the other (`operations.go:694`).
- Ctrl-C does not stop a batch sent through the Hub: `SendFile` ignores its context
  (`multifile_send.go:178`). A request that times out after the Hub delivered is
  reported as failed without a duplicate risk (`multifile_send.go:314-329`).

Not modelled: TLS, SSH authentication and certificates; HTML, terminal output and
the cockpit's screens; path, name and metadata validation by string rules; the
derivation of keys, ids and codes; retention clocks; the doctor's diagnostics; the
repository's own tools. They have no protocol state, or none that a finite model
would tell us more about than the tests do. The commands other than the directory
send call into modelled packages.

