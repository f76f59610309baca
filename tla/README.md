# A formal model of mobydig

mobydig finds out which DNS names a Docker container can see, which addresses
these names have and whether the addresses answer pings. The program is a pipeline
of goroutines and channels. This directory keeps TLA+ specifications of its
goroutines, of its discovery and of its display, TLC configurations that
model-check them on small instances, and TLAPS proofs about them.

## 1. Inventory

    Docker API --> mobynet --> dig.Digger --> verifier.Verifier --> NamedAddressesMap --> renderer
                                  |                 |
                              dnsworker         addrcache + ping.Pinger

| Component | State | Operations | Talks to |
|---|---|---|---|
| `types` (quality.go, addr.go) | none: values | `WithNewQuality`, `IsPending` | used by all |
| `ping.Pinger` (ping.go) | worker pool, verdict channel `courtTV`, `stopOnce` | `Validate*`, `StopWait` | sends a Verifying notice and a verdict per address |
| `verifier.NamedAddressCache` (addrcache.go) | per address: quality, error, waiting names; a mutex | `Update` | sends to the verifier's `news` while it holds the mutex |
| `verifier.Verifier` (verifier.go) | `news`, the pinger, the slurper's `done` | `Verify` | reads the digger's channel and the pinger's verdicts |
| `dnsworker.DnsPool` (dnsworker.go) | worker pool, free connections under a mutex | `New`, `Submit`, `ResolveName`, `StopWait` | calls back with addresses or an error |
| `dig.Digger` (dig.go) | the DNS pool, `news` | `DigFQDNs`, `StopWait` | sends names, then their addresses |
| `dig.NamedAddressesMap` (addrmap.go) | name to addresses, a mutex | `Update`, `Get`, `Track` | read by the renderer |
| `dig.AllFQDNsOnAttachedNetworks` (mobynet.go) | none | one pure function | |
| `mobynet.DiscoverAttachedNames` (mobynet.go) | a cache of container details | one query | the Docker API |
| `DigAndReport`, renderer (cmd/mobydig) | `trackingDone`, `renderingDone`, ticker | compose all the above | terminal |

What makes each part hard, and what makes it correct:

* **Verifier, cache and pinger.** Two goroutines update the cache, up to *size*
  workers ping, all channels are bounded, the context may be cancelled at any
  moment. Correct means: one ping and one verdict per address, the same verdict
  for every name of it, nobody left without an answer, an orderly end.
* **DNS pool.** The pool has as many workers as connections. Correct means: no two
  tasks share a connection, a task always finds one, every connection is closed in
  the end.
* **Digger.** Every name is announced before its addresses; closing the channel
  must not race with sending to it.
* **Map and renderer.** The renderer sorts, without the map's mutex, the arrays
  that `Update` writes to. Correct means: the last drawing shows all names, all
  their addresses and all verdicts.
* **Pipeline.** Each stage ends when the one before it has closed its channel,
  over bounded channels. Correct means: the command returns, with everything it
  started over, or with an error.
* **Discovery.** Containers come and go between the calls to Docker, and their
  details are cached across networks. Correct means: what is reported was there,
  what stayed is reported, Docker is not asked again for what it has answered, no
  call sequence crashes the program.
* **Display.** Names become known one by one and in any order, and may have dots
  where nobody expects them. Correct means: no group is shown twice, and the header
  tells of all networks.

The hazards are listed, each at its line, in `PROJECT.json`.

## 2. The modules

| Module | Models | Kind |
|---|---|---|
| `Runtime` | the context and the panic of the process, channel capacity | shared by all components |
| `NamedAddress` | `types.Quality`, plain and named qualified addresses | values and pure operators |
| `Pinger` | `ping.Pinger`: pool, `courtTV`, `validate` in its two blocking steps | component without clients |
| `AddrCache` | `NamedAddressCache.Update` with its mutex, and the `news` channel it sends to | component without threads |
| `Verifier` | `Verify`: composes `Pinger` and `AddrCache` with the main and the slurper goroutine, the reader and the canceller | specification |
| `VerificationLedger` | what verification promises to the reader of the news | abstract specification, refined by `Verifier` |
| `PingStream` | `Pinger` on its own: streams, single validations, several callers of `StopWait` | specification |
| `DnsPool` | `dnsworker.DnsPool` with the tasks of `ResolveName` | component without callbacks |
| `Digger` | `dig.Digger`: extends `DnsPool` with the digging goroutine and the callbacks | specification |
| `DigStream` | what digging promises to the consumer of its news | abstract specification, refined by `Digger` |
| `FQDNs` | `AllFQDNsOnAttachedNetworks`, `sortFQDNs`, `groupNames` and the header | pure operators |
| `Discovery` | `DiscoverAttachedNames`, with Docker as its environment | specification |
| `AddrMap` | `NamedAddressesMap` and the renderer's access to its arrays | component without channels |
| `Pipeline` | `DigAndReport`: extends `AddrMap` with the main, tracking and rendering goroutines; digging and verification are instances of `DigStream` and `VerificationLedger` | specification |
| `MCVerifier`, `MCDiscovery` | symmetry sets and names for TLC | instances |
| `VerifierProofs`, `VerifierAnswers` | theorems about `Verifier`; the second builds on the first | proofs |
| `DiggerProofs`, `DiggerStream` | theorems about `Digger`; the second builds on the first | proofs |
| `PingStreamProofs`, `DiscoveryProofs`, `PipelineProofs` | theorems about the module each is named for | proofs |

A component is written without the processes that drive it; the module that
extends it supplies these. `Pinger` is driven twice, by `Verifier` and by
`PingStream`. The two abstract specifications are used twice also: `Verifier` and
`Digger` are shown to implement them, and `Pipeline` is built from them, so that
the whole command can be checked without the details of its stages. `Pipeline`
takes from them what their stages may do; that the stages do get on is checked of
the stages themselves (`verifier_cancel`, `digger`).

### How state corresponds to the code

A buffered channel is a sequence with a length of at most `ChanSize` and a flag
for `close`. A send is enabled when there is room, and panics (`panicked`) when
the channel is closed and the code has nothing against it. A `select` is one
action per case: Go picks any case that is ready, and so does `Next`. A goroutine
is a program counter; one action spans the code between two points at which other
goroutines can interfere (channel operations, lock and unlock, waits). What
happens under a mutex without blocking is one step.

* **`Pinger`.** `validate` is `Announce` (the notice, ping.go:229-233) and `Submit`
  (234), both taken by the caller. A worker's task is `Start`, then `PingFails` or
  `PingEnds` (the run returns an error, or statistics), then the deferred `Deliver`
  or `Drop`. The ICMP exchange is reduced to the number of replies, compared with
  the threshold in the code's integer arithmetic. `StopWait` is `StopPool` and, when
  all tasks are over, `CloseCourt`; that only one caller does it (`stopOnce`) is in
  `PingStream`.
* **`AddrCache`.** `Update` takes the mutex and decides in one step (`FirstSight`,
  `Stale`, `Raise`), and then sends its notifications one by one with the mutex held
  (`Notify`), gives up at a cancellation (`BailOut`), and unlocks (`Return`). The
  code notifies the waiting names in the order in which they registered (`consumers`
  is a slice). The model has a set of them and leaves the order open, so that it has
  more behaviours than the code; no property speaks of that order. An address the
  cache does not know has quality `Unknown`.
* **`Verifier`.** `pc[Main]` walks through the loop of `Verify` and its end:
  `select`, `pass` (a name without address), `update`/`tell` (`Update`),
  `announce`/`submit` (`ValidateQA`), `stop`/`stopping` (`StopWait`), `join`/`wait`
  (the select on `ctx.Done()` and `done`), `close`, `returned`. `pc[Slurper]` walks
  through the slurper. `told` and `asked` are history variables.
* **`PingStream`.** `at[c]` is where a client is, `once` is the `sync.Once`,
  `accepted`, `notices`, `verdicts` and `replies` are history variables.
* **`DnsPool`.** `free` is the free list (a stack), `resolver[w]` is what a worker
  of the pool is doing: it grabs a connection, checks the context before each of its
  two queries, runs its callback, and gives the connection back. The addresses are a
  set: their order is not part of any property.
* **`Digger`.** `dig` walks through `New`, the loop of `DigFQDNs` and `StopWait`;
  `SendAddress` and `CallbackReturns` are the callbacks. `wanted`, `answers`,
  `named` and `dug` are history variables.
* **`Discovery`.** `pc` is "center" until the center is inspected, then "networks"
  and "containers" for the two nested loops; one action is one call to Docker with
  what the code makes of its result (`InspectNetwork`, `InspectContainer`,
  `InspectionFails`), or one pass of the loop without a call (`UseCached`). `Join`
  and `LeaveNet` are Docker's, between any two calls; to join where one is already
  means to be given other aliases. `cache` is `cntrDetailsCache` and `found` is
  `mobyNetworks`. `was`, `steady`, `inspections` and `answered` are history
  variables; `inspections` counts every call of `ContainerInspect`, also those that
  fail. Maps are walked in any order, as in Go.
* **`FQDNs`.** A name, be it a container's, an alias, a network's or an FQDN, is the
  sequence of the parts between its dots, so a label, a dot and a network are
  `label \o n`, and `groupName` and `labelName` take the second and the first part
  like `groupAndLabel`, whatever they are parts of. Parts are numbers in the order of
  their strings, and 0 is the empty string, which no part is. `Before` is the
  comparison that `sortFQDNs` passes to `sort.Slice`. Names with dots may be equal
  to it without being the same; the order in which `sort.Slice` leaves these is
  arbitrary but has no influence on the groups, and `Precedes` settles it by their
  other parts.
* **`AddrMap`.** `m` has the array of addresses behind each name's slice. `Get`
  copies the slices, not the arrays: the renderer knows the first `view[n]` elements
  of the array in `m`, or, once `Update` has had to append to a full array and
  replaced it, of the array in `old`. `Update` has the mutex all the time but takes
  several steps: `Search`, then `Look` for each entry of the array one after the
  other, then `Write` or `AppendNew`. A swap of the sort is two stores, `SwapLeft`
  and `SwapRight`. Nothing keeps the one out of the other, so a whole swap may
  happen between two looks. Capacities grow to powers of two, as `append` lets small
  slices grow. The sort is the insertion sort that `sort.Slice` uses for up to 12
  elements. `raced` is a history variable: the renderer was between the two stores
  of a swap in an array of which `Update` had looked at an entry.
* **`Pipeline`.** `main` is how far `DigAndReport` got: "discover", "new", "wait"
  for `renderingDone`, and its two ways to return. `diggernews` and `news` are the
  two channels. The digger's and the verifier's steps are the actions of `DigStream`
  and `VerificationLedger`, tied to the channels. `renderer` is "start", "draw"
  until `trackingDone` is closed, "last" for the final drawing, "over". `aborted`
  stays FALSE, as the command passes `context.Background()` (cmdroot.go:46). The
  returned command ends the process, with all goroutines that are left.

Definitions commented "Mutant:" are no part of a specification. Each is a
plausible mistake in the definition after it, and the property named with it in
`PROJECT.json` fails when it takes that definition's place.

## 3. What is checked

| Run | Properties | Instance |
|---|---|---|
| `verifier_safety` | `TypeOK`, `SameVerdictForAllNames`, `PingedOnlyOnce`, `NobodyForgotten`, `NoPanic`, `NewsNeverWorsen`, `NewsInSteps` | 2 names, 2 addresses, 2 workers, 3 inputs, capacity 1, not cancelled, symmetry |
| `verifier_cancel` | refinement `KeepsLedger`, and under fairness `EverybodyAnswered`, `EndsWithInput`, `CancelledEnds` | 2 names of 1 address, 2 workers, 2 inputs, cancelled at any moment or never |
| `pingstream` | `TypeOK`, `NoticeFirst`, `OneVerdictEach`, `StopWaitWaits`, `NoSendAfterClose`, and under fairness `StreamEndsForAll`, `CancelledStops` | 2 streams, 1 single validation, 2 callers of `StopWait`, 2 workers, 2 streamed addresses, cancelled at any moment or never |
| `digger` | `TypeOK`, `ConnExclusive`, `NoConnLeft`, `NoPanic`, refinement `KeepsStream`, and under fairness `DiggingEnds`, `CancelledEnds` | up to 3 names of 2 (so one comes twice), 1 address, 2 connections, 2 workers, cancelled at any moment or never |
| `discovery` | `TypeOK`, `NamesWereThere`, `SteadyNamesFound`, `AskedUntilAnswered`, `OneGroupPerNetwork`, `HeaderComplete` | 3 containers, 1 alias with a dot, 2 networks, any attachments to begin with, 1 change |
| `pipeline` | `TypeOK`, `MapFollowsNews`, `AllNamesShown`, `ReportRightUnlessRaced`, `ShownIsTrue`, `ShownStays`, `OrderlyReturn`, and under fairness `Returns` | 1 name with up to 2 addresses, capacity 1 |

In words: an address is pinged once and all its names hear the same verdict; what
a name hears never gets worse; nobody is left waiting, be they early or late;
notices come before verdicts and no verdict is lost or doubled at shutdown;
`StopWait` does not return early to anyone; tasks do not share connections and
always find one; all connections are closed in the end; partial DNS results are
not lost; everything ends after its input, and after a cancellation even when
nobody reads any more; the discovery reports what stayed and nothing that was
never there and asks nobody again who has answered, and the display shows no group
twice; the command returns with its stages
over; what it draws is sorted, true and never taken back, and its last drawing is
complete, as long as no update meets a swap.

**Bounds.** Two goroutines of a kind are enough for each of them to be overtaken by
the other. Capacity 1 makes every channel full after one send, so that all blocking
sends do block. With three inputs a name can ask before, during and after the ping
of its address, and two names can compete for one address while another address is
being pinged. `MaxIn` and `MaxNames` only bound what the environment feeds in,
`Count` = 3 and 50% are the program's defaults. Symmetry is used in
`verifier_safety` only, which has no liveness property. In `digger` the third name
waits while two others are being resolved, and one address is enough to be lost or
to block a callback; that the safety properties hold for more of them is proved. In
`discovery` the attachments at the start are arbitrary, so a single change
at any moment puts every call before or after it, and the second network makes the
cache matter. The one alias has two parts, of which the second is also the name of a
network, so that an alias alone gets into a network's group. In `pipeline` two
addresses in the wrong order are what it takes for a swap, and the second makes the
first array grow; arrays of different names are independent of each other, so one
name is enough.

**Fairness.** Each goroutine is weakly fair: the Go scheduler runs what can run. A
ping and a DNS exchange end, since both have timeouts in the code. The reader of a
channel reads on only as long as the context is alive. Nobody is obliged to feed
an input, to close it, or to cancel. In `Pipeline` the
renderer's `select` between the ticker and `trackingDone` is strongly fair to the
latter: Go chooses among ready cases at random, and does not choose the ticker for
ever. (The command itself passes `context.Background()`; cancellation is part of
what the packages offer and of what their tests exercise.)

### Where code and documentation disagree

Six runs expect a violation:

| Run | What TLC finds |
|---|---|
| `verifier_cancel_panic` | After a cancellation `Verify` closes `news` without waiting for the slurper, which may be about to send on it (verifier.go:97-106, addrcache.go:119-121): a send on a closed channel panics. |
| `verifier_reason` | A name that asks after the verdict Invalid was cached gets no error: the cache never stores it (addrcache.go:33, 85). |
| `pingstream_threshold` | With the defaults, 1 reply of 3 is enough for 50%: the threshold is multiplied out and rounded down (ping.go:272), where the documentation calls an address invalid whose percentage of replies does not reach it (ping.go:179-180). |
| `digger_leak` | A `New` that cannot dial leaves its worker pool running (dnsworker.go:49-83). |
| `discovery_panic` | A container that leaves a network between the inspection of the network and its own, or joins it after its details were cached, makes `DiscoverAttachedNames` read `.Aliases` of a nil pointer (mobynet.go:87). |
| `display_race` | `Get` hands out the map's own slices (addrmap.go:39) and the renderer sorts them in place (display.go:118): a verdict that `Update` stores between the two stores of a swap is overwritten, and the final report shows the address unverified. |

Smaller ones that no run is spent on:

* A container that cannot be inspected is asked about again on each further network,
  since failures are not cached (mobynet.go:80-84), where the comment promises to
  avoid repeated inspection by caching all results (mobynet.go:42-44).
  `AskedUntilAnswered` says what does hold.
* The loop over the groups leaves out the first to "skip unnamed group"
  (display.go:69-71). The labels alone, which are that group, are announced last;
  until the first of them is, the header misses a network. `HeaderComplete` is about
  the time after that.
* A label or a network with a dot in its name is taken apart there
  (display.go:141-147), so its names are grouped under a part of the label, or under
  the first part of the network's name. `OneGroupPerNetwork` still holds.
* Invalid plain addresses carry no error: `QualifiedAddressValue.WithNewQuality`
  drops it (addr.go:84).
* The callback of `ResolveName` can get results and an error (dnsworker.go:138),
  where its comment says or (dnsworker.go:104-106).
* `Quality.IsPending` says the opposite of its comment (quality.go:36-45); only a
  test uses it.
* The comment on `Update` (addrmap.go:53-57) names three transitions of the
  quality, the code takes every greater one. `NewsInSteps` shows which of them the
  verifier makes.

## 4. What is proved

All theorems hold for every set of names, addresses, clients and workers, every
capacity of at least 1 and every number of inputs, with cancellation or without,
and for every set of containers and networks and any number of changes. They rest
on the named assumptions of the modules only (`RuntimeAssumption`,
`NamedAddressAssumption`, `PingerAssumption`, `VerifierAssumption`,
`PingStreamAssumption`, `DnsPoolAssumption`, `DiggerAssumption`,
`DiscoveryAssumption`, `AddrMapAssumption`, `PipelineAssumption`), which TLC
evaluates in every run. Together they state each safety invariant, each action
property and each refinement that a passing run checks.

**`VerifierProofs`**: `TypeCorrect`, `PingedOnce` (`PingedOnlyOnce`), `OneVerdict`
(`SameVerdictForAllNames`), `NoWorseNews` (`NewsNeverWorsen`). `TypeOK` is
inductive. The other three need more: that addresses are pinged once holds because
the cache knows every address that is being pinged (`KnownInv`), which holds
because only the holder of the mutex decides and notifies (`MutexInv`) and because
an entry has no waiting names after its verdict (`EntryInv`). That news never get
worse holds because everything told, or about to be told, is at most the cached
quality, and a verdict told is the cached one (`NewsInv`). One verdict for all
names follows: two names that heard a verdict both heard the cached one.

**`VerifierAnswers`**: `NobodyLeftBehind` (`NobodyForgotten`),
`PanicsOnlyIfCancelled` (`NoPanic`), `NewsComeInSteps` (`NewsInSteps`),
`ImplementsLedger` (`KeepsLedger`). On top of the invariant of `VerifierProofs`
stands `AInv`. `EndInv` is the order of the end: pool, `courtTV`, slurper, `news`,
from which only a cancellation lets the slurper depart. Hence `NoPanic` is proved
as "no panic unless cancelled"; after a cancellation it does not hold, as
`verifier_cancel_panic` shows. `AskedInv` and `RegisteredInv` say that what is
on its way was asked about, and that who was told of an address, or will be, is
registered for its verdict. `NoticeInv` says that the notice is ahead of the
verdict in `courtTV` and in the slurper's hands. `AnswersInv`, which a cancellation
ends, adds that an address without a verdict is being pinged (`PingedInv`) and
that nobody who is registered has missed anything (`StepInv`, `ConsumersTold`).
`NewsComeInSteps` assumes `MayCancel = FALSE`, which is what its run assumes also:
a cancelled `Update` may skip a notice. For the refinement each step of `Verifier`
is shown to be a step of the ledger or a stutter, under the mapping that takes the
cached verdicts for the ledger's.

**`DiggerProofs`**: `TypeCorrect` (`TypeOK`), `OneTaskPerConnection`
(`ConnExclusive`), `ConnectionsClosed` (`NoConnLeft`), `NeverPanics` (`NoPanic`).
Every open connection is in one place, on the free list or with one task
(`ConnInv`), and tasks exist only between the end of `New` and `StopWait`
(`PhaseInv`). The lemma `FreeListNotEmpty` counts: if a worker is about to grab a
connection and the free list is empty, every connection is held by one of the
other workers, of which there are fewer. That the pool has no more workers than
connections is the assumption `DnsPoolAssumption`: `New` passes one size to both.

**`DiggerStream`**: `ImplementsStream` (`KeepsStream`). A step of the digger is one
of `DigStream` because a name is announced before its task is queued
(`AnnouncedInv`), because a task has only what the DNS answered with (`FoundInv`),
and because every answer is either sent or with a task whose callback will send
it, unless the context was cancelled (`NothingLost`); so the stream is closed when
nothing is left to be sent (`CloseIsDue`).

**`PingStreamProofs`**: `TypeCorrect` (`TypeOK`), `StopsTogether` (`StopWaitWaits`),
`SendsBeforeClose` (`NoSendAfterClose`), `NoticesLead` (`NoticeFirst`),
`NoVerdictLost` (`OneVerdictEach`). The first three follow from who holds what
(`HeldInv`) and from the order of the shutdown (`StopInv`). The last two are a
count, address by address (`CountInv`): what was accepted is what was read plus what
is in the channel, the queue, the clients and the workers, once for notices
(`NoticedInv`) and once for verdicts (`JudgedInv`), and no verdict is ahead of its
notice (`OrderInv`). The lemmas on `Tally` say how such a count changes when a
sequence or a function changes in one place. The counting needs finite sets of
clients and of workers (`PingStreamAssumption`).

**`DiscoveryProofs`**: `TypeCorrect` (`TypeOK`), `AsksUntilAnswered`
(`AskedUntilAnswered`), `ReportedWereThere` (`NamesWereThere`), `FindsSteadyNames`
(`SteadyNamesFound`), `GroupsTogether` (`OneGroupPerNetwork`), `HeaderTellsAll`
(`HeaderComplete`). What Docker has answered is in the cache (`AnswersKept`), and
only what is not there is inspected. What is in the cache, in the names being
collected and in the result was a fact once, and facts are not forgotten (`WasInv`).
For what nobody touched: the cache is not outdated about it (`SteadyInv`), the
network is still to be inspected, being looked at or in the result (`NetworksInv`),
and the container is still to be looked at or its labels are there (`LabelsInv`);
the lemma `ChangeKeepsSteady` says that Docker's changes leave the rest alone. The
two properties of the display speak of a sort. `sortFQDNs` puts each name in the
place its rank gives it, so no induction over data is needed: a rank is the number
of names before a name, ranks of different names differ since the order is total
(`PrecedesIsTotalOrder`), and a name between two of one group is of that group
(`OneGroup`). Names are any sequences of parts, with dots or without, and there are
finitely many (`DiscoveryAssumption`); `HeaderTellsAll` alone is about names without
dots.

**`PipelineProofs`**: `TypeCorrect` (`TypeOK`), `EndsInOrder` (`OrderlyReturn`),
`EveryNameShown` (`AllNamesShown`), `MapHasTheNews` (`MapFollowsNews`),
`ReportIsRight` (`ReportRightUnlessRaced`), `DrawnIsTrue` (`ShownIsTrue`),
`DrawnStays` (`ShownStays`). The invariant comes in layers, each proved with those
before it:

1. `Types`: slices do not reach beyond their arrays, and what each goroutine
   remembers between its steps lies within them, whatever the other one does.
2. `PhaseInv`: the stages end one after the other (`DigPhase`, `TrackPhase`,
   `RenderPhase`), and a collision has been noticed (`RaceSeen`).
3. `FlowInv`: what was sent is asked about or in the channel (`AskInv`), what was
   told was asked about, and verdicts are told as they are (`ToldInv`), news on
   their way are not ahead of what was told (`NewsInv`), the map has all names but
   those on their way (`NamesInv`), and the last drawing is of the whole map
   (`LastInv`). This much needs no assumption about races, and neither do
   `EndsInOrder` and `EveryNameShown`.
4. `EntriesInv`, until an update meets a swap: no array has an address twice, none
   is ahead of what was told, what was told last is in it or on its way, what
   `Update` has passed is still not the address it looks for, and what it has found
   is still where it found it. In the middle of a swap an array
   has one entry twice and lacks another, so nothing of this is inductive about
   the arrays themselves. It is about `Array(n)`, the array with the entry that
   the renderer holds put back.
5. `DrawnInv`, until then also: the screen is covered by what the renderer has
   (`Slice(n)`, with the held entry put back too) and that by the map, where `X`
   is covered by `Y` if each entry of `X` is in `Y` with the same quality or, if
   that is no verdict, a later one. The arrays that the map has left behind
   (`LeftBehindInv`) are what makes it necessary: no update reaches them any more,
   but the renderer goes on sorting and draws them.

The sort is proved to have sorted, when there are no neighbours in the wrong order
left (`Sorted`), not to get there: that is liveness.

**Model-checked only**: everything about liveness and fairness, which is beyond the
prover: `EverybodyAnswered`, `EndsWithInput`, `CancelledEnds`, `StreamEndsForAll`,
`CancelledStops`, `DiggingEnds`, `Returns`. That the discovery ends needs no run: it
is two nested loops over finite sets, and TLC finds no deadlock in them. The
properties of the six runs that expect a violation do not hold, so there is
nothing to prove about them.

## 5. What is not modelled

* Pools of size 0. The command only accepts 1 to 10 workers (cmdroot.go:33-35), so
  every channel here holds at least one element and there is at least one
  connection. The packages themselves do not check their size.
* ICMP, DNS messages and network namespaces: reduced to their outcomes. The worker
  pool library is modelled by how the code uses it: tasks start in order, run
  concurrently up to the pool's size, submitting never blocks, stopping waits.
* `Pinger.StopWait` during a validation and `Digger.StopWait` during `DigFQDNs` or
  twice: the command does not do this, and the modules take its order as given. One
  test does: dig_test.go:84-102 starts `DigNetworks` in a goroutine of its own and
  stops the digger after the first verdict, whether `DigNetworks` is through or not.
* A consumer that stops reading while its context is alive.
* Creating the Docker client, flag parsing, logging, layout, styles and the phases
  of the spinner (only that it runs and is stopped), and the helpers of the tests.
* In `AddrMap`: nil and nameless news, which nobody sends; a screen is read in one
  step.
* In `Discovery`: network ids, hence two networks of one name, and renamed
  containers. Names have no empty parts, that is, no two dots in a row and none at
  either end (Docker allows none such).
* A connection that broke is not told from one that works: queries may fail at any
  time.

## 6. Plan

Done: all modules of section 2 with their runs, and the proofs of section 4. What
is left:

1. What liveness rests on, as far as it is safety: that the system is not stuck
   before it is through. For `Pipeline`, that some goroutine can move whenever
   the command has not returned; for `PingStream` and `Digger` the same.
2. A variant for the renderer's sort: each swap leaves fewer pairs in the wrong
   order, hence the sorting ends when no update comes in between.
3. What remains true of `Verifier` after a cancellation, beyond the ledger.
