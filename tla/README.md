# SSHCustom: a TLA+ verification project

`sshcustomd` is a Go daemon that keeps an SSH tunnel for a rooted Android
device: it authenticates to a server, opens a SOCKS5 and a transparent listener
in front of a pool of SSH sessions, and redirects the device's traffic to them
with iptables. A set of shell scripts (a Magisk module) starts and stops the
daemon and watches over it. This directory holds TLA+ models of the parts in
which several goroutines, processes or failures meet, the TLC runs that check
them on small instances, and TLAPS proofs of what matters most for every size.

Paths are relative to the repository; `main.go` is `cmd/sshcustomd/main.go` and
the scripts are under `src/module/`.

    tlc -workers 2 -config MCSSHPool_slots.cfg MCSSHPool     # a run
    tlapm SSHPoolProofs.tla                                  # a proof module

`PROJECT.json` lists the components, the runs with what each shows, for every
property a plausible bug of the code that violates it (the definitions called
`Mut...`), the source lines of every definition, and the hazards the properties
are aimed at.

## 1. The system

### Components, their state and their operations

| Component | State | Operations | Module |
|---|---|---|---|
| SSH session pool (`SSHPool`) | slots (session, streams, reconnecting, failures), `rr`, `lastEnsure`, context | `EnsureAsync`, `reconnectSlot`, `markBroken`, `checkout`, `Dial`, `release`, stream `Close`, `KeepAlive`, `Close` | `SSHPool` |
| Tunnel control | `tunnelRunning`, `tunnelCancel`, ports, iptables rules, `State` | `startTunnel`, `stopTunnel`, the control handler, `connectionManager`, `runSocks`, `startTransparent`, signals | `TunnelControl` |
| module.prop | one file, the monitor's last status | `updateModuleProp`, the monitor | `ModuleProp` |
| State and its clients | `State`, `subs`, one channel per client | `set`, `Subscribe`, `broadcast`, `Snapshot`, `/api/v1/events` | `StateBroadcast` |
| Configuration | the copy in memory, `config.json`, `config.json.tmp`, `State` | `PATCH /api/v1/config`, `saveConfig`, start | `ConfigStore` |
| Profiles | `profiles.json`, `pf`, `sp`, `profileMu` | select, delete, save, `startTunnel`, start | `ProfileStore` |
| Module scripts | `enabled` marker, pid files, token, daemons, watchdogs, rules | start, stop, boot-reset, start-idle, network-pause, network-resume, the watchdog's loop | `ModuleScripts` |
| iptables rules | the kernel's nat chains and jumps | `Apply`, `Cleanup`, `net_clean.sh` | `IptablesRules` |
| Transport (dial, proxy, TLS, payload, handshake) | a connection being prepared | `attemptSSHAuth`, `openPreparedSSHConn`, `dialTCPResolved` | `Transport` |
| DNS resolver | `hostCache` | `ResolveHost`, `EvictHost` | `Transport` |
| SOCKS5 and transparent connections, `pipeBoth` | a connection, its pumps, timer and channels | `handleSocks5Conn`, `handleTransparentConn`, `pipeBoth` | `ProxyConn`; the pool's side in `SSHPool` |
| Metrics, public IP, diagnostics, web UI, command line, installation, packaging | display only, or one-shot | | not modelled |

### How they interact

The control handler (`POST /api/v1/control`) runs `startTunnel` and
`stopTunnel` in the goroutine of the request; each start makes one goroutine
that runs `connectionManager` for the tunnel's life. `connectionManager` waits
for a route, authenticates, makes the pool, starts the two listeners, applies
the rules, and calls `EnsureAsync` and `KeepAlive` from its loop until the
route is lost or the context is cancelled. `connectionManager` and every
reconnect of a slot call `attemptSSHAuth`; those attempts run side by side and
share the resolver's cache. Each proxied connection is a goroutine that calls
`SSHPool.Dial`, runs `pipeBoth` with two copying goroutines, and closes its
stream. The rules of a tunnel are changed by its own goroutine, by the goroutine
of the tunnel before it and by `net_clean.sh`. All of them change
`State`, which notifies the SSE clients and the monitor of module.prop. The
configuration and profile handlers write files the next start reads. The
scripts launch the daemon, and the watchdog calls a script when the route goes
or the daemon dies; scripts and daemon meet in processes, files and the
kernel's iptables rules.

### What is hard

- **Goroutines that share a slot.** Five kinds of callers start or undo a
  reconnect of one slot, holding its mutex for parts of what they do.
- **State read before an unlock and used after.** `markBroken` is called for a
  slot by someone who used an earlier session of it; `startTunnel` tests the
  flag, reads a file, and sets the flag; a PATCH merges into a copy.
- **Writers that outlive what they write about.** A tunnel's goroutine writes
  `State` and module.prop after a new start may have published its own.
- **Kills.** Android kills processes; the files must survive every step.
- **Processes without locks.** Two scripts, or a script and a watchdog's
  resume, run side by side and meet in `killall`.
- **Waits.** Backoffs, debounce, gaps, route pauses: each must see the context,
  and no wake-up may be lost.
- **Commands that fail.** `Apply` and `Cleanup` are tens of processes; any may
  fail, any may be the last one, and no lock keeps another's out.
- **Peers that stall.** A client, a proxy or a server may cut its answer
  anywhere, say nothing, or neither read nor close.

### What makes each component correct

- *Pool*: one reconnect per slot; no open session without a slot; counters that
  end at zero; every empty slot is filled again; lost sessions are found; a
  closed pool's goroutines end.
- *Tunnel control*: one tunnel at a time; the next stop reaches it; rules only
  while somebody listens; a stopped tunnel frees its ports, ends, and is shown
  as stopped.
- *module.prop*: the daemon's last word is about the last state.
- *State*: coalesced notifications lose no change; gone clients leave nothing.
- *Configuration, profiles*: the file is whole after a kill at any step, agrees
  with the copy in memory, and loses no change.
- *Scripts*: at most one daemon that was not told to end, none after a stop, one
  again after a loss, and one watchdog.
- *iptables*: rules that are applied are complete; nothing is redirected to a
  port nobody listens on, nor the daemon to itself; no jump is doubled.
- *Transport and DNS*: an answer that was known when its host was evicted does
  not come back; the SSH banner reaches the SSH client wherever the reads cut
  it; an attempt ends.
- *Connections*: a response is not cut short; a stream is given back once; the
  handler and its pumps end.

## 2. The modules

### SSHPool, SessionLedger, PooledStreams (main.go 1465-1882)

`client`, `streams`, `reconnecting` and `fails` are the fields of `pooledSSH`;
`link` is the state of the SSH transport of a session. A critical section of a
slot's mutex is one step, so `EnsureAsync` is a goroutine that visits one slot
per step (`EnsureStore`, `EnsureVisit`), `reconnectSlot` is `ReconnectStart`
(or `ReconnectAbandon`), `AuthOK`/`AuthFail`, `TripBreaker` and the backoff
goroutine `BackoffWake`; `Dial` is `CheckoutScan`, `CheckoutTake`, `DialMiss`,
`DialOK`, `DialFail`, `DialBroken`; `KeepAlive` and `Close` visit the slots one
by one. `MarkBroken`, `Release` are operators that the callers' actions use at
the place of the call. `p.mu` is held from a worker's scan to its take
(`PoolMuFree`). The delays are waits of any length.

`SessionLedger` is the abstract specification: every open session has exactly
one slot, a slot takes a session only when it has none, and gives one up only
by closing it. `SSHPool` implements it with `held <- client` and `open <-` the
sessions whose transport has not been closed by the pool. `PooledStreams` is a
second one, of the streams: a slot's counter goes up with a stream that is
taken, down with the first close of it and not with the second, and to zero with
the session. `SSHPool` implements it with its workers as the users, `ProxyConn`
with its one connection, so the worker of the one model is the handler of the
other as far as the pool can tell.

### TunnelControl, TunnelPromise (main.go 1041-1464, 2400-2811)

Checked through `ModuleProp`, whose steps include all of its own.

A caller is a goroutine of a request (control, or a configuration or profile
that is saved and restarts the tunnel), or `run`'s own start at boot: its `pc`
follows `startTunnel` from the atomic load of the flag (`StartSkipped`,
`StartNoProfile`, `StartLoad`), the store (`StartStore`), the assignment of
`tunnelCancel` (`StartMake`), the publication (`StartShow`) to the goroutine
(`StartGo`); and `stopTunnel` from the load to the cancel, the wait of 3 s that
ends either way (`StopWaited`), net_clean.sh and the publication. A restart is a
stop that goes on with a start (`AfterStop`). `mgr[t]` is where the goroutine of tunnel `t` is in
`connectionManager`; `tport`, `sport` say which tunnel listens on the
transparent and the SOCKS port, `rules` whether any of the rules are in place,
`pub` what `State` shows. The rules of a tunnel are removed and installed command
by command, between which everybody else may move: `MgrClear` removes the old
ones, `MgrApply` installs one or more and is repeated until `MgrApplied`, or
`MgrApplyFails` closes the port, after which `MgrUndo` removes what there is.
`run` lets `State` say that a tunnel is starting before it starts one (`Booted`),
and the API serves meanwhile, so its start may find the profile deleted
(`StartNoProfile`) and leave that claim behind; with `--idle` it writes
module.prop instead, which is the other disjunct of `Init`. `Signal` and `Exit` end the daemon: `run` does not wait.
`Awake` says which waits of `connectionManager` the context ends, and `MgrRank`
how far each place is from the goroutine's end. The rules are one bit here;
`IptablesRules` takes them apart.

`TunnelPromise` is what this amounts to while no two calls overlap, in four
variables: the tunnels there are, which of them were told to end, whether one
listens, whether the device is redirected. A tunnel is made only when there is
none; it ends only when it was told to and has given the port and the traffic
back; until it is told, nobody takes away the rules of one that listens.
`TunnelControl` implements it (`PromiseKept`) with `live <- LiveNow`, the tunnels
from their start to the moment the flag is reset, and `told <- ToldNow`, those
of them whose context is done.

### ModuleProp (main.go 1044-1068, 1160-1200)

`EXTENDS TunnelControl` and runs its steps as `ControlStep`: a step after which
the code calls `updateModuleProp` gives the writer a job. A job is a read, a
truncation and a write without a lock (`PropStep`), and a read of the truncated
file finds no line to replace. `run`'s write in idle mode is a job like the
others. The scripts' `set_desc` copies the file and renames the copy
(`ScriptRename`): the description becomes the script's, or is lost with the file
that was copied while it was truncated, and what a writer of the daemon has open
has no name any more. It may happen at any time; which command calls it when is
not modelled. `Sampled` stands for the changes of `State` that only the metrics
make. The monitor reads `State` when it is woken and
writes if the status is not the last one it wrote.

### StateBroadcast (main.go 222-290, 899-964)

`version` counts the changes of `State`; a setter changes it (`Mutate`) and
then offers each channel of capacity one a notification (`Broadcast`). A
client is sent a first snapshot, subscribes, and then sends a snapshot per
notification taken; a failed write or a closed request makes it unsubscribe.

### ConfigStore (main.go 590-730, 2904-3018)

Files are inodes that names point to, so that two requests that share
`config.json.tmp` behave as the kernel makes them: `Open` truncates what the
name points to, `Write` goes to the descriptor's inode wherever its name has
gone, `Rename` moves the name, a failed write may leave `Torn`. `Store` and
`Show` are the copy and `State`. `Kill` keeps names and inodes only, and
`Start` reads `config.json`. Opening, writing and renaming may each fail
(`OpenFails`, `WriteFails`, `RenameFails`). Two variables are history: `mixed`,
two requests have been under way at once, and `failed`, a save was answered with
an error since nothing was last under way (a patch that is refused does not
count).

### ProfileStore (main.go 383-420, 540-580, 731-900, 1071-1123, 3026-3206)

A request holds `profileMu` (`mu`) from the reading of the file until `pf` is
assigned; what it asks for is `SelectByID`, `Delete` or `Upsert` of what it
read, with the renaming to `profiles.json` as a step of its own. `startTunnel`
(`Begin`, `Load`, `Assign`, `Pick`, `Use`) reads `pf` and writes `sp` without
the lock that the requests hold; a read of `pf` during an assignment is
undefined in Go's memory model and gives `Torn`. `was[s]` is a history
variable: the profiles that were selected since starter `s` began.

### ModuleScripts (scripts/sshcustom.sh, sshcustom_watchdog.sh, service.sh, action.sh)

A command is a process of `sshcustom.sh` with a `kind` and a `pc`; one step per
command that other processes can see: the marker, the pid files, `killall`, the
sweep of the rules, the launch and the wait for its API, and the watchdog's
token. A watchdog's `watch` follows its loop: token and marker, route, daemon,
and the `network-pause` or `network-resume` it calls and waits for. `Redirect`
is the daemon installing its rules; `DaemonEnds` and `Reboot` come from
outside. `kill_pid_file` waits for the process it kills, `killall` does not: a
daemon told to end by it alone is `dying`, for up to 5 s, while the command goes
on (`start_daemon` sleeps one second and launches the next), and may install
rules meanwhile; `stray` marks those. `mixed` says that two commands of any origin have been under way at
once, `crossed` that two commands *asked for* have.

### IptablesRules, Redirection (internal/iptables/iptables.go, main.go 2742-2811, net_clean.sh)

A process, a tunnel's goroutine or `net_clean.sh`, has a program (`todo`): the
sequence of commands that `Cleanup` or `Apply` runs, built by operators that
follow the functions of the code. `Run` takes the next command: it has its
`Effect`, or is `Refused` by the kernel in this table (no such rule, a chain
that is hooked or not empty), or fails for a reason of its own. `Heard` is what
`Apply` remembers of it, with the errors it filters out at its end. `Kill` ends
the daemon between any two commands, and leaves the table and a running
`net_clean.sh` as they are. `touched` marks the tunnels whose `Apply` another
process's commands came into, and `owed` how many cleanings must end before a
death counts as made good.

`Redirection` is what the table is to the device: redirected or not. Only the
tunnel that has the transparent port makes it so, and once that tunnel's rules
are applied they stay so until it gives the port up or another process's command
comes in between. `IptablesRules` implements it (`RedirectionKept`) with
`redirected <- Redirected`, the presence of an OUTPUT jump to a chain with a
REDIRECT, and `applied <- Undisturbed`.

### Transport (main.go 1884-2400, internal/dnsx/dnsx.go)

An attempt follows `attemptSSHAuth`: `dialTCPResolved` with its order of system
resolver, configured servers and fallback addresses (`again` is its second
half); `httpCONNECT`; TLS; the payload and `readProbe`; the eviction; the
handshake. `Plans` are the profiles and DNS modes it is called with. The cache
is shared and has an entry per mode and host; a question is asked without its
lock. An answer is told apart only by when its host was evicted: not since it was
asked for (`fresh`), while the question was under way (`late`), or when the answer
was known, in the cache or to an attempt that is dialing its addresses (`old`).
What arrives is a sequence of marks, and a read takes any number of them. The
banner is two marks, so it may come before, in or after a read or be cut by one,
and the probe's deadline or its 64 KB may end it between the two; `torn` marks the
attempts to which that has happened.

### ProxyConn (main.go 1453-1463, 2473-2720, 2814-2843)

One accepted connection: the handler (`pc`), the two pumps of `pipeBoth` (`up`,
`down`), its channels `activity` and `done`, its idle timer and grace. Buffers
are counted, not named; `Room` is what a kernel buffer or an SSH window holds,
so a writer blocks when the other end does not read. The stream is no TCPConn:
its deadlines do nothing, and closing it unblocks nobody until the server's
answer or the end of the session (`ServerAnswers`). Neither end is bounded in what
it sends, and the client may go on after pipeBoth has closed its connection, which
resets it. `owed` counts what the server has sent and the client has not read.

## 3. What is checked

Every run finishes with all its properties holding, except the two marked
*violated*, each of which checks one sentence of a comment or a document
against the code.

| Run | Instance | Checks | Shows |
|---|---|---|---|
| `pool_slots` | 2 slots, 1 worker, breaker at 2, 2 sessions | `OneReconnect`, `StreamsBounded`, `LedgerKept` | scans, reconnects, backoffs, `markBroken`, probes and `Close` in any order keep sessions, flags and counters in agreement, and implement the ledger |
| `pool_live` | 1 slot, 1 worker, fair | `EmptySlotHeals`, `LostSessionFound`, `ClosedPoolDrains` | no wake-up is lost and nothing survives `Close` but an unanswered handshake |
| `pool_breaker` | the same | `BreakerRestartsPool` *violated* | the breaker cancels the pool and nobody makes another |
| `module_prop` | 1 caller, 2 tunnels, the monitor, the scripts' renames | `StoppedIsShown`, `StoppedIsPublished`, `RulesHaveOwner`, `StoppedFrees`, `StopReaches`, `CancelledMoves`, `CancelledDescends`, `PromiseKept` | calls one after the other make and end one tunnel at a time, as `TunnelPromise` says, whatever the old one is still doing; no port, rule, status or description of the daemon outlives its tunnel; a cancelled tunnel can always move and only moves towards its end |
| `state_sse` | 2 setters, 2 clients, 3 changes, fair | `NothingMissed`, `EventuallySent` | coalescing loses no change |
| `config_patches` | 2 requests, 2 values, 4 inodes | `TornIsReported`, `FileWhole`, `SettledAgrees`, `OnlyPatched` | one after the other, requests survive kills and write errors; side by side, of the requests that left a torn file at rest one was told that its save failed |
| `profiles` | 2 requests, 2 starters, 3 ids, 2 profiles | `FileSound`, `CopyAgrees`, `RightProfile`, `OnlyAsked` | the list, its flags, the copy and the tunnel's profile agree |
| `scripts` | 2 commands at a time, 2 daemon and 3 watchdog pids, 2 commands asked for, losses while there were fewer than 3 of both, fair | `OneDaemon`, `StopStops`, `Restored`, `OneWatchdog` | but for daemons that are ending: one, none after a stop, one again after a loss; one watchdog |
| `scripts_stopped` | the same | `ModuleStopped` *violated* | a stop during the watchdog's resume is undone |
| `iptables` | 2 tunnels, `net_clean.sh`, 3 configurations, 1 failing command, 1 death | `NothingLeft`, `SafeAtRest`, `AppliedIsComplete`, `NoLoop`, `HookedOnce` | however the commands mix, nothing is redirected to a port nobody listens on, no jump is doubled, and applied rules are complete |
| `transport` | 2 attempts, 3 plans, fair | `RetryAsksAnew`, `BannerKept`, `AttemptEnds` | an answer known when its host was evicted is not found again, the banner reaches SSH wherever it is cut, and an attempt ends in an error or in the handshake |
| `pipe` | room for 2 buffers, no bound on what is sent, fair | `WholeResponse`, `StreamReturned`, `ConnEnds`, `PumpsEnd` | the response is whole, the stream is given back once, handler and pumps end although a peer stalls |

The type invariants, and the invariants that the proofs establish on the way to
these (`EmptyWhileReconnecting`, `OpenSessionsOwned`, `SubsAreListeners`,
`NamesApart`, `OneTunnel`, `ReleasedOnce`), hold on the same instances: TLC finds
no violation when a configuration names them, or the refinements `StreamsCounted`
and `RedirectionKept` as properties, and so do the inductive invariants (`ControlInv`,
`StoreInv`, `RulesInv` and the like). No run repeats what section 4 proves.

### The bounds, and why they are enough

- *Pool*: two slots are needed for `checkout` to choose, for a scan to be
  between slots and for a session to appear in the wrong slot; slots interact
  only through `rr`, `p.mu`, the context and session identities, which two
  slots exercise. `BreakerLimit` 2 instead of 8 keeps failures below and at
  the limit. `MaxSession` 2 or 3 is the number of sessions that anything still
  refers to: an identity is used again when nothing does, so there is no bound
  on how often a slot reconnects. With one `EnsureAsync` under way and one
  sleeper per slot the race between a scan and a wake-up occurs; a slot with
  two sleepers needs `markBroken` to overtake a sleeping one and behaves like
  one that wakes twice. The proofs do away with all of these bounds for the
  safety properties.
- *Tunnel control and module.prop*: one caller and two tunnels give every race
  between a call and the tunnel that is ending, and between the writers of
  module.prop. A tunnel identity is used again when its goroutine has returned,
  so there is no bound on the number of starts. `PromiseKept` and `StopReaches`
  are about calls that come one after the other, which is all that one caller
  makes; nothing in the code keeps calls apart, and with two callers these two do
  not hold (section 5). The other safety properties are proved for any number of
  callers that overlap as they like, `run`'s own start or idle-mode write with
  requests included.
- *State*: `MaxVersion` 3 gives a change before the subscription, one in the
  channel and one dropped because the channel is full. The theorems need no
  bound.
- *Configuration*: at most four inodes exist with two requests: the named two
  and the ones two descriptors still write to. Each section has two values, so
  a lost update differs from a patch.
- *Profiles*: `MaxProfiles` 2 and 3 ids: the list is empty, has one, is full,
  and a new profile's id collides with one of them or with none.
- *Scripts*: with `MaxAsked` 2 and `MaxEvents` 3, of which the commands asked for
  are some, a command meets a watchdog's own, a second command, or a loss, and a
  loss strikes a recovery from a loss. Two pids
  for daemons and three for watchdogs always leave a free one while the commands
  come one after the other (`PidsSuffice` in `MCModuleScripts`); only overlapping
  launches can use them up, and then one of them waits.
- *iptables*: two tunnels are a closing and an opening one; a third would need
  the port of one that holds it. The configurations are one without a hotspot,
  one on a default interface and one on an interface only the user's list has.
  One failure and one death meet every command and every mixture; `SafeAtRest`
  and `HookedOnce` are stated for at most one failure, the others for none or
  any, as each says. The theorems are about any number of tunnels, failures and
  deaths.
- *Transport*: two attempts are a lookup and an eviction, or two lookups, of one
  name. The three plans are a direct CDN with a probed payload, the same name in
  device mode with TLS and fallback addresses, and a proxy with CONNECT.
- *Connections*: with room for two, an end can be empty, partly full and full,
  while a pump holds one more; a response of any length passes through. Data
  are counted by what is unread, so both ends may send for ever. The theorems are
  about any room.

Symmetry is used in runs without liveness only (invariants, and action
properties that treat the permuted values alike). `CHECK_DEADLOCK FALSE` stands
where the system really stops: a closed pool, an ended daemon, a configuration
request with no process to serve it, `MaxVersion` or `MaxAsked` reached.

### Fairness

- Go runs every runnable goroutine, and `select` picks among ready cases at
  random: weak fairness of each goroutine's steps, strong fairness of the
  manager's tickers in the pool's loop.
- Nothing is assumed of the network or the server. `attemptSSHAuth` and
  `client.Dial` set no deadline on the handshake or the channel request, so
  either may stay under way for ever: `EmptySlotHeals`, `ClosedPoolDrains` and
  `CancelledMoves` except that case by name, and `AttemptEnds` stops where the
  handshake begins. Every earlier wait of an attempt has a deadline, so its
  steps are weakly fair. A dial on a session that is dead does fail, and a
  stream ends: `pipe` shows it.
- That a cancelled tunnel ends is stated without fairness: it can move
  (`CancelledMoves`), and a move brings it nearer to its end
  (`CancelledDescends`, also proved), so it ends if its goroutine runs.
- In `pipe` the handler, the pumps and the timers run, and the close of a stream
  is answered, if only by the end of the session. Nothing is assumed of the
  client, of the server's reading and sending, or of `Dial`, which may never
  return: `ConnEnds` begins where data are piped, and says of two ends that are
  both there only that something is read now and then or the handler ends.
- A write to an SSE client ends, with success or an error, because the kernel
  gives a dead connection up. Nobody has to connect, call the API or signal.
- Processes of the scripts are scheduled, their waits are bounded loops, a daemon
  that was told to end does (`run` waits 5 s for its API at most), and a lost route
  comes back. Daemons may end and the device may reboot, but only
  while commands, losses and reboots are fewer than `MaxEvents`.

## 4. What is proved

TLAPS checks these for every value of the constants. The assumptions are the
`ASSUME`s of the modules: constants of the right kind, `Nil` and the like
outside the sets they are not in, and bounds that are naturals; TLC evaluates
them in the runs.

**`SSHPoolProofs`.** `Typing`; `OneReconnectHolds`;
`EmptyWhileReconnectingHolds`; `OpenSessionsOwnedHolds`; `StreamsBoundedHolds`;
`PoolKeepsLedger`; `StreamsCountedHolds`. The three session invariants are not inductive one by one.
`OpenSessionsOwned` fails if a session is put into a slot that has one, which
only `EmptyWhileReconnecting` excludes; that fails if two goroutines fill one
slot, which only `OneReconnect` excludes. `SessionInv`, their conjunction with
the types, is inductive, and each action has a step of the proof. The ledger
follows: each step of the pool acquires, gives up, or leaves the mapped
variables alone. `StreamsBounded` needs only the types and `StreamsHeld`, because a counter rises
with the worker that becomes a holder, falls with or before the one that stops
being one, and a reset only lowers it. `StreamsCountedHolds`, the refinement of
`PooledStreams`, needs the types only: each step of a worker takes a stream, gives
it back, closes it again or has none before and after (`NoStream`), and whoever
forgets a session resets its counter (`ResetIs`).

**`TunnelControlProofs`.** For any number of tunnels and of callers that overlap
as they like: `Typing`; `RulesHaveOwnerHolds`; `StoppedFreesHolds`;
`StoppedIsPublishedHolds`; `CancelledDescendsHolds`. `RulesHaveOwner` is about
every state between the commands that install and remove. `ControlInv` adds what
holds in between: a caller between `StartMake` and `StartGo` has its tunnel to
itself (`MadeInv`), a port belongs to a tunnel at a place that releases it
(`PortInv`), the flag is set only for a tunnel that is there or on its way
(`RunningInv`), and from the moment the last tunnel has published its end `State`
is quiet, or still as `run` made it if there never was one (`QuietInv`). `CancelledDescendsHolds` follows from one step
per action: no action of a manager whose context is done leads to a place of the
same or a higher rank.

`OneTunnelHolds` and `StopReachesHolds` are about calls that
come one after the other, `Spec /\ []OneAtATime => ...`: with overlapping calls
the code does not have these properties (section 5). The run's single caller
meets the hypothesis in every state. `SerialInv` is the argument: a tunnel that
lives is the one `tunnelCancel` ends and the flag is about, a caller that has
seen the flag down finds no tunnel, and one that has cancelled finds none but
those on their way out.

`PromiseKeptHolds`, under the same hypothesis, is the refinement of
`TunnelPromise`. `SerialInv` gives the guards: a caller that makes a tunnel finds
none alive, and net_clean.sh runs when every living tunnel has been told. The
steps of a tunnel that is no longer alive do not show, and those of the one that
is are matched place by place (`MoveStep`). What `SerialInv` does not say is that
`connectionManager` returns to no tunnel that was not told to end; that is
`ReturnedInv`, an invariant of its own (`ReturnedInvariance`).

Then comes the composition. `PropImplements` shows that every step of
`ModuleProp` is one of `TunnelControl` or leaves its variables alone, so all of
the above holds of the composition, and `StoppedIsShownHolds` is proved with
`ControlInv` as a lemma. `PropInv` says what each of the writers that may be under way
will write: its own text or nothing at all (`JobInv`), that the monitor has been
woken since `State` last changed or has written of it (`LastInv`), and who will
take the last word back while the file still says that a tunnel runs
(`ShownInv`); a script that renames its copy over the file undoes what a writer
of the daemon has open, and leaves none of the daemon's texts.

The last part of the module is about `State`, whose setters the tunnel calls
(`StateBroadcast`): `StateTyping`; `SubsAreListenersHolds`;
`NothingMissedHolds`. `NothingMissed` speaks of settled clients only; the
inductive `MissInv` says of every other one that the latest change is in its
channel, in the snapshot being sent, or with a setter about to broadcast.

**`ConfigStoreProofs`.** `Typing`; `NamesApartHolds`; `FileWholeHolds`;
`SettledAgreesHolds`; `OnlyPatchedHolds`; `TornIsReportedHolds`. `SerialInv` is the argument: a request
that is alone owns `config.json.tmp` from `Open` to `Rename`, its descriptor's
inode is what the name points to, and that inode holds exactly what it wants
stored; `NamesApart`, which holds of overlapping requests too, keeps the
truncation away from `config.json`. `TornIsReportedHolds` is about requests that
overlap: `TornInv` follows a request that has the temporary file open. Either
what it is going to rename is what it wrote, or another request is saving or was
answered with an error, so the last one to end cannot leave a torn file while all
were told that their saves succeeded. It need not be the one whose change was
torn: that one may have been answered before the later one spoiled its file.

**`ProfileStoreProofs`.** `Typing`; `FileSoundHolds`; `CopyAgreesHolds`;
`RightProfileHolds`; `OnlyAskedHolds`, for any number of handlers, starters,
ids and profiles, with kills at every step. The first half are lemmas about the
lists: the flags and the ids of what `SelectById`, `Without` (what a deletion
keeps) and `Upsert` make of a sound list, and what `SelectedProfile` finds in
it. `StoreInv` is then inductive. `LockInv`: `profileMu` has the holder that is
at a place between taking and releasing it. `HolderInv`: what that holder has
ready is an answer to what it was asked, of the file as it still is, and the
copy agrees with the file but for the holder between the renaming and its
assignment. `SoundInv`: file and copy are sound. `PassedInv`: at each place a
selection passes through on the way to a tunnel (the file, `pf`, `sp`, the
goroutine's copy) it is one of those made since the start began.

**`ModuleScriptsProofs`.** `Typing`; `OneDaemonHolds`; `StopStopsHolds`, for any
number of processes, watchdogs and pids. `OneDaemon` is not inductive: a launch
adds a daemon, and keeps to one only if the command knows that all there are have
been told to end. `FileInv` says so for the place after `killall`, and that a
command that waits
for a daemon waits for the one the pid file names; `AloneInv` gives the meaning
of `mixed`. `StopInv` follows a stop through its steps: the marker is gone
before the watchdog is killed, so no resume can start; then the daemon, then the
rules, each gone once the stop has passed it, but for what a daemon that is still
ending installs afterwards.

**`TransportProofs`.** `Typing`; `RetryAsksAnewHolds`; `BannerKeptHolds`, for
any attempts, profiles, modes and hosts. `NoneOld`: the cache holds no answer that
was known when its host was evicted, and only attempts that are dialing have one.
The eviction makes old what the attempts dial, so it takes both that it covers
every mode the host may have been resolved with (`KeysOf`) and that no step that
follows, a successful dial among them, writes the answer back. `WireInv` says, for
every place of an attempt, what may have been sent to it, and that each half of
the banner that was sent is still in what SSH is going to read; it is kept because
a read only moves marks from the stream to what the probe has read, and a probe
that ends with both halves puts them before what is still to come. A probe that
ends with one half only is `torn`.

**`ProxyConnProofs`.** `Typing`; `WholeResponseHolds`; `ReleasedOnceHolds`;
`StreamReturnedHolds`, for any room, however much both ends send. `PipeInv` has three parts. `PhaseInv`: while
data are piped the stream is open and not given back. `DoneInv`: the channel
`done` holds exactly the pumps that have ended and that the loop has not heard
of, so the second receive means that both have. `WholeInv`: what the server has
sent and the client has not read is what the kernel holds for it, what is unread,
and the one buffer the pump may hold (`Held`); a pump that ends with the client there has
drained the stream. `CloseWhole` carries this over the step that closes both
ends, which loses something only when data of the client are unread; data that
come later reset the connection, and `WholeResponse` excepts both.
`StreamReturnedHolds` shows from
`PhaseInv` that a connection does to the pool what `PooledStreams` says its users
do: the `Dial` that succeeds takes a stream, the step that closes both ends gives
it back (`CloseGivesBack`), the handler's deferred `Close` changes nothing, and no
other step shows (`QuietStep`). Together with `StreamsCountedHolds` this is what
justifies modelling the pool with workers of seven places and the connection
without the pool: both are proved to implement the same specification.

**`IptablesRulesProofs`.** `Typing`; `NothingLeftHolds`; `SafeAtRestHolds`;
`AppliedIsCompleteHolds`; `NoLoopHolds`; `HookedOnceHolds`;
`RedirectionKeptHolds`, for any number of
tunnels, any bound on the commands that fail and any on the deaths. None of the
first five properties is inductive: each is about a table that tens of commands have made, with
another's commands between any two. `RulesInv` is, and `Invariance` proves it.
What is left of a program is an end of `Cleanup` or of `Apply` (`ProgramInv`), in
which a chain is deleted after its jumps and its rules and a jump is made once,
after it was deleted (`OrderInv`). `CountInv` follows the copies of a jump: a
tunnel deletes it twice before it makes it, once in its `Cleanup` and once in
`Apply`, so one failure cannot leave the old one beside the new. `DueInv` says
who will remove what is in the table: a tunnel that installs and will stop, a
process whose program still has the command, or whoever cleans up after a death;
`OwedInv` keeps that debt from being paid by a cleaning that began too early. At
rest nothing is due, hence nothing is there. `BuiltInv` relates the table to how
far an undisturbed `Apply` is, command by command, and `CalmInv` says that such
an `Apply` is refused nothing it remembers. The first third of the module
writes the programs out (`CleanupIs`, `BuildIs`), which makes their length, and
what stands where in them, known.

`RedirectionKeptHolds` takes the refinement of `Redirection` from `RulesInv`
command by command: a tunnel whose rules are applied is redirected
(`AppliedRedirects`, from `BuiltInv`), a command that deletes can only lift
(`LessRedirects`), one that adds is of an `Apply`, whose tunnel has the port
(`RunRedirects`), and whoever runs a command touches every other tunnel
(`OthersStay`). It is to the one bit `rules` of `TunnelControl` what these
commands are to the kernel: `TunnelPromise` lets `Install` and `Restore` be one step
each, and `Redirection` says what tens of commands in their place may show.

Only model-checked: everything under fairness (`EmptySlotHeals`,
`LostSessionFound`, `ClosedPoolDrains`, `EventuallySent`, `Restored`,
`OneWatchdog`, `AttemptEnds`, `ConnEnds`, `PumpsEnd`), which TLAPS 1.4.5 has no
support for, and `CancelledMoves`, which is about `ENABLED`.

## 5. Where code and text disagree

Checked by a *violated* run:

- `main.go:1649` says that eight failures restart the pool. `p.cancel` cancels
  a context `connectionManager` does not look at: the pool stays in use with
  slots nobody can fill, until the route changes or the tunnel is stopped.
- `action.sh:23` reports that the module is stopped. `network_resume` tests the
  marker once (`sshcustom.sh:190`); a stop after that test kills the old daemon
  and the resume launches a new one.

Stated in the modules as properties that the code does not have (no run checks
them; give them to TLC to see the trace):

- `IdleStarts` (`main.go:559`, `CHANGELOG.md:12`: the web UI is "always
  accessible"): with the last profile deleted, `run --idle` goes on and reads
  `sp.Name` of a nil profile.
- `BackoffRespected` (`main.go:1658`): a route tick or a `Dial` reconnects a
  slot whose backoff is asleep.
- `BusyMeansAlive`, `BusyNotProbed` (`main.go:1844`): a stream may be open on a
  dead transport, and a slot whose counter was reset under an open stream is
  probed.
- `OneTunnel`, `StopReaches` with two callers (`main.go:1072-1092`): the flag is
  tested and set in two steps, so overlapping starts make two tunnels, of
  which a stop reaches one.
- `UpIsRuled` with two callers (`main.go:1141`, 2782): the `net_clean.sh` of a stop
  that comes late, or the end of an earlier tunnel, removes the rules of a tunnel
  that is up and shown as active.
- `BootIsCorrected` (`main.go:540-541`, 1083-1088): when the profile is deleted
  between `run`'s check and its own `startTunnel`, no tunnel is started, and
  `State` goes on saying `Running` and `STARTING`; the monitor may then write
  "running" into module.prop.
- `RestartRestarts` (`main.go:1131`, `CHANGELOG.md:39`): after 3 s `stopTunnel`
  gives up waiting and the start of the restart is skipped.
- `ShutdownCleans` (`main.go:1200`, `net_clean.sh:3`): the process ends without
  waiting for `connectionManager` to remove the rules.
- `PropFollows` (`main.go:1065`, `CHANGELOG.md:21`): a writer that reads the file
  another has truncated writes it back empty, and no line is left to replace. A
  script's `sed` may copy the truncated file, too.
- `EveryChangeSent` (`main.go:946-950`, `docs/openapi.yaml:88`): a change between
  the first snapshot and the subscription is not sent.
- `AlwaysWhole` (`docs/openapi.yaml:174`): two PATCH requests share
  `config.json.tmp`, and one may rename what the other has just truncated; a
  change of the earlier one may also be taken back. `FileWhole` and
  `OnlyPatched` hold for requests one after the other.
- `UsePanics` in `ProfileStore` (`main.go:1107`): with overlapping starts the
  goroutine of one may copy `*sp` after the other has set it to nil.

Seen while modelling, outside the models:

- A profile that is saved is built anew and its `fallback_ips` are lost
  (`main.go:3104`, against `docs/openapi.yaml:276-278`).
- A `network_resume` whose launch fails has killed its watchdog and starts none
  (`sshcustom.sh:196-205`): the model has the step (`Fail` sets `lost`), and
  `Restored` excepts it.
- Pid files survive a reboot and may name an unrelated process
  (`sshcustom.sh:55`).
- A control request served between `main.go:1030` and 1071 calls a `startTunnel` or
  `stopTunnel` that is still nil, and the daemon panics.
- What `start_module` writes into module.prop (`sshcustom.sh:143`) after a stop
  through the API stays: the monitor (`main.go:1184`) compares with what it wrote
  itself. `StoppedIsShown` is about what the daemon's writers leave.
- A daemon that `start_daemon` replaces (`sshcustom.sh:86-99`) may still hold the
  API's port when the next one listens, which then runs without an API
  (`main.go:1022-1028`).

In the modules as what the code does; the properties except them by name:

- `NewClientConn` has no deadline (`main.go:2016`). `ClientConfig.Timeout`
  (`main.go:2001`) is used by `ssh.Dial` only, which the daemon does not call: a
  server that is silent after the TCP connection holds its slot, or
  `connectionManager`, for ever.
- `httpCONNECT` makes one read (`main.go:2372`): an SSH banner that comes with the
  proxy's answer is dropped, and the handshake waits for it.
- A probe that ends, at its deadline or after 64 KB, with a response and a part of
  "SSH-" read drops that part (`main.go:2394-2410`, 2093-2108, whose comment is "let
  SSH read the banner after the response"): the handshake then waits for a banner
  that does not come.
- An answer that was being asked for when its host is evicted is put into the
  cache afterwards (`dnsx.go:106`, against `dnsx.go:119-121`) and dialed for five
  minutes. A status outside the allowed ones returns before the eviction
  (`main.go:2084`).
- The addresses of an answer that nobody can reach stay in the cache for five
  minutes, and the fallback addresses are not used while it gives an answer
  (`main.go:2285-2286`). Carrier servers are cached for two minutes, across a
  change of network (`dnsx.go:202`). With device DNS no address is exempted by
  the rules (`main.go:2280`).
- A client that half-closes gets what arrives within 400 ms (`main.go:2644`), and
  the server never learns of the client's end, because the stream is no TCPConn
  (`main.go:2620`). Only reads count as activity, so a client that takes longer
  than the idle time for one buffer is cut off, and one that goes on sending but
  reads nothing, to a server that has ended its direction and still reads, keeps
  the handler: the pump that would meet the end is blocked in a write. Data that the client sends after pipeBoth has closed its connection
  (`main.go:2600`) reset it, and the kernel may drop what was still to be read.
- `client.Dial` (`main.go:1807`) has neither context nor timeout, and `KeepAlive`
  does not probe a busy slot: a channel request that is never answered keeps the
  handler, though its client is gone.
- While a tunnel's closing `Cleanup` mixes with the next tunnel's `Apply` the
  chain may lack the rule for uid 0 or be incomplete: `NoLoop` and
  `AppliedIsComplete` are about tunnels that nobody came between.
- `Apply` filters "No chain/target/match" (`iptables.go:102-103`, 189-196), which
  an append gets when another process has deleted the chain.
- `net_clean.sh:24` knows neither `chains_prefix` nor the user's interfaces. After a
  death the jumps from a user's interface survive, to chains it has emptied; with
  a `chains_prefix` of one's own the chains themselves survive as well, filled, and
  so do all the jumps to them.

## 6. What is not modelled

- **Metrics, public IP, diagnostics, web UI**: they fill display fields that
  nothing reads back. **validate, probe, version**: single calls in a process of
  their own, and with them `attemptTransport`, which only `probe` calls.
- **The vendored SSH library, installation and packaging**: third-party code,
  and code that runs when nothing else does.
- Of the resolver: how an answer is asked for (carrier, direct, shell tools are
  one question) and the cache of the carrier's servers.
- Of the connections: the bytes of the SOCKS5 handshake, `originalDst` and
  `isLocalOrBlockedTarget` are one step that ends in a target or an error.
- Of the rules: ip6tables, whose tables the daemon never fills, and addresses
  and ports, whose RETURN rules are one.
- Of the other parts: profile fields other than id, flag and password; what
  `uniqueProfileID` does after 9,999 names; `restart` of the scripts as more
  than a stop and a start; at which places the scripts call `set_desc`.

## 7. Plan

Done: every component with state of its own that others depend on is modelled;
every safety property that a run checks is proved, `CancelledMoves` apart; and
four abstract specifications are implemented and proved so: `SessionLedger` and
`PooledStreams` (pool and connections), `TunnelPromise` (tunnel control) and
`Redirection` (rules).

What remains is what this prover cannot reach, the liveness properties and
`CancelledMoves`, and what would need a new model: how the resolver asks its
questions, and the cache of the carrier's servers.
