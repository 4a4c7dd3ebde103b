# A TLA+ model of hdp-disk-inspect

hdp-disk-inspect is a small agent for the hosts of a cluster: a gRPC service that runs
shell commands, and Prometheus collectors for disks, network interfaces and LLDP
neighbours, in one Go process. Beside it lie a Python server and client of the same
gRPC service and scripts that make certificates.

This directory models the Go agent, on Unix and on Windows, and the Python server and client in
TLA+. TLC checks the models on small instances. TLAPS proves every safety property that the runs
check for any value of the constants: that the Go and the Python server say the truth and implement the
contract both are held to, and what the metrics, the TLS settings and the three collectors promise.

## Inventory

| Part | State it keeps | Operations | What is hard about it | What makes it correct |
|---|---|---|---|---|
| Task service: `Run`, `ExecShell` (`rpc/server/server.go`, `utils/utils_unix.go`) | per call: handler goroutine, goroutine in `cmd.Run()`, `resultChan`, `cmd.Process`, output buffers; outside: a process group and a pipe | call, cancel, start, wait, kill, answer | two goroutines that share `cmd`; `select` with both branches ready; children that hold the pipe; recycled process ids | what a reply says is true: output complete, exit code the command's, "timeout killed" means dead; a kill hits its own group; cancelled calls return; no goroutine leaks |
| Server process: `main`, `Start` | the listener, a signal channel of one, the registry | boot, serve, signals, graceful stop, `Fatal` | signals before `Notify`, two signals and one slot, stop with calls in flight | an orderly exit cuts no call short and leaves no command behind; a stop is heeded and ends |
| LLDP collector (`collector/lldp_collector.go`) | three process-wide caches behind `RWMutex`es | `Collect`, the search for a PCI slot through five sources | scrapes run concurrently, caches are never invalidated, double-checked locking around `dmidecode` | caches cannot be told from none on a quiet host, never hold a foreign slot, nobody waits for ever |
| Network collector (`collector/network_collector.go`) | none between scrapes | `Collect`: statistics, bonds, info | sysfs changes between two reads; one bad file drops its interface; early returns | exact on a quiet host, but for interfaces a file of which cannot be read; all or nothing for bonds; every scrape ends |
| Disk collector (`collector/disk_collector.go`) | none between scrapes | sysfs, lsblk, smartctl, storcli, lsraid, mdadm in turn | tools missing or failing; line scanners that carry values from line to line | serials do not reach the wrong disk; slots and states reach members of the controller only (but of the members also the wrong one: every slot is the word `Slt`); no disk is lost or invented |
| Metrics registration (`collector/metrics.go`) | a `sync.Once`, a registry variable, the default registry | two kinds of handler, a stand-alone server | callers race for the `Once`; two ways to register share it | each collector made once; a handler that is returned serves all of them |
| Boot: `main`, TLS (`rpc/auth/Certification.go`), listener | flags, the TLS configuration | check files and user, make the handler, listen, load, serve | files are checked, then the port bound, then the files loaded; connections come meanwhile | a server comes up with its whole configuration or not at all; nobody without a certificate is answered |
| Windows `ExecShell` (`utils/utils_windows.go`) | as on Unix | `taskkill` in place of `kill(-pid)`, then `Process.Kill` | no process group: descendants are found by process ids | as on Unix |
| Python server (`server/server.py`) | a queue of calls, a pool of threads; per call: a shell, its pipes | `Run` with a timeout, signal handler | the kill reaches the shell only, and a wait without timeout follows it; one pool for all calls; signals before the handler is set; `sys.exit` during the grace period, at whose end grpc cancels what is left | an answer means an ended command; timeouts give workers back; a stop cuts no command short that was begun, frees the clients, and ends |
| Python client (`server/client.py`) | the call it waits for | sequential calls, a prompt | no deadline on a call; lost connections; calls left behind in the queue | the prompt comes back, after a stop of the server whatever the commands do |
| Certificate scripts (`server/*.sh`) | files | openssl steps | partial failure, second runs | not modelled |

How they interact: `main` gives `Start` the handler of the metrics. Every gRPC request
becomes a call of `Run` on a goroutine of `net/http` (`grpcHandlerFunc`), every request for
`/metrics` a `Gather` that runs the three collectors on goroutines of their own. Calls of
`Run` share nothing but the kernel's process ids; scrapes share the caches of the LLDP
collector. The signal loop in `Start` is the only one that ends the process in order.

## Modules

| Module | Models | Built on |
|---|---|---|
| `TaskContract` | what a caller of the gRPC service is promised, by whichever server | - |
| `TaskContract_proof` | theorems about the contract | `TaskContract`, TLAPS |
| `TaskExec` | `Run` and `ExecShell` for a set of concurrent calls | instance of `TaskContract` |
| `TaskExec_proof` | theorems about the calls on Unix and Windows, with both refinements of `TaskContract` | `TaskExecWindows`, TLAPS |
| `TaskExecWindows` | the same goroutines with the kill of Windows | extends `TaskExec` |
| `Server` | the process around the calls: boot, signals, stop | extends `TaskExec` |
| `Server_proof` | theorems about the process | `Server`, `TaskExec_proof` |
| `Metrics` | the registration of the collectors | - |
| `Boot` | from the command line to the first answer | extends `Metrics` |
| `Boot_proof` | theorems about the registration and about TLS | `Boot`, TLAPS |
| `SlotCache` | concurrent scrapes of the LLDP collector | - |
| `SlotCache_proof` | theorems about the caches | `SlotCache`, TLAPS |
| `Network` | a scrape of the network collector | - |
| `Network_proof` | theorems about a scrape | `Network`, TLAPS |
| `Disk` | a scrape of the disk collector | - |
| `Disk_proof` | theorems about a scrape | `Disk`, TLAPS |
| `PythonServer` | the Python server: queue, pool, calls of `Run`, stop | instance of `TaskContract` |
| `PythonClient` | the interactive client and the server it calls | extends `PythonServer` |
| `PythonClient_proof` | theorems about both, with the server's refinement of `TaskContract` | `PythonClient`, TLAPS |
| `MC*` | the instances for TLC: values of constants | the module of that name |

`PROJECT.json` maps each definition to the lines it models. Operators whose comment
begins with "Mutant of" are plausible bugs, each the body another definition would have
with that bug; they belong to no specification and show that the properties notice.

### TaskContract

The abstract specification. A call is made, may be given up by its caller (or its timeout), and is
answered at most once. Its command is `none`, `running` or `ended`, with a status and the question
whether anybody still has its output open. An answer is a status (`exit0`, `exitN`, `signal`),
`timeout`, `failed`, or void; what each claims of the command is `Claim`, which must hold in the
state in which the answer is given. Commands move by themselves, any number of them in a step, as
one kill may hit several; a command starts only while its call has no answer that claims something.

`TaskExec`, `TaskExecWindows` and `PythonServer` implement it (`KeepsContract`), with the
refinement mapping at the end of `TaskExec` and of `PythonServer`: a call is made when its handler
leaves `idle`, given up when its context is done (Go) or its timeout has passed (Python), and an
error and exit code are mapped to the answer they stand for. For the Go server the void answer is
"no response" (`Void = {"nil"}`), which makes no claim; that it exists at all is the run
`exec_noreply`. For the Python server there is none: `Void = {}`.

### TaskExec

`handler[t]` is the goroutine of the call: `select`, `kill` (inside the `ctx.Done` branch)
or `answered`. `runner[t]` is the goroutine in `cmd.Run()`: `spawned`, `forked` (the process
exists, `cmd.Process` is not stored yet), `waiting`, `copying` (bash is reaped, the copying
goroutines have not seen end of file), `sending`, `gone`. The command is `proc[t]` with its
exit status, and `kids[t]`, the kinds of children: in the group and holding the pipe, in the
group and quiet, outside of the group and holding the pipe. Output is counted in chunks.
Nothing is assumed of commands: they may run for ever, ignore everything, leave children of
any kind. `KillGroup` kills whatever group has the id stored in `cmd.Process` when it runs,
and `Fork` takes any id that no live group has, so that an id can come back. `KillPanics` is
the dereference of a nil `cmd.Process`, the recover in `Run`, and the answer without response.

### Server

`Server` adds the phases of the process and the channel of signals to `TaskExec`; when the
process ends its goroutines stop, and commands go on by themselves. `grpc` is not part of
the repository. Since `main` always passes a handler, calls come through `net/http`, and
`GracefulStop` knows of them as handler transports only; the model allows both what its
documentation says (`Drain`: wait for the calls) and the panic that draining such a
transport is in the version `go.mod` names (`DrainPanics`). A panic, `Fatal`, or a signal
before `Notify` is not an orderly exit, and the properties of a stop are about orderly ones.
What comes to the channel once the loop has been left is not modelled, as nobody reads it.

### TaskExecWindows

Goroutines, channel and answer are those of `TaskExec`; the kill is a `taskkill` by id that may
fail without anybody looking (`TaskKill`, `TaskKillFails`), then `Process.Kill` through a handle
(`ProcessKill`). `taskkill /T` finds the tree below the process that has the id when it looks, and
with it orphans whose parent had that id; children may be born while it looks. An id is free again
when `Wait` has closed the handle. A process that is killed exits with status 1.

### Metrics and Boot

`Metrics` is the three exported functions of `collector/metrics.go` for a set of callers:
`once` is the `sync.Once` with the caller that is inside, `variable` the variable
`metricsRegistry`, `registered` what each registry holds, `handler[c]` the registry the handler of
a caller serves. `Boot` extends it: `main` is one of the callers, and its handler is the one Start
serves. `phase` follows `main` through the three files, the user, the handler and Start: the
listener, the key pair, the CA, serving. Each file is absent, broken (or unreadable) or good, and may
be replaced at any moment. A connection is queued from the moment the port is bound, accepted, goes
through the handshake if TLS is on, and is answered by the task service or by `/metrics`. `main`
always passes a handler; the other path through Start, where the gRPC server does TLS itself, is
chosen at the start as well.

### SlotCache

Each step is what one scrape does between two points at which another can run. The
recursion of `getInterfaceSlot` from a slave to its master is a stack of names. Strings are
reduced to what the sources can say of an address (constants `SysfsSlot`, `DmiSlot`,
`LspciSlot`). `getSlotFromEthtool` is a step that finds nothing, because it hands two parts
of `bus-info` to a function that wants three. `Relink` enslaves, frees, unplugs or replaces
a device, or moves one to another name. `had` is a history variable, `host` the host the scrapes run
on: its interfaces and links at the start, whether its tools fail and how often its links change.

### Network and Disk

Scrapes of these collectors share nothing, so one is modelled. In `Network` every read of a file is a
step, an interface in `Faulty` has a file that is missing or holds no number (`rx_nohandler` on an older
kernel; `CanFail`: any read of it can be the one that fails, and it never gets through all), and the
host (interfaces, bonding module, slaves, their states) may change in any way the kernel allows between
two of them. In `Disk` the host is chosen at the start (`truth`) and the tools report it; each may fail,
and lsblk and sysfs may list any selection. The scanners of lsblk and storcli take one line per step,
and `todo` is what the tool has still to list: any entries in any order, as neither tool promises one.
Of several arrays the first decides, so `Mdadm` chooses which. What the tools print (order of keys,
`"EID:Slt" : "252:0"`, exit status of smartctl) is modelled from their documented output, as the code
has no sample of it. That lsblk prints `null` for a disk without a serial number and for no other is
assumed: a disk whose number lsblk does not know would take `null` for one. A `State` line goes to all
disks in the present slot, and every slot is the word `Slt`: it reaches all disks matched before it, of
other drives than its own too, and none that is not behind the controller (`RaidOnlyForMembers` says
only the latter).

### PythonServer

`run[t]` is where the worker thread of a call is in `Run`: `queued`, `popen`, `communicate`,
`kill`, `drain` (the second `communicate`, which has no timeout) or `answered`. `shell[t]` is the
process `Popen` started; `kids[t]` the kinds of its children, with the pipe and without. Output is
not counted, as `communicate` reads to end of file or raises: an action that answers waits
for `Ended`, the shell gone and the pipe without holder. `expired` is the set of calls whose
timeout, the request's or 30 seconds, has passed.

`main` follows the main thread. Calls are accepted from `Start` on (`server.start`), and the handlers
of SIGINT and SIGTERM are set in two steps after it; a SIGTERM before them ends the process
(`DefaultSigterm`), a SIGINT leaves `serve` without `stop` (`DefaultSigint`). `HandleSignal` is the
handler: `stop(grace=5)` does not block, `sys.exit` leaves `serve`, and the process goes on until the
interpreter has joined the workers, which empty the queue first (`Exits`), or until another signal
breaks that off (`SecondSignal`). When the grace period is over grpc cancels all calls that wait or run
(`GraceEnds`), and it cancels those whose client it knows to be gone (`Disconnect`): `cancelled`. A
cancelled call that waits is passed over (`Drop`), one that runs is run to its end for nobody, as `Run`
does not look at its context. Shutdown, pool and grpc are external. A call that comes after a SIGINT
without handler, while workers are busy, is not modelled: the pool refuses it.

`PythonClient` adds the client's loop: it calls, reads the answer that is there, gets an error at any
moment (`RpcError`), or is left by `exit` or by an interrupt, also during a call (`Leave`). The
interrupt prints `Goodbye!` and nothing else, and the call goes on; that the user knows of it is not
claimed. The server may notice that a client is gone, but does not lose one that is there.

## Runs

| Run | Instance | Shows |
|---|---|---|
| `exec_one` | 1 call, all 3 kinds of children, 2 chunks through a pipe of 1 | replies are true (`TimeoutMeansStopped`, `OutputComplete`, `ExitCodeTrue`: error and code together), cancelled calls return, ended ones leak nothing |
| `server_stop` | 2 calls, 2 process ids, signals at any time | `CleanStop`; `KillScope`: a foreign process dies only in the window of a recycled id, which the instance does reach; `KeepsContract`; `DrainEnds`, `StopSignalHeeded` |
| `win_two` | 2 calls, 2 process ids, on Windows | `KeepsContract`, `WKillScope`, `WCancelledCallReturns` |
| `py_pool` | 2 calls of a client, 1 worker, children that hold the pipe, signals at any time | `AnsweredMeansEnded`, `CleanExit`, `KeepsContract`, `AcceptedAnswered`, `StopEnds`; `PromptAgain`, `StopFreesClient` |
| `boot_clients` | every setting, 3 files with 1 change, 2 callers for a handler, 1 connection | `OnlyVerified`, `HandlersComplete`, `QueueMoves`, `GoodBoots` |
| `slot_hosts` | 2 scrapes, of a quiet host (3 ports, one in a bond) or a restless one (2 changes, tools fail) | `CacheTransparent`, `NeverForeign`, `DmiSingleFlight`, `EveryScrapeEnds` |
| `net_churn` | every host of 2 ports and 2 bonds, one of each with a bad file, 1 change | `QuietScrapeExact`, `BondsAllOrNothing`, `ScrapeEnds` |
| `disk_scan` | 72 hosts of 3 disks and a loop device | `SerialOwn`, `RaidOnlyForMembers`, `DisksKept` |
| `exec_timeout`, `exec_noreply`, `net_noinfo`, `disk_raidstatus` | 1 call; 1 call; every host of 2 ports and 1 bond; the hosts without arrays | the disagreements below |

The bounds. Every interaction of two calls is through a process id, so two calls and two ids (one to
reuse, one to keep apart) show each; one call is enough for what concerns a call alone. Two chunks
through a pipe of one make the command wait for the copying and leave output behind it. Two scrapes are
enough for the pairs of accesses to a cache; two changes let a port lose its device and get another's.
In `net_churn` a change may replace everything at once, so that it covers every sequence between two
reads; what needs changes at two places of a scrape is beyond it. Two bonds and two ports let one bond
vanish after the other was read; one of the two of each has a file that cannot be read (`Faulty`), so
that one interface fails beside one that does not. In `py_pool` two calls and one worker make one wait
for the other, also behind one the client has given up; children without the pipe are left out there, as
they change nothing that an action reads (the proofs are for both kinds). Signals in `server_stop` are
not bounded. In `boot_clients` one change of a file between any two steps is what tells a check from a
load; connections do not meet, so that one is enough (two were checked once, without the other caller);
two callers meet in the `Once`, and a third finds it as the second does (three were checked once). Two
drives and three disks are enough for a value that stays from one entry to the next; how many lines,
entries or arrays there are is not bounded but by the devices.

Deadlock is not checked: each of these systems may stop (a scrape ends, a process exits, a
command is under no obligation to go on).

### Fairness

`TaskExec!FairSpec` is weakly fair to the goroutines of each call, `Server!SFairSpec` to the handlers
and to `main`'s goroutine, which is what the Go scheduler gives a goroutine that can proceed.
`TaskExecWindows!WFairSpec` contains that `taskkill` ends, in success or failure. There is no fairness
for commands, children, callers, signals or the clock; only the run about timeouts lets the clock
advance (`TimedSpec`), since a timeout that never passes would prove nothing. `SlotCache!FairSpec` is
weakly fair to each scrape, which contains two assumptions: the tools end (the code runs them without a
timeout), and a scrape that waits for `dmidecodeCacheMu` gets it when it is let go. Weak fairness is
enough for the latter as the lock is taken for writing a bounded number of times in an instance.
`Network!FairSpec` is weakly fair to the scrape. `Boot!FairSpec` is weakly fair to `main`, the callers,
the accept loop and the timers that end silent connections, and to no client. `PythonClient!PFairSpec`
is weakly fair to the threads of the server, to the clock, to the end of the grace period and to a
client that has its answer to read or is told that its call is cancelled or the server gone (`Refused`),
and to nothing a command does nor to the notice of a lost connection. Its liveness properties but
`StopFreesClient` have the premise `NoHolder`: from some time on no child holds the pipe of its shell.
Without it they are false, because the second `communicate` waits for such a child however long it
takes.

## What is proved

Every invariant and action property of the passing runs is a theorem, for any value of the constants
that satisfies the named assumptions beside them; liveness is not (below). TLC evaluates the
assumptions in each run. In what follows a name is a theorem unless it is said to be an invariant.

### The calls (`TaskExec_proof`, `Server_proof`)

For every set of calls, process ids and kinds of children, and every bound on output:

* `TypeCorrect`: `Spec => []TypeOK`, and `Invariance`: `Spec => []IInv`.
* `TimeoutStops`, `ReplyComplete`, `ReplyTruthful`: the invariants `TimeoutMeansStopped`,
  `OutputComplete` and `ExitCodeTrue`, from `IInv`.
* `KillScoped`: the action property `KillScope`, from `IInv`.
* `Implements`: `Spec => KeepsContract`.

None of the three invariants is inductive. That a reply carries all output needs that a
result reached the channel only after the runner was through, that a runner that is
through has seen end of file, and that nothing can write to a pipe without a holder: these
are `ResultInv` and `RunnerInv`. That a kill leaves nothing running needs that the group it
killed cannot come back to life: its leader is a zombie or reaped, and only a member starts
children. That a kill that finds its own group alive hits no other is `GroupsDistinct`: a
live group's id belongs to one call, which `Fork` keeps by taking a free id. `ProcessInv`
ties the process id to the state of runner and process. `IInv` is their conjunction with
the type; its preservation is one lemma each for the handler, the runner and the
environment, with one case per action.

For the refinement, initial states map to initial states, and a step of the handler, the runner or the
environment maps to a step of the contract or leaves its variables alone. Beside `IInv` it needs
`AnswerInv` (`AnswersOnce`): a call has an answer exactly when its handler has given one, and a void or
timeout answer only when its context is done.

Windows shares the goroutines, so the same module has its theorems: `WInvariance`, `WReplies`,
`WKillScoped` and `WImplements`. There are no groups, and a process that is killed may leave orphans;
`WInv` therefore adds to `IInv` that a leader which has ended leaves detached children at most
(`OrphanInv`) and that `taskkill` runs for a call whose process was started and whose context is done
(`TerminateInv`). Everything that ends processes is reduced to three moves of a call (`WMove`): its
leader is killed, its orphans go, or it is spared; the invariant and the refinement are shown for moves
once (`WMovesKeep`) and not for each kill. `TimeoutMeansStopped` is no theorem about Windows: a
`taskkill` that fails leaves descendants running. What a timeout does mean there is `WAnswersTrue`: the
command itself has ended.

`Server_proof` shows first that the server's calls are calls of `TaskExec` (`ServesCalls`:
`SSpec => Spec`), since what the process does around them, its end included, starts nothing and answers
nothing. All of the above carries over, of which `ServerKillScoped`, `ServerImplements`
and `ServerAnswersTrue` are stated.
`StopIsClean` (`SSpec => []CleanStop`) needs `ExitInv` beside: after `main` returned every handler is
idle or has answered, and no goroutine goes on.

### The contract (`TaskContract_proof`)

For every set of calls and provided that no answer but "nil" is void:

* `ContractTypeCorrect`: `CSpec => []CTypeOK`.
* `ContractTruthful`: `CSpec => []AnswersStayTrue`: what a caller was told of a command stays true
  whatever happens later, although `CSpec` asks for it only in the step that answers. The lemma
  `ClaimStable` is the reason: an ended command stays ended with its status, output that is closed
  stays closed, and a call whose answer claims something starts no command.

It is a theorem of each implementation too: `AnswersTrue` for either server, `WAnswersTrue`,
`ServerAnswersTrue`; for Python by instantiating the contract's theorem over the refinement.

### Python (`PythonClient_proof`)

For any number of calls and workers: `ServerTypeCorrect`, `AnswerEnds` (`Spec => []AnsweredMeansEnded`),
`ExitClean` (`Spec => []CleanExit`) and `PythonImplements` (`Spec => KeepsContract`, with no void answer).
`ShellInv` says where the shell may be for each place in `Run`. That the process ends with nobody waiting
needs `QueueInv`: the queue holds each call that waits, once and no other. The refinement needs
`ReplyInv` beside: a call has a reply when `Run` has returned, and is killed and drained only after its
timeout. `CleanExit` is about processes that ended by themselves: whatever the signals before, and with
grpc cancelling calls at the end of the grace period, no shell is left running, and an accepted call was
run to its end or was cancelled before its command was started, which then never is. A client, with the
calls it leaves behind, is one way of calling the server (`ClientCalls`: `PSpec => Spec`), so all this
holds with the client (`ServerBehindClient`).

### Boot and registration (`Boot_proof`)

For every set of callers in every mixture of the three functions each collector is made once
(`RegisteredOnce`, part of `MTypeOK`) and a handler is complete when it is returned
(`CompleteHandlers`). The invariant (`MInv`, theorem `Registration`) ties the registries to
where the one caller inside the `Once` is (`RegistryInv`, by the cases of `At`), the instances made to
what is registered (`MadeInv`), and lets handlers exist after the `Once` only (`HandlerInv`).
`BootRegisters` (`Spec => MSpec`) carries this over to the boot: `CompleteAtBoot`, and with it
`BootTypeCorrect`.

`Verified` (`Spec => []OnlyVerified`) holds for any number of connections, callers and changes of files.
The property is not inductive: that a handshake is made against the CA needs that the configuration was
complete when the connection was accepted (`LoadInv`), and that nobody is past the handshake without a
certificate (`ConnInv`).

### The collectors (`SlotCache_proof`, `Network_proof`, `Disk_proof`)

The LLDP collector, for any number of scrapes, interfaces and changes of sysfs: `CacheTypeCorrect`,
`SingleFlight` (`Spec => []DmiSingleFlight`), `OwnSlots` (`Spec => []NeverForeign`) and `Transparent`
(`Spec => []CacheTransparent`). `OwnSlots` needs what the frames of the recursion carry (`FrameOK`: the
address and the slot in hand are the innermost interface's own) and where links lead (`LinkInv`); it
rests on `MasterAssumption`: what can be a master (a bond, a bridge) is no PCI device, so that what
returns from a master to its slave is the empty slot. `Transparent` speaks of `Top`, which follows the
masters to the last. That this recursion has a value at all is a lemma (`TopIs`), shown by taking from
every set of interfaces without one the interface whose master is outside of it; `ChainAssumption` is
that there is one: the kernel refuses a master below its own slave. The invariant `QInv` says, for as
long as nothing changed, that each cache has the uncached result or nothing (`CachesQuiet`), that all
frames of a scrape have the same interface at the end of their chains (`RootQuiet`), and that a search
is at that end, has come past the sources that know nothing, and carries the slot once it has one
(`SearchQuiet`).

The network collector, for every finite set of interfaces and any number of changes:
`ScrapeTypeCorrect`, `AllOrNothing` (`Spec => []BondsAllOrNothing`) and `QuietExact`
(`Spec => []QuietScrapeExact`). `EmitInv` says what can have been sent at each place; `QuietInv` what is
collected, on a host that holds still, in terms of what is left to do: the statistics are those of the
interfaces passed without the faulty ones, and the slaves counted and the
slaves still to read are together the slaves there are. That the counts are numbers, for any changes,
is `CountInv`: a bond never counts more slaves than the ports there are.

The disk collector, for any devices, drives, serial numbers, hosts and orders of entries:
`DiskTypeCorrect`, `OwnSerial` (`Spec => []SerialOwn`), `MembersOnly` (`Spec => []RaidOnlyForMembers`)
and `NoDiskLost` (`Spec => DisksKept`). The first two properties are about what the scanners carry:
`EntryInv` says which lines are left of the present entry and what is in hand by then. A slot is never
"" once a State line can come, so that such a line reaches members only. Assumed are that the word
"null" is in no serial number, that no two disks have the same one, and that a drive of the controller
is a device.

### Only model-checked

Liveness under fairness is beyond the prover, which leaves the thirteen `~>` and `<>` properties of the
runs to TLC (`CancelledCallReturns`, `EndedCallSettles`, `DrainEnds`, `StopSignalHeeded`,
`WCancelledCallReturns`, `AcceptedAnswered`, `StopEnds`, `PromptAgain`, `StopFreesClient`, `QueueMoves`,
`GoodBoots`, `EveryScrapeEnds`, `ScrapeEnds`), and so do the four disagreements below, which are
counterexamples.

## Where code and documentation disagree

Four disagreements are runs that TLC answers with a counterexample:

* `exec_timeout`: `docs/api.md:52` gives a request a timeout, 30 seconds by default; `Run`
  never reads it (`rpc/server/server.go:56`).
* `exec_noreply`: a context that is done before `cmd.Process` is stored, or when bash cannot
  be started, makes `ExecShell` panic (`utils/utils_unix.go:50`); the caller gets no response,
  and the command runs on.
* `net_noinfo`: without the bonding module `Collect` returns before `node_network_info`
  (`collector/network_collector.go:220`).
* `disk_raidstatus`: a drive in state Failed is reported online
  (`collector/disk_collector.go:324`).

The models show others that have no run of their own:

* A timeout reply has exit code 0 (`KillGroup`), and so has that of a command that could not be started,
  where `docs/api.md:402` says -1 for a timeout or an internal error and `docs/api.md:114` too.
  `ExitCodeTrue` states the codes as they are: only with the error beside it does a code tell a success.
* A stop signal behind an unread hangup is dropped (`Signal`).
* An enslaved port is reported with the slot of its bond, which is empty (`InterfaceMaster`),
  where `docs/metrics.md:191` promises the PCI slot of the local interface.
* `bonding_masters`, a file, is reported by `node_network_info` as if it was an interface
  (`ReadDir`, `EmitInfo`).
* Every slot number is the word `Slt` (`EidValue`), where `docs/metrics.md:27` shows `252:0`.
* A disk that smartctl finds failing has an empty health status, and others say `OK` or
  nothing (`Smartctl`), where `docs/metrics.md:32` has PASSED and FAILED.
* The Python server's timeout ends the shell and no child of it: an answer comes when the last
  holder of the pipe is gone, as late as that may be (`Kill`, `Drained`), where `docs/api.md:52`
  gives the timeout of the task.
* The level of the first array mdadm names goes to every disk (`Mdadm`), where `docs/metrics.md:31`
  has the level of the disk.
* A stop of the Python server (`GraceEnds`) cancels, after five seconds, calls it has accepted: their
  clients get an error while the commands run on. A second signal, or a SIGTERM before the handler is set, ends
  the process under its commands (`SecondSignal`, `DefaultSigterm`).
* An interrupt of the Python client during a call prints `Goodbye!` (`Leave`, `server/client.py:199`), and
  the command runs on.
* On a kernel without one of the 23 statistics files no interface has any statistics (`ReadFieldFails`),
  where `docs/metrics.md` lists them without a condition.
* `FileExist` (`FileExist`) finds a file that may not be read, where its comment at
  `utils/utils.go:97` says that it tells whether the file may be accessed; the failure comes after
  the port is bound.
* `MetricsHandler` after `MetricsHandlerWithGoMetrics` serves a nil registry, the other way round no
  collector (`HandlersComplete`); `main` calls one of them only.

Others were found by reading and are about data the models leave out:

* `tx_fifo_errors` is missing from the map of files that `readInterfaceStatistics` reads
  (`collector/network_collector.go:267`), so that `node_network_transmit_fifo_total`
  (`docs/metrics.md:129`) is always 0.
* The client uses a `task_id` again after an error (`server/client.py:196`), where `docs/api.md:53`
  calls it unique.
* `EscapeJson` replaces at most 1000 occurrences (`utils/utils.go:72`); nothing calls it.

## Not modelled, and the plan

The models and the safety theorems above are done. Left of the plan:

1. What the liveness properties rest on that is safety: that a handler in `select` after the end of its
   command has a result waiting, that the queue of accepted calls has a worker or is empty, that whoever
   waits for `dmidecodeCacheMu` waits for a scrape that runs `dmidecode`.
2. Operators that could be proved against a definition of their own: what `Tree` finds, what `Hit` hits.

Left out for good: the certificate scripts, which are run by hand and reach the program as the
contents of files, which `Boot` chooses freely; generated gRPC code and packaging; the helpers of
`utils/utils.go` that nothing calls; the texts of logs and metrics; the values of counters; the XML
of lldpcli; the stand-alone metrics server's listener, which is that of `net/http`.
