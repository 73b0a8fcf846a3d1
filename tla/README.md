# A TLA+ model of Open Network Linux: platform layer, loader, mounts

Open Network Linux (ONL) is a Linux distribution for bare-metal switches. Most
of the repository is kernels, drivers, images and the tools that build them. Its
own logic is in two places: the code that runs for as long as the switch is up, in
several processes and threads at once, which is ONLP (`packages/base/any/onlp`), the
daemon `onlpd`, the SNMP agent `onlp-snmpd` and the fault daemon; and the scripts
that bring the switch up and keep it current, which must survive a power failure at
any line: the loader's boot scripts, the upgrades and the mount manager
(`packages/base/all`). This project models both, checks them with TLC on small
instances, and proves their safety properties with TLAPS for all instances.

Paths below are relative to `src/packages/base/any/` unless they start with
another directory of `src/`. `PROJECT.json` maps every definition to its lines.

## 1. Inventory

| Part | State | Operations | Talks to | What is hard |
|---|---|---|---|---|
| **API lock** `onlp/src/onlplib/module/src/shlocks.c`, `onlp_locks.[ch]` | a System V segment with a magic word and a robust, error-checking mutex, shared by every process that links libonlp | create or open, initialise, take (with repair), give | wraps every API call | start-up of several processes at once; owners that die; one mutex for the switch |
| **Platform manager** `onlp/src/onlp/module/src/platform_manager.c` | `control__`: eventfd, thread handle, timer wheel | start, stop, join; the thread's loop; `manage_now` | called by onlpd and tools; calls fan and LED control and the notifiers | no lock; one variable is stop request, running flag and descriptor |
| **Notifiers** same file | recorded status and "reported" flag per PSU and fan | compare, log, record | syslog; `onlp_psu_info_get`, `onlp_fan_info_get` | failed reads, units that come and go |
| **onlpd** `onlp/src/onlp/module/src/onlp_main.c` | none of its own | start(1), stop(1), exit; SIGTERM handler | the platform manager | signals at any moment, on any thread |
| **SNMP sensors** `onlp-snmpd/.../onlp_snmp_sensors.c` | list of sensors, two buffers each, `restructure_trigger`, table rows | update thread; agent's alarm and request handlers | ONLP API; net-snmp | two threads without a lock; rows that point to sensors |
| **SNMP platform objects** `onlp_snmp_platform.c` | two buffers of CPU usage | update thread, handlers, file service | net-snmp, file service | same double buffering |
| **File service** `onlp/src/onlplib/module/src/file_uds.c` | list of sockets, worker thread, eventfd | create, add, remove, destroy; the worker's loop | the SNMP agent and its other descriptors | create, destroy and remove against the worker; a descriptor closed twice |
| **Fault handler** `faultd/src/module/src/faultd_handler.c` | one record and one spin lock per process | register; the signal handler | the fifo | threads that fault together, handlers that nest, processes that die in the handler |
| **Fault daemon** `faultd/src/module/src/faultd.c` | fifo, service slots | add, remove, read; client write | faulting processes | messages of several writes, of several writers, without boundaries |
| **OID tree and device API** `oids.c sys.c sfp.c fan.c psu.c led.c thermal.c` | none (the platform's) | get, set, iterate | platform drivers | error paths; non-atomic composites |
| **ONIE decoder** `onie.c` | none | decode | sys info | length arithmetic |
| **Loader** `src/packages/base/all/initrds` | boot mode, settings, retry counter in memory; kernel, initrd, unpacked root and its record on disk | sysinit, autoboot, bootmodes, unpack, boot, switchroot | ONL partitions, image servers | power loss between steps, retries that change their own settings |
| **Upgrades, install** `src/packages/base/all/vendor-config-onl/src/python/onl/{upgrade,install}` | versions, upgrade status, boot loader environment | check, copy, reboot | loader, mount manager | interrupted upgrades, versions written by others |
| **Mount manager** `.../python/onl/mounts` | none but what it last read of `/proc/mounts` | contexts; mount, unmount, rw, fsck | boot-config, PKI, upgrades | contexts of several processes without a lock |
| **Package manager** `src/tools/onlpm.py` | package cache and repositories on disk | load, build, extract | parallel builds | file locks |

Platform drivers, kernels, patches, root file systems, generated enumerations,
and file, GPIO and I2C wrappers keep no state of their own or are code for one
product; they are the environment of the modules. The `bigcode` and `infra`
submodules (AIM, timer wheel, `aim_daemonize`, os abstractions) are not in the
repository; what the code needs of them is modelled from its use and marked
external in the map.

What makes each modelled part correct:

- *API lock*: at most one locked body at a time in all processes; the lock is
  initialised before anybody uses it; a dead owner never leaves it unusable; no
  caller waits for the dead.
- *Platform manager*: one manager thread at most; when stopped, quiet; no
  descriptor lost; a blocking stop returns; a callback is never put off for long;
  a SIGTERM that finds it running ends the daemon, and only SIGTERM does.
- *Notifiers*: whoever reads the log knows what the manager has seen.
- *File service*: it closes nothing that is not its own; destroy never frees under
  the worker; a connection to an active service is answered, and a refused addition
  is not refused for ever.
- *Fault reports*: one handler at a time in the record of a process; a report that
  was cut short does not spoil more than itself and the one behind it.
- *Loader and upgrade*: a root that is recorded is whole; autoboot never gives up on
  a switch that can boot; its attempts come to an end; an upgrade is over when it says so.
- *Mounts*: contexts put back what they found; what a body writes lands on the
  device.
- *SNMP sensors*: the two threads never meet on the list; no row points to a
  freed sensor; a request reads a stable buffer; the tables follow the platform.

## 2. Modules

| Module | Models | Extends / uses |
|---|---|---|
| `ApiLock` | what `ONLP_LOCKED_API*` promises: an abstract lock | |
| `ShLock` | the shared-memory lock that implements it | instances `ApiLock` |
| `ManagerService` | what start, stop and join promise: an abstract manager | |
| `PlatformManager` | start, stop, join and the thread's life, which implement it | instances `ManagerService` |
| `PlatformDaemon` | onlpd with its signal handler | composes `PlatformManager` |
| `ManageNow` | timer loop in discrete time | |
| `StatusNotify` | PSU and fan notifications | |
| `SnmpSensors` | sensor tables of the SNMP agent, discovery by `onlp_oid_iterate` included | |
| `FileUds` | Unix sockets that behave like files, with their one handler | |
| `FaultReport` | fault handlers, their writes into the fifo, faultd's reader | |
| `LoaderBoot` | from power on to a root, and the loader upgrade run from it | |
| `Mounts` | one labelled device and the processes that borrow it | |
| `MC*` | constants of the runs | one per module above |
| `*Proofs` | theorems | `PlatformManagerProofs` is about the manager and the daemon, `CallbackProofs` about `StatusNotify` and `ManageNow`, the others about the module they are named for |

Definitions marked *Mutant* in a module are plausible mistakes in the definition
that follows them. No specification uses them; each property of a run is
violated when the one named for it in `PROJECT.json` takes the place of the
original, which shows that the property depends on that piece of code.

### ShLock
`shm`, `magic` and `mutex` are the segment, `l->magic` and `l->mutex`. The mutex
is the pthread one: owner, and a state that follows POSIX for robust mutexes
(*ownerdead* when the kernel released it for a dead thread, *inconsistent* until
`pthread_mutex_consistent`, *notrecoverable* if unlocked before). `ppc` walks a
process through `__onlp_module_init__`: `ShmemCreate`, `CheckMagic`,
`MutexInit`, `Publish`, `SetGlobal`; `pc` walks a thread through a locked call:
`ApiCall`, `Take`, `MakeConsistent`, `Give`. `AIM_DIE` is the exit of the
process (`ShmemCreateFails`, `MutexInitFails`, `GiveFails`); `Kill` ends a process
anywhere, and `Start` starts it again. `raced` is a history variable: it records
that two processes were between reading an unset magic and setting it. Names,
sizes and permissions of the segment are left out. The single-process variant of
`onlp_locks.c` (lines 29-68, a semaphore) is not what libonlp.so is built with.

### PlatformManager, PlatformDaemon
`eventfd` and `thread` are the fields of `control__`; `efd` is what the kernel
thinks of each descriptor. Each read, system call and assignment on
`control__` that another thread could see in between is a step of its own: the
test and the write of `stop`, the test, the wait and the close of `join`, and the
close, the assignment and the return of the thread. `write` may use the
descriptor tested or the one `control__` holds by then, as the compiler may
reload it. In `PlatformDaemon` the signal handler is a further caller on each thread
(`Handler[h]`, for the main thread and every manager thread h): the thread under it
stands still meanwhile, and `select` is interrupted, after which the thread manages the
platform once more before it looks at the eventfd. SIGTERM is masked while its handler
runs, but only in that thread, so that both threads can be in the handler at a time.

`ManagerService` is what a user of `sys.h` may count on: a set of active threads,
whether one of them was told to end, and whether the manager is believed stopped.
Active is a thread in its loop (`InLoop`), told is one whose eventfd is signalled or who
has read it (`Told`).

The caller is single in `PlatformManager`'s runs: `start` from two threads at
once is not a use the code makes of it (onlpd and the tools call it from
`main`). Whether callers keep to that is an assumption of theorems, not of the module,
so that the daemon can add its handler.

### ManageNow
Time is relative: `left[e]` is an entry's deadline minus now. A tick is half a
second, which divides all the rates of `management_entries`. A callback takes up
to `MaxDuration` ticks, because it waits for the API lock and the platform's
buses. The wheel may return any expired entry. `SelectFails` is a failure of `select`,
by a signal or not: the thread sleeps for a second (`SleepTicks`), which a signal may cut
short, and then manages the platform; a deadline can pass meanwhile. `Schedulable` says of
the rates and the bounds alone that callbacks of other entries cannot fill the ticks of
`MaxLate` that follow such a sleep: a callback runs for at most `MaxDuration` and then not
again for more than its rate.

### StatusNotify
The code logs; nothing reads the log but people. The model has such a reader: `belief`
is what the messages so far say of each unit. The properties compare it with `table`,
what the manager has recorded. The drivers may report any flags of an absent unit: the
one of the Ingrasys S9100 (`psui.c:81-84`) says that an absent PSU has failed. A PSU
that stops failing while it is absent logs no recovery, so what is told of failures has
two sides: a unit is *failed* from a failure to a recovery, and the one in the slot is
*defective* only until it is removed or another inserted. By the log a failed unit is
always *failed*, and a present one that works never *defective*. Both notifiers are one
`Visit`, since they differ only in the PSU's power cord and the conditions on a recovery
(`Changes`, `Initial`).

### SnmpSensors
One action per loop iteration of `update_tables__` and `restructure_tables__`,
because the other thread can run in between; the request handlers pick the front
buffer and read it in two steps. `Order` is the order in which
`onlp_oid_iterate` meets the sensors. The agent thread does one thing at a time,
as net-snmp's main loop does. The columns of the tables are left out. Memory is
sequentially consistent: `curr_info` and `restructure_trigger` are plain
variables, so this holds on the x86-64 builds and is an assumption on ARM and
PowerPC.

### FileUds
`running`, `terminate`, `event` are the control object; `svc`, `lfd` and `waiting`
an entry of the list, its listening socket and the connections that wait at it;
`owner` says what each descriptor of the *process* is open for, because numbers are
handed out again as soon as they are closed. The worker goes round `head` (test of
`terminate`, the eventfd joins the set), `scan` (the list, under its lock), `wait`,
`serve` (the events one by one: `WEventfd`, `WSkip`, `WAccept`), `handle`
(`cpu_utilization_handler__`, which writes and closes) and `close` (the second close,
in `accept__`). `Add` and `AddWakes` are the two halves of `onlp_file_uds_add`, since
the lock is given back in between; `Remove` marks the entry and wakes nobody, as the
code does. `Destroy`, `DestroyWakes`, `Join`, `Free` are `onlp_file_uds_destroy`.
`window` is a history variable: the descriptors opened between the two closes. The
two stores of undefined behaviour end the behaviour: a wrong close (`wrong`), and
steps of a worker whose control object is freed.

### FaultReport
Per process, `lock` is `thread_lock__` and `info` the thread whose data is in
`faultd_info__`; per thread, `pc` walks through `faultd_signal_handler__` and `depth`
counts handlers that sleep under the running one, since pselect unmasks every signal.
`pipe` is the fifo: record, text, terminator. The text is one item, though
`backtrace_symbols_fd` writes each frame by itself: to the server it is one text up to a
NUL, and until reports overlap nothing comes between. Writes are smaller than PIPE_BUF,
so atomic, and non-blocking, so that any may fail while the fifo holds
something. The server (`srv`) has no message boundaries to go by. A text ends with a
NUL; so does one whose terminator is missing, in the first byte of the next record
(`ReadIntoRecord`), for a client leaves `pipename`, the first field, NULL. That record
is then read one byte late (`ReadRest`, `ReadLastByte`) and borrows a byte of what
follows; because `backtrace_symbols` is the last field and 1 on the client's side,
what was borrowed decides whether a text is expected. On a big-endian machine the
field is never NULL in this case; the model is the little-endian one. `cur` and
`shown` say what a report is made of: *whole*, *cut* (its end is missing), *spoilt*
(read shifted), *torn* (another thread wrote over the record), *mixed* (parts of two).
Behaviours end once reports overlap, a sleeping handler was woken, faultd died inside
a report, or the server has lost its place.

### LoaderBoot
The disk is `kernel`, `initrd`, and the data partition's root: `content`, its record
`etc/onl/SWI` and `current`, its `etc/onl/loader/versions.json`. `unsynced` is what a
power failure may take back. `net` is what boot-config says of the network, as far as it
decides how `ifup` ends: without a device it fails, with `NETRETRIES=infinite` it may
ask for an address for ever, and else it succeeds, with an address or not. `pc` walks
through the loader's scripts, one action per program or per write to the disk, then
through the upgrade that `/etc/boot.d/15.upgrade-loader` starts in the booted root.
`params` is the SWI line of `BOOTPARAMS`, which the mode *installed* replaces before it
has unpacked anything, so the next attempt of the same boot behaves differently from the
first. `where` is where ONL-DATA is mounted: after a switchroot that found no init it
stays on `/newroot`, and the mount manager leaves it there. Files are abstract: a
version, or *partial* or *torn*. `spoilt` is a history variable: the recorded root has
lost something since it was wiped, because unsquashfs stopped half-way and nobody looks
at its result, or because the record was written back before the files. The counter of
attempts saturates one above its maximum, where init has been asked for a reboot and
autoboot goes on until it comes. Left out: `swiprep --record`; the ways out of
`autoboot` that somebody asks for (`/etc/onl/abort`, Control-C) or that a missing or
unknown `BOOTMODE` takes, all into the login shell; boot-config lines other than `SWI`,
`BOOTMODE` and those of the network; the U-Boot variant of the upgrade; and the boot
loader's own settings, whose update is not checked by the code (`upgradeBootLoader`).

### Mounts
`mnt` is what the kernel has: nowhere, on the directory of `mtab.yml`, or elsewhere,
read-only or writable. A process has its `view`, the last `/proc/mounts` it read,
`status`, what `__enter__` found, and `want`. `Check`, `Mount`, `Reread` are
`__enter__`; `Open` and `Leave` its body; `Restore`, or `Recheck` and `Umount`,
`__exit__`. A command is decided by the view, and takes effect or not by the state
of the device (`Possible`): the kernel refuses to remount read-only what is being
written and to unmount what is open. It may also fail for no reason (`CommandFails`),
and nobody looks at the result. `onl-mounts mount` goes by the view of its constructor.
The variables marked as history record the nesting of contexts: `level`, `depth`,
`found`, `left`, `base`, and whether the nesting was disturbed.

## 3. Runs

| Run | Question | Bounds | Result |
|---|---|---|---|
| `shlock` | Is the lock initialised before use, recoverable, free of dead waits, and, while initialisers do not overlap, exclusive and an implementation of `ApiLock`? | 2 processes, 2+1 threads, unlimited kills and restarts | holds |
| `shlock_give` | Does the holder's unlock always succeed? | same | **violated** |
| `manager` | Do start, stop and join implement `ManagerService`, is it quiet after stop, is no descriptor lost, does a blocking stop return? | 1 caller, 2 descriptors, 2 thread ids, unlimited calls | holds |
| `daemon` | Does SIGTERM end a running daemon, does nothing else, and is the manager at rest at `exit`? | 3 signals, handled one after the other or two at a time | holds |
| `manage_now` | Are callbacks punctual and a stop noticed when callbacks take up to half a second and `select` fails at times? | the code's four entries and rates | holds |
| `notify` | Does the log tell presence and failure, and is the last status recorded in the end, with both told? | 1 PSU, 1 fan, all statuses | holds |
| `snmp` | Do the two threads keep apart, are rows and buffers consistent, do the tables follow the platform? | 2 sensors, unlimited changes | holds |
| `uds` | Whom can the double close hit, when does destroy free under the worker, is everybody served in the end? | 2 services, 3 descriptors, 1 waiting connection each, unlimited calls | holds |
| `fault` | Who writes the shared record, and how far does a cut report reach? | 2 processes, 2+1 threads, 3 writes in the fifo, 1 nested handler | holds |
| `boot` | Is a recorded root whole, does autoboot neither give up nor go on for ever (but where nothing has a timeout or is counted), is an upgrade over after its reboot (mode swi)? | 2 versions, 2 retries, unlimited boots and power failures | holds |
| `boot_reboots` | Is an upgrade over after its reboot in every mode? | same | **violated** |
| `mounts` | Do nested contexts restore, do writes land on the device? | 3 processes | holds |

*Why the bounds are enough.* The lock's hazards are between two processes (both
initialising; one holding, one taking over) and between threads of one process and of
another, so two processes, one with two threads, show each; kills and restarts are not
bounded. The thread of an earlier start may still be ending when the next one begins, so
two descriptors and two thread ids are needed, and a leak of either would stop the run
in a state where nothing can start. The daemon makes one start, so a descriptor and a
thread id are enough; a second signal can be handled while the first is, on the other
thread, and a third arrive during the shutdown they began. `MaxLate` bounds how late an
entry can be told to be: `Punctual` says the bound is not reached, so it cuts nothing
off; eight ticks, two of them for the sleep, are the least for which the code's rates
are `Schedulable`, and TLC evaluates that before the run. A PSU and a fan go through all
branches; the units are handled one at a time and share no state. Two sensors show what
one does to the other, and an order. The file service needs two listening sockets and a
descriptor to fight for; with three, numbers are reused at once and run out. The fifo of
three writes holds one whole report, so that the next one meets a full fifo at any of
its writes, and cut, whole and shifted reports follow each other; two threads of one
process and one of another are the two ways to overlap. Two versions make every
comparison of versions come out either way, and two retries reach the reboot; the boot
is otherwise unbounded. Three processes on one device nest three deep, or overlap with a
third acting between. `MCMounts` drops, by a VIEW, the history of a nesting that has
been disturbed: no property reads it then. Proofs take the place of larger instances
where there are any.

*Fairness.* Threads inside library code are scheduled (weak fairness), since
they are ordinary threads and the bodies they run return; nobody has to call,
start, kill or send anything. `SnmpSensors` needs strong fairness for the alarm:
net-snmp runs due alarms after each request, so a stream of requests cannot put it
off for ever, though it disables it again and again. `StatusNotify` needs it for
the passes, each of which waits for the other's end on the single manager thread,
and for a successful read of each unit: without that, a unit that is never
readable is never logged, which is what the code does. `FinalStatusLogged` and
`TablesTrackPlatform` speak of hardware that has settled.

In `FileUds` the worker is scheduled and a caller inside the library goes on;
clients, signals, failures of system calls and calls of the API are not fair, and
`Answered` presupposes that descriptors do not run out for good. In `LoaderBoot` the
scripts go on, since `autoboot` runs `boot` under a timeout, and init gets round to the
reboot it was asked for. Two steps have no timeout and may hang (`Waiting`): `ifup` with
`NETRETRIES=infinite` (`Configuring`) and the download of the mode *installed*
(`Downloading`). `AutobootEnds` names these two and a third way not to end: an image
without an init makes `switchroot` start `/init` again, in mode *swi* time after time,
because no attempt is counted. The power, the network and the operator owe nothing.

`CHECK_DEADLOCK FALSE` is used where the system may stop: the daemon exits, the
manager thread returns, a service is destroyed, a loader no longer boots; in
`FaultReport` and `Mounts`, which have safety properties only, also because a behaviour
ends where the model does.

### What the violated runs show
1. **`shlock_give`** Two processes that start on a fresh boot can both see the
   magic unset. The slower one initialises the mutex a second time, while the first
   already holds it: its unlock then fails with EPERM and the library aborts it, and
   until then both are in locked bodies. `shmget` tells who created the segment, but
   its answer is not used. Everything else of the lock survives this race
   (`ReadyAtStartup`, `Recoverable`, `Progress`).
2. **`boot_reboots`** "A single reboot will be required to complete this upgrade"
   (`loader.py:61`). With `BOOTMODE=installed` the version the upgrade calls current is
   a file of the unpacked root, written once by `swiprep --install`. After the upgrade
   the new loader boots the same root, and the upgrade, forced by default, is indicated
   and run again at every boot. In mode *swi* the file is made anew at each boot and
   `UpgradeSettles` holds.

### Other divergences
Five properties stated in the modules do not hold of the code; no run is kept for
them. To see a counterexample, put the property in the place of the others in the
module's configuration:

| Property | Module and cfg | What happens |
|---|---|---|
| `StartedMeansRunning` | `MCPlatformManager`, `PlatformManager.cfg` | A start shortly after `stop(0)` finds the old eventfd, says "already running", and nothing runs once the old thread has ended. |
| `SigtermTerminates` | `MCPlatformDaemon`, `PlatformDaemon.cfg` | The handler is armed before the manager starts and does nothing while there is no eventfd, so an early SIGTERM is lost. |
| `ManageNowReturns` | `MCManageNow`, `ManageNow.cfg` with `MaxDuration = 2`, `MaxLate = 6`, and `RatesAssumption`, which is false then, taken out of `MCManageNow` | `manage_now` runs until no entry has expired, reading the clock for every entry: two one-second entries whose callbacks take a second keep each other expired for ever, and the thread never looks at its eventfd. |
| `LogTellsUnplugged` | `MCStatusNotify`, `StatusNotify.cfg` | The cord of a PSU is logged only if the PSU is present and works at that read, but the status is recorded anyway; a change while it is failed or absent is lost. |
| `ReadableSensorsListed` | `MCSnmpSensors`, `SnmpSensors.cfg` | One OID whose header cannot be read ends the whole discovery; the sensors after it lose their rows until it can be read again. |

Seen while modelling, and told apart by the properties' provisos:

- *Manager*: the thread sets the eventfd to -1 before it returns, so a join after a
  non-blocking stop may skip `pthread_join` and leave a thread unreclaimed; the first
  read of a failed unit logs its failure twice.
- *Notifiers*: a PSU that stops failing while it is absent logs no recovery, and a failed
  one that is replaced by another failed one, by a driver that reports FAILED all the
  while, is logged as inserted and not as failed: "failed" in the log may be about a
  PSU that is gone (*defective* in `StatusNotify` is what is certain of the present one).
- *File service*: a destroy that comes before the worker has announced itself frees
  the control object under it (`early` in `NoUseAfterFree`); the second close of a
  connection can hit one descriptor another thread opened in between (`window` in
  `ClosesOwn`); add returns 0 when the service could not be created; remove does not
  wake the worker; destroy closes neither the eventfd nor the epoll set.
- *Fault reports*: a report cut short spoils the next one, and with an unlucky byte the
  one after; a sleeping handler whose sleep is ended writes into the record of the
  thread that has the lock and releases its lock; reports of two processes that overlap
  are mixed. `DamageIsBounded` says that nothing else mixes them.
- *Boot*: the mode *installed* waits for its download without a timeout, so that a
  server that stalls stops the boot for good; so does a DHCP server that does not
  answer, if boot-config asks for infinite retries; an image without an init boots the
  loader again and again in mode *swi*; a root half unpacked is booted when unsquashfs
  stops after `lib.sh`; nothing syncs after unpacking; an attempt that failed to
  download at the first boot leaves settings under which the next one ends in the login
  shell, contrary to "Continue trying" (`NeverGivesUp` is for a switch that has a
  recorded root); a power failure inside the copy of a kernel or initrd leaves a loader
  that does not boot, and one between the copies a kernel of one version with the initrd
  of another.
- *Mounts*: contexts that overlap without nesting can leave the device in the wrong
  mode, or make the other's writes fail; a device mounted elsewhere keeps the new mode
  after the context; a context on an unmounted device, if its mount fails, writes into
  the directory underneath.

## 4. Theorems

All proofs are checked by TLAPS to the last leaf, for every value of the
constants that satisfies the named assumptions of the modules.

**`ShLockProofs`** (assumes only that `ProcOf` maps threads to processes and that
`Nobody` is no thread.) None of the three invariants is inductive. `IInv` adds:
`SetUpInv`, a process past start-up has seen the magic, and the magic or the
intention to publish it comes after a mutex initialisation; `RobustInv`, an
inconsistent mutex belongs to a thread about to repair it; `UnracedInv`, as long
as initialisers have not overlapped there is at most one, the magic is unset while
it works, and holders own the mutex. From `IInv`: `TypeCorrect`,
`MutualExclusionHolds`, `ReadyAtStartupHolds`, `RecoverableHolds`. `Refinement`
proves `Spec => AbsSpec`: with the threads inside locked bodies as the abstract
holders (none once initialisers have overlapped), every step is an abstract acquire
or release, or a stutter. `PublishedExclusionHolds` starts from a lock that is
already published and needs no proviso: no initialiser ever runs again.

**`PlatformManagerProofs`** (assumes that descriptors are positive numbers and
`NoThread` is no thread.) `TypeCorrect` holds for any number of callers. `IInv`: the
thread in its loop is the one `control__.thread` names and owns the eventfd, which is
open until the thread closes it (`RunningInv`); an open descriptor has such a thread, or
a start that is about to create it (`OpenInv`, `CreateInv`); a start in progress has not
been called stopped (`StartInv`). It is the reason a stop's late write and a join's late
close are harmless: they meet -1 or a descriptor nobody has reused. `CallerStep` proves
that a call preserves it if its caller is alone in starting a manager, or only makes a
non-blocking stop. The first is true of every step when there is one caller
(`OneCaller`): `AtMostOneManagerHolds`, `StoppedMeansQuietHolds`,
`NoDescriptorLeakHolds`, and `Refinement`, `Spec => ImplementsService`, in which the
creation of the thread is the service's `Begin`, clearing the eventfd is its `End`, and
the write that reaches an open eventfd its `Ask`. `RequestKept` is read off the service:
it forgets a request only when no thread is left, so no stop is lost (`RequestKeptHolds`).

The daemon's callers are the main thread and a handler on each thread
(`DaemonCallers`), of which the handlers only make non-blocking stops (`HandlerInv`), so
the same lemmas give `DaemonLifecycle` and `DaemonRefinement`: a signal on any thread, at
any step of any of them, and while other threads are in their handlers, is one more
request, which is kept if it found an open eventfd (`DaemonRequestKept`). `DInv` adds
where the main thread is in the library at each place of the daemon
(`MainInv`, from which `ExitsQuietlyHolds`), and what is true before the first SIGTERM
(`UntoldInv`): nobody is about to write, no eventfd is signalled, and a thread that was
created goes round its loop while the main thread waits for it, so that the main thread
comes to `stop` only if nothing was created: `ExitsOnlyWhenToldHolds`, for any number of
signals.

**`CallbackProofs`** On notifications: `LogTellsPresenceHolds` and
`LogTellsFailureHolds`, for any units, any statuses and any flags of absent units.
`UnvisitedInv` says that nothing is recorded or believed of a unit before its first
visit. `VisitTells` shows that a log that agrees with what was recorded agrees with what the
next visit records.

On the timer loop (assumes that rates are positive numbers and the bounds numbers):
`Punctual` is not inductive, since an entry's lateness depends on what ran meanwhile.
`BusyInv` recovers it without a history variable: for an entry that is overdue there is
an assignment of the ticks since its deadline to callbacks of other entries, in which no
entry comes back before its rate has passed. One sleep is taken off first (`Backlog`): a
failed `select` may let deadlines pass, but in `select` nothing was overdue (`RestInv`),
so there is one sleep at most, and a callback of d ticks extends the assignment by d.
Under `Schedulable` no assignment fills `MaxLate` ticks less the sleep, hence
`PunctualHolds`, for all entries, rates and durations. `OneRoundIsSchedulable` gives a
condition for that which needs no search (`OneRoundFits`, by the pigeonhole principle:
among more ticks than one round of the other callbacks takes, two belong to the same
tick of one callback). It holds of the code's rates for callbacks of up to a quarter of
a second, which are then less than two seconds late, one of them asleep; for those of up
to half a second TLC evaluates `Schedulable` itself, and the bound is four seconds.

**`SnmpSensorsProofs`** `SInv`: the trigger is up only while the update thread
rests, and restructuring runs only while it is up (`TurnInv`); a sensor without a
control structure has no valid buffer left over (`FreshInv`); row by row, which of
the two buffers the table reflects (`RowsInv`, with `Deciding`: the back buffer
until the restructuring has passed the sensor); a request's sensor has a row and its
buffer is the front one, or the trigger is about to keep the update thread away
(`ReadInv`). From it `OneAtATimeHolds`, `RowsLiveHolds`, `ReadsAreStableHolds` and
`RowsMatchBuffersHolds`.

**`FileUdsProofs`** (assumes that `NoFd` and `NoPath` are no descriptor and no path,
and `Backlog` a number.) `IInv` has three parts. `RunningInv` ties the worker's place to
`running`, and says that a freed object with a live worker means an early destroy: this
is `NoUseAfterFree`. `BatchInv`: a service among the events still has its connection, so
`accept` does not fail for want of one. `DescriptorInv`: every entry has a listening
socket of its own, a connection's descriptor is the connection's until its handler has
closed it, and afterwards, if it is in use again, it was opened in the window. An entry
that kept its number after its socket was closed would break it at once, which is what
the mutant shows. `ClosesOwnHolds` follows action by action from `IInv` and the
primed `IInv`.

**`FaultReportProofs`** (assumes that `ProcOf` maps threads to processes, `Nobody` is no
thread, and the two bounds are numbers; the theorems hold for all bounds.)
`HandlerInv`: whoever uses the record of a process has its lock and is alone, and the
record is his from `Fill` on, hence `Synchronized`. `StreamInv`: what stands behind an
item in the fifo is the next part of the same report or a new record, which knows
whether the one before it had ended. `ServerInv`: where the server stands, the head of
the fifo fits what it expects, or is the record that cuts the report. `LastInv` ties the
end of the stream to who is writing. A step that appends needs the last, a step that
takes needs the middle two, and together they give `DamageIsBounded`; none is inductive
without the others.

**`LoaderBootProofs`** (assumes that the markers *none*, *torn*, *empty* and *partial*
are no versions and `AutobootMax` is a number.) `UnpackInv`: while an image is unpacked
there is no record, what was fetched is what is being unpacked, and a record names the
content unless something was lost; a partition left on `/newroot` had no init, so it
has no record that is worth anything. `UpgradeInv` follows the upgrade: which of the two
files is already of the running version at each step, and that nothing of them is
unsynced once it went to its end. From it `RecordedMeansWholeHolds`,
`NeverGivesUpHolds` and `UpgradeSettlesHolds`.

**`MountsProofs`** (no assumption on the processes.) What is true whatever happens:
`FileInv`, an open file keeps the device where it is, writable if it is written;
`OriginInv`, a device the boot mounted stays there, because everybody finds it there and
nobody who did unmounts it. This gives `WritesLandHolds` for mounted devices. For nested
contexts `NestedInv` is needed: `LevelInv`, the open contexts have the levels 1 to
`depth`, each once; `ContextInv`, what a context found and left, what it knows, and that
the innermost sees the device as it left it; `ChainInv`, a context found what the one
around it had left, and every file opened further out is respected. Leaving a context
then hands the one around it the device it knows, which is the induction step of
`NestedRestoresHolds`, for any depth.

**Only model-checked.** All liveness (`Progress`, `StopReturns`,
`SigtermEndsRunning`, `StopNoticed`, `FinalStatusLogged`, `TablesTrackPlatform`,
`Answered`, `RetriedAddSucceeds`, `AutobootEnds`): fairness and ENABLED are out of the
prover's reach. Every safety and action property of the runs that hold is proved.

## 5. Not modelled yet, and the plan

In this order; `PROJECT.json` lists the hazards.

1. `DeviceApi`: `onlp_oid_iterate` with a type filter against the set of matching
   descendants, and the composite SFP and fan calls over `ApiLock`.
2. `SwiCache`: the image cache with power loss between the copy and its hash; the cache
   never accepts a partial copy while the source stands still.
3. `OnlpmCache`: the package cache under parallel builds.
4. `OnieTlv`: the decoder against a definition of a well-formed record list.
5. The other upgrades (ONIE, firmware, system) and their shared status file over
   `LoaderBoot`; `swiprep --record`; the steps of the installer.
6. The update thread of the SNMP platform objects: two buffers, and
   `us_to_next_update`, whose unsigned difference wraps when an update took longer than
   the period, so that the thread then sleeps a whole one.

Further proofs: abstract specifications of the other components and their refinement:
the record of a process in `FaultReport` and the sensor list of `SnmpSensors` as
instances of `ApiLock`, with the provisos of `Synchronized` and `OneAtATime`; the
installation of a root in `LoaderBoot` as an atomic change of the recorded version.

Not modelled of the parts that are: fsck and device discovery of the mount manager,
several service slots of faultd, the network and download logic of the loader
(`swiget`, `ifget`), which is one choice of outcomes in `LoaderBoot`.

Left out for good: the command-line output of the tools, column formatting, the OOM
shim and the file, I2C and GPIO wrappers (no state of their own), platform drivers
(one product each), generated tables, kernels and build recipes.

## 6. Running it

    tlc -config ShLock.cfg MCShLock          # any run: see PROJECT.json for module and cfg
    tlapm ShLockProofs.tla                   # any module ending in Proofs
