# DrakX in TLA+

DrakX is an installer and the set of tools that configure the system it
installed. This directory models the parts of it whose correctness depends on
the order in which things happen: what is held in memory, what is on the disk,
what the kernel was told, and what a step that failed left behind.

Paths below are relative to the repository (`src/`), line numbers to its files.

## 1. The system

### Components

| component | where | state | operations |
|---|---|---|---|
| partition tables | `perl-install/partition_table.pm`, `partition_table/*.pm`, `c/stuff.xs.pl` | `$hd`: raw and normal entries, `isDirty`, `readonly`, `will_tell_kernel`, `rebootNeeded`; the medium; the kernel's partitions | read, initialize, add, remove, will_tell_kernel, write, tell_kernel |
| diskdrake editor | `perl-install/diskdrake/interactive.pm`, `hd_gtk.pm`, `fsedit.pm` | `$all_hds`, the current disk and partition | Clear all, Create, Delete, Type, Resize, Format, Mount, Unmount, Auto allocate, RAID, LVM and encryption actions, Done |
| file systems | `perl-install/fs.pm`, `fs/*.pm` | `isMounted`, `isFormatted`, `notFormatted`, `real_mntpoint`, fstab | mount, umount, format, loopback, fstab merge and write |
| LVM, RAID, dmcrypt | `lvm.pm`, `raid.pm`, `fs/dmcrypt.pm` | volume groups, arrays, mappings in memory and in the tools' metadata | create, add, remove, delete, resize |
| file system resizing | `perl-install/resize_fat/*`, `diskdrake/resize_*.pm` | a FAT being rewritten in place | flag, remap, copy, commit |
| install step engine | `install/install2.pm`, `install/steps.pm`, `install/steps_list.pm` | per step: `done`, `reachable`, `entered`, `auto`, `toBeDone` | run a step, recompute reachability, go to `onError` |
| step bodies | `install/steps_*.pm`, `install/gtk.pm`, `install/any.pm` | `$o` | one dialog per step |
| packages and media | `install/pkgs.pm`, `install/media.pm`, `pkgs.pm`, `do_pkgs.pm` | urpm's selection, media list | select, install, change medium |
| bootloader | `bootloader.pm` | entries of the boot menu | read, suggest, install |
| command runner | `run_program.pm` | child pids, alarm, shared output files | run, with timeout or detached |
| front-ends | `interactive.pm`, `interactive/*.pm`, `mygtk3.pm`, `ugtk3.pm`, `wizards.pm` | page stack | ask_from, wait_message |
| web front-end | `interactive/http.pm`, `standalone/interactive_http/` | two FIFOs, the uid of the question asked last | new session, next step, force exit |
| hardware and configuration | `detect_devices.pm`, `modules.pm`, `services.pm`, `authentication.pm`, `lang.pm`, ... | configuration files | read and write |
| standalone tools | `perl-install/standalone/*` | - | dialogs over the above |
| stage1: methods | `stage1.cpp`, `disk.cpp`, `cdrom.cpp`, `directory.cpp`, `mount.cpp`, `lomount.cpp`, `automatic.cpp` (all in `mdk-stage1/`) | mounts, the loop device, the link `/tmp/image`, `/tmp/env`, the automatic mode | choose a method, try a device, mount, look for stage2 |
| stage1: network | `network.cpp`, `wireless.cpp`, `adsl.cpp`, `dns.cpp` | interfaces and their `boot_proto`, name servers, `resolv.conf`, `ifcfg` | select, configure, route, save |
| stage1: DHCP | `dhcp.cpp` | one transaction: id, tries, the port | DISCOVER, REQUEST, send again, give up |
| stage1: downloads | `network.cpp`, `url.cpp`, `nfsmount.cpp` | answers about mirrors, servers and the proxy; the control connection | ask, connect, get, tell stage2 |
| stage1: switching off | `reboot.cpp` | what is mounted, loop devices | unmount, in passes |
| stage1: modules, boot, screens | `modules.cpp`, `thirdparty.cpp`, `probing.cpp`, `drvinst.cpp`, `frontend*.cpp` | modules loaded | load, probe, ask |
| vendored and data | `mdk-stage1/{slang,newt,libkmod,libpci,libsysfs,pcmcia}`, `kernel/`, `tools/`, `images/`, `docs/`, `po` | - | - |

### How they interact

Stage1 finds an installation medium and starts stage2, where the step engine
calls the steps one after another. The partitioning step calls diskdrake, which
edits partition tables in memory. `partition_table::write` hands the pending
operations to the writer of the table's format; `gpt.pm` gives them to
libparted, which numbers partitions on its own and informs the kernel. `fs/*`
then uses device nodes, `/dev/sdXn`, whose meaning is the kernel's idea of
partition n. So three tables must agree at the right moments: the one in memory,
the one on the medium, the one in the kernel.

The Perl code is single-threaded and asks the user for every operation. What
makes it hard is not threads but four other things: lists of operations that are
applied long after they were made, by a library with rules of its own; operations
of which some steps fail; state that says what is true of the disk (`isDirty`,
`rebootNeeded`, `isMounted`, `done`, `reachable`) and goes stale; and, in stage1
and the web front-end, other processes and lost messages.

### Hard behaviours, and what makes each component correct

* **Partition tables.** A table that is not dirty is the one on the medium,
  number by number. The queue can always be replayed. Partitions do not overlap.
  A mounted partition is never changed by a write. When no reboot is asked for,
  the kernel has the medium's table. DOS tables add: logical partitions renumbered
  by a removal, kernel operations delayed until the end, udev reading the table
  by itself.
* **diskdrake.** A resize that fails at any of its steps leaves memory, medium
  and file system in agreement; tools are only given nodes the kernel knows.
* **LVM, RAID.** Memory and the tools' metadata agree after a command that died.
* **FAT resizing.** A crash at any write leaves a file system that is either the
  old one or repairable.
* **Step engine.** No step runs before what it needs; reformatting makes the
  packages be chosen again; the installation ends once steps stop failing.
* **Command runner.** A command reported as failed does not go on.
* **Web front-end.** An answer is taken for the question it was shown for; a new
  session ends the old program.
* **Stage1: methods.** Failed attempts leave nothing mounted; what stage2 is told,
  through four different channels, is of the attempt that succeeded; the
  automatic mode ends or turns into questions.
* **Stage1: network.** What is saved is what works, after any attempts on any
  interface; whoever cancels gets out.
* **Stage1: DHCP.** An address is configured only if a server gave it to this
  machine; an attempt ends once the network is quiet.
* **Stage1: downloads.** Stage2 goes on from the place the image came from; replies
  and commands stay in step; an attempt ends.
* **Stage1: switching off.** Everything that can be unmounted is, in any
  arrangement.

`PROJECT.json` lists each hazard at its line, with the property that covers it or
the reason none does yet.

## 2. Plan

Done, in this order:

1. `GptTable`, with its abstract specification `SavedTable`, and proofs.
2. `InstallSteps`, the step engine, and proofs.
3. `InteractiveHttp`: program, CGI, browser and the two FIFOs, and proofs.
4. `Dhcp`, with its abstract specification `LeaseTable`, and proofs.
5. `DiskMethods`: the method loop, disks, CDs and ISO files, and proofs.
6. `NetUp`: the network comes up before a network method, and proofs.
7. `FtpClient` and `Fetch`: one FTP attempt, and the dialogue around attempts, with proofs
   about the first and that it implements its part of the second.
8. `Reboot`: the unmount passes, and proofs.

Left:

* `DosTable`: primary entries, the chain of extended ones, renumbering, the
  delayed kernel operations and udev. It would implement `SavedTable` as well.
* `Raid` and `Lvm` (sizes by level against a reference; commands that die),
  `RunProgram` (alarm, kill, detached children).
* Resizing: crash points of the FAT rewrite, and its composition with GptTable's
  `ShrinkFs`/`GrowFs`.
* fsedit's allocation (`suggest_part`, `auto_allocate`) as operators over holes.

Which module stands beside which: `DiskMethods` and `Fetch` are two halves of what the
method loop of stage1 calls; `NetUp` is what `Fetch` calls in its step `Up`, `Dhcp`
what `NetUp` calls in `DhcpOk` and `DhcpFails`, `FtpClient` what `Fetch` calls in `Get` and
`GetArch`. Each caller has of the one below what its properties guarantee: an
attempt ends, with success or failure. They are not composed in one state space;
every pair is sequential, so the product would add no interleaving. Where the caller
relies on more than success or failure, the one below is shown to implement it:
`FtpClient` is an `INSTANCE` of the download of `Fetch` (section 9).

## 3. Partition tables: GptTable, SavedTable

### What the state stands for

| variable | code |
|---|---|
| `slots` | `$hd->{primary}{raw}`, by number; a free entry has size 0 (`raw.pm:211`). `use` folds `isMounted`, `real_mntpoint`, `isFormatted` and `notFormatted`: `blank` is not formatted, `fs` has a file system, `mounted` was mounted by DrakX, `magic` was mounted before it started |
| `queue` | `$hd->{will_tell_kernel}`; a resize is queued as a del and an add (`partition_table.pm:397`) |
| `isDirty`, `readonly`, `rebootNeeded` | the fields of `$hd` (`interactive.pm:142`) |
| `growing`, `oldsize` | `Resize`'s locals while it waits for a write (`interactive.pm:855-881`) |
| `label`, `disk` | the medium: which table it holds, and its entries |
| `kernel`, `busy` | the kernel's partitions, and the device numbers in use |
| `phase`, `ped`, `killed`, `pos` | `gpt::write`: where it is, the PedDisk, `$partitions_killed`, the entry replayed next |

### What the actions stand for

`Create`, `Delete`, `ClearAll`, `Type`, `ResizeBlank`, `ShrinkFs`, `GrowFs`,
`Mount`, `Unmount` and `Format` are the user's operations in
`diskdrake/interactive.pm` with everything they call in `partition_table.pm`; each
is one action, since nothing else runs meanwhile. A write is several: `StartWrite`
(`partition_table::write` and the start of `gpt::write`), `ReplayAdd`, `ReplayDel`
and `ReplayInit` for the entries, `ReplayFails` when one makes `gpt::write` die,
`CommitFails` and `Commit` (`disk_commit` levels 0 and 1 or 2), `TellKernel`
(`partition_table.pm:433`). A write asked for by a growing Resize goes on to
`FsResized` or `FsResizeFails`, or back to the user if it fails, with the size put
back (`SizeRestored`).

Outside the repository, and modelled from how it is used: libparted's numbering
(`Added`, with `IsLowestFree`), its room for a partition (`Fits`), and the kernel
(`KernelTold`, `KernelNotTold`, which may have told some of the partitions).
`disk_commit` returning 0 is taken to have left the medium as it was.

Abstracted: file system types that GPT stores alike are one `kind`; labels, uuids
and mount points are left out; a partition name is its number. `Resize`'s dialogue
is the set of sizes it accepts (`Resizable`, `SizeOfFs`).

`SavedTable` is the promise: the table in memory is edited freely, the medium
changes only by a save, which gives it what memory holds, and what is not dirty is
saved.

### Runs

| run | asks | result |
|---|---|---|
| `gpt_all` | every operation, a hole too small for a partition, blank and GPT media, read-only or not, every failure | `TypeOK`, `OnlyTinyHolesOverlap`, `WrittenIsApart`, `KernelKnowsDisk`, `MountedKept` hold |
| `gpt_orderly` | GPT and blank media, resizes, longer queues, used in order (`OrderlySpec`) | `CleanMeansWritten`, `QueueReplays`, `RightDevice`, `ImplementsSavedTable` hold |

The two separate what holds of every use from what holds only of the uses
the code gets right: `Orderly` names those, and section 12 has what goes wrong in the
others.

Partitions in memory may overlap: `Create` offers holes that are smaller than the
smallest partition and takes the smallest size there all the same (section 12).
`NoOverlap` therefore is no property of a run. `OnlyTinyHolesOverlap` says that this is
the one step that leads to it, and `WrittenIsApart` that the overlap never gets to the
medium: `partition_table::write` verifies the table before it writes, and the editor stays
dirty.

Bounds. Three entries: enough for two partitions and a free number below, between
or above them, the least in which numbering can go wrong. In `gpt_orderly` five
sectors with an alignment unit of two: holes before, between and after partitions, starts
that alignment moves, partitions of different sizes. The media at start are an
empty table, one whose numbers are not in the order of their sectors, and one whose
only partition does not have the lowest number. There `Cylinder` is `MinSize`, so every hole
that is offered has room for the smallest partition: a condition of `OrderlySpec`
(`NoTinyHole`). In `gpt_all` four sectors with `Cylinder` 1 and `MinSize` 2, as in the code
the smallest partition is larger than the smallest hole (`min_partition_size`,
`interactive.pm:1495`): the second medium (`MCTight`) has one free sector before its first
partition, and creations that overlap the partition behind happen. `MaxQueue` bounds the operations
pending at once (not the number of writes, or of operations overall): two for
everything, so that a resize's del and add fit, three in the orderly use, so that a
number is freed, taken again and freed, or resized while something else is pending.
The state spaces have 645 thousand and 480 thousand states. Deadlock is not
checked: the user may stop at any time.

No liveness is claimed of partition tables and no fairness assumed: nothing here happens unless the
user asks for it, and a write that began runs to its end in a bounded number of
steps by construction.

### What is proved

`GptTable_proofs` proves, for any number of entries, sectors,
kinds, media and any length of the queue:

| theorem | statement | argument |
|---|---|---|
| `TypeCorrect` | `Spec => []TypeOK` | inductive as it stands |
| `KernelFollows` | `Spec => []KernelKnowsDisk` | only `Commit` and `TellKernel` change either side |
| `OnlyTinyHolesOverlapHolds` | `Spec => OnlyTinyHolesOverlap` | as the next, step by step |
| `WrittenIsApartHolds` | `Spec => []WrittenIsApart` | `WrittenInv`: partitions overlap only while the user edits a dirty table; the write that would clear the mark verifies first |
| `PartsStayApart` | `Spec /\ []NoTinyHole => []NoOverlap` | `ApartInv`: besides, while a resize waits for its write (`GrowthPending`) the old size is smaller than the new one, so putting it back cannot overlap |
| `MountedStays` | `Spec => MountedKept` | `MountedInv`: a queue is empty when the table is clean (`CleanIsEmpty`), so a partition can only be mounted when the queue has nothing about it; nothing is mounted on a medium that has no GPT (`OnGpt`); no entry of a queue, and no number libparted could give, concerns a busy partition (`AllSafe`) |
| `CleanIsWritten`, `QueueIsReplayable`, `SavesTheTable` | as the run `gpt_orderly`, of `OrderlySpec` | `SaveInv`: the queue, replayed from the medium, gives the table in memory. `Course(v)` states it with the list `v` of the tables that the replay goes through, one per entry, instead of a recursive definition: each table follows from the one before by the entry, an add finds its number the lowest free one, and the last is memory. A resize adds two tables to the list, without the partition and with it under its old number, which is why that must be the lowest free one. A blank medium has no partitions (`BlankMedium`), and nothing is queued that a table made anew would skip (`Plain`) |
| `RightDeviceHolds` | `OrderlySpec => RightDevice` | a table that is clean is the medium's (`SaveInv`), and the kernel has the medium's when no reboot is needed (`KernelKnowsDisk`): so a device node is the partition of that number. While a table is dirty nothing it is used for begins |

Assumptions. `GptAssumption` and `LayoutsAssumption` in `GptTable` describe the
geometry and the tables a medium can hold; TLC evaluates them in every run.
`NoTinyHole` (every hole that is offered has room for `MinSize`) and `Orderly` are
the conditions under which the code is right, on steps and not on the constants:

* a partition is deleted only on a medium with a GPT;
* a resize is made only there, of a partition that has no free number below it
  (`InOrder`), and when blank only if it has room for the smallest size (`HasRoom`);
* the size of a partition whose growth waits for a write is not put back.

None can be left out: without the first, the second, `InOrder` or the third TLC finds
a table that is clean and not on the medium, without `HasRoom` a queue that cannot be
replayed. Section 12 has the lines behind each. `UnresizedIsOrderly` shows that every use
of GPT media without resizes meets the conditions.

## 4. The step engine: InstallSteps

### What the state and the actions stand for

| variable | code |
|---|---|
| `step` | `$o->{step}`; `"quit"` and `"finished"` when the installer has ended |
| `done`, `reachable` | the fields of each step (`steps_list.pm:11`); `done` also holds `""`, which `leavingStep` marks after an exit that was declined |
| `order` | `$o->{orderedSteps}`, which an upgrade rearranges (`install2.pm:185`) |
| `toBeDone` | the work in the steps' `{toBeDone}` lists (`any.pm:921`) |
| `auto` | the `{auto}` of `exitInstall`: with it `installStepsCall` takes the function of `install::steps` (`install2.pm:110`) |
| `settled`, `warned` | the work done on the root file system that exists, and the work that died there with a warning: both lost when `formatPartitions` formats it |

`StepEnds` is a turn of `real_main` (`install2.pm:793`): the body of the step,
`leavingStep` with reachability and the work put off, and the choice of the next step.
`DoWork` takes each piece of that work from the list and does it, or it dies and
`leavingStep` warns, drops it and goes on (`steps.pm:81`). `StepFails` is a body that
dies and the jump to its `onError`; `ErrorFails` an `errorInStep` that dies itself;
`ErrorExits` one that ends the installer. `Finish`, `QuitEarly` and `ExitDeclined` are
the three ways through `exitInstall`; it asks only if it is not automatic (`Asks`), and
is not any more once it failed with a message (`Shown`). A body may die before, between
or after the things it puts off, so a step that dies has put off any part of them. What
bodies do beyond that belongs to other components.

### Run and fairness

`steps` explores all states: the table is the real one and nothing is bounded.
`TypeOK`, `NeedsDone`, `WorkDoneOrTold`, `CompleteWhenDone`, `PackagesStay` and
`EndsUnlessFailing` hold in 240 thousand states. The last assumes weak fairness of `Next`, which says no
more than that a body comes to an end, one way or another: the loop is sequential
and has nothing else to run. Failures are not fair: an installation with infinitely
many of them may never end, and one with finitely many ends.

`PackagesStay` is less evident than it looks: `choosePackages` may undo
`installPackages`, and errors go back by up to two rows. It holds because
`choosePackages` only becomes undone by formatting, so it never runs after
`installPackages`, and no row from `setRootPassword_addUser` on goes back that far.

`WorkDoneOrTold` says of work that was put off what the code keeps: it is done, or its
failure was shown. That it is done cannot be said, since a piece that dies is not tried
again. `CompleteWhenDone` has two halves for the same reason: an automatic `exitInstall`
does not look whether all steps are done, and `configureServices`' error leads to it
(section 12). What can be said of it is that no other step is missing then.

Reachability is not recomputed, as the comment at `steps.pm:68` wants, but only
added to: after a partitioning that undoes `formatPartitions`, what needs it is still
reachable. `NeedsDone` holds all the same, since the order puts `formatPartitions`
first.

### What is proved

`InstallSteps_proofs`: `TypeCorrect`, `NeedsDoneHolds`, `CompleteWhenDoneHolds`,
`WorkDoneOrToldHolds` and `PackagesStayHolds`. There are no constants, so the run is already
exhaustive; the proof says why it comes out so. None of the properties is inductive: they
depend on what the reachability that nobody takes back can be. The invariant cuts
every run in two at `installPackages`:

* `BeforePackages`: until it is done only steps of the first ten rows run, each after
  what it needs, and it runs itself only when the nine others are done.
  `AfterPackages`: from then on only the rest run. Errors respect the cut
  (`ErrorLeads`, row by row), and so does the first ready step of either order
  (`NextIsFirst`).
* That the first ready step is on the right side needs bounds on reachability from
  both directions: `Closed`, all the table allows is reachable, and `Founded`, what
  is reachable beyond that. After `formatPartitions` was undone, what needs it stays
  reachable, but then it is reachable as well and comes first.
* `WaitsFor`: work that was put off waits for a step that is not done. `NotLost`:
  what waits for the packages is on the list until they are installed, and done on the
  root file system or warned about afterwards, which no later step formats.
* For the automatic exit: once the packages are installed, `exitInstall` runs only when
  all steps are done or as the row after `configureServices`, which comes last before it.

An upgrade's new order is written pointwise (`UpgradeOrder`): the two steps stand
together in both orders, so moving them up is a rotation. `Upgraded` and `OrdersAre` show
that there are two orders at most, `OrderTyped` that each has every step once.

`FewStepsWithoutErrors`: between two steps that fail, and after the last, there are at
most 28. `StepsLeft` counts them: the steps not done, those of the partitioning weighted
so that ending one outweighs the one it undoes, and more when the step that runs is done
already, as it may be after an error: the step after it never is (`NextIsNew`). It is
what makes `EndsUnlessFailing` true, whose conclusion still needs the fairness.

Left out: the `auto` of the other steps, which selects another body, and `entered`;
neither decides what runs next. And `langs` in `WorkDoneOrTold`: what `write_langs`
leaves in the root is lost when partitions are formatted again after an error of
`choosePackages`.

## 5. The web front-end: InteractiveHttp

### What the state and the actions stand for

A program and the CGI meet on two names in `/tmp`. `path` says what each stands for:
nothing, a FIFO, known by the request that made it, or a regular file, which is
what opening for writing makes when there is nothing (`content` is what is in it).
`cgi` holds each request and `prog` the program it spawned: where it is, the uid it
was sent or asks, and the FIFO it has or waits for. `seen` is what reached the
browser; a form can be sent from any of it.

`AskNew` and `SendForm` are the user. `ForceExit`, `NobodyToForce`, `SeesGone`,
`WaitsTooLong`, `MkFifo`, `Refuse`, `Spawn`, `Write` and `Read` are the functions of
`interactive_http.cgi`, cut at every open that may wait. `Refuse` is the error page for a
program that is not authorised. `Spawn` forks; the program then gets to `http->new`, is not
there or killed at once, or dies of itself after `http.pm` was loaded, whose `END` block runs;
the CGI learns of none of that. `OpenStdout`,
`StdoutOpened`, `Ask`, `NoMore`, `OpenForm`, `ReadForm`, `Exit` and `End` are those
of `http.pm`; `Exit` and `End` run the same `end()`, whose test and two `unlink`s are
separate steps. FIFOs are external and modelled as the system defines them: opening
waits for the other side, a FIFO outlives its name, reading ends when no writer is
left.

Abstracted: both ends of a FIFO are opened in one step once both wait; `mkfifo`'s
`unlink` and `mknod` are one; uids are all different (`new_uid` repeats one only
within the same second); the ten seconds of `force_exit_dead_prog` may end at any
time; several readers of one FIFO get parts of a page, or one of them all of it.

### Runs and fairness

* `http`: a patient user (`Patient`): one program, a new request only once the last
  is answered, and then a form from any page seen so far. `RequestAnswered` and
  `PageIsAsked` hold in 2.3 thousand states. `RequestAnswered` leaves out one request: the
  first, when its program dies before it opens its output. Then `read_` waits for a writer
  that never comes (section 12). The run has six requests and six questions: enough to go back
  several pages, more than once. Fairness is weak, of each process: the operating
  system runs them all, and none waits for anything but a FIFO. The user need not
  do anything.
* `http_any`: requests at any time, three of them, so up to three programs beside
  each other; with two questions asked in all. `TypeOK` and `AnswerUsedOnce` hold in
  5.1 million states. Liveness does not hold here: a form that is sent twice at once
  leaves a CGI waiting, and so does a new session started while the program is
  between two pages, when `force_exit_dead_prog` does not find it.
Deadlock is not checked: the user may stop at any time.

Proved in `InteractiveHttp_proofs`, for any number of requests and pages: `TypeCorrect`,
`AnswerUsedOnceHolds` and `PageIsAskedHolds`. The invariant has a part for each process: every question a
program has asked has a uid of its own, also among several programs (`ProgOK`, `OwnUid`);
a CGI that sends an answer, and a regular file left under the name of the FIFO, have the
uid of a page the browser has seen (`CgiOK`, `NamesOK`), so none a later question will get.
`PageIsAsked` needs the order of a patient user's turns besides: there is at most one program,
and the place of the last request decides what the program, the two names and the FIFOs
can be at that moment (`OneAtATime`: a new program starts, the answer is sent, the next page
is got, a page is shown, or it is over).

## 6. DHCP: Dhcp, LeaseTable

`perform_dhcp` runs on several machines of one network at once. `net` is every
message that was ever sent: a late one is received later, a lost one never, a
repeated one twice, and each machine sees the answers to all, as its packet socket
does. `pc`, `id`, `tries`, `asked`, `lease`, `port` and `attempts` are the locals of
`perform_dhcp` and `handle_transaction` per machine; `now` is `currticks()`, which
gives the ids.

`Discover` and `CannotBegin` are the beginning of `perform_dhcp`; `SendAgain`,
`GiveUp` and `BreaksOff` the ways on when no answer is taken; `GetsOffer` sends the
REQUEST, which is the second transaction; `GetsAck` and `AckWithoutLease` the two
ends after an ACK. `Accepts` is the comparison in `handle_transaction`. `Reboot`
switches a machine off between any two steps: what it forgets is everything but its
hardware address, what the servers and the network keep stays. `Offer`, `Grant` and
`Refuse` are the servers, external and modelled as DHCP is used here: a server gives
an address to one machine and remembers it.

One thing is not compared anywhere and must come out right all the same: the ACK is
taken for whichever REQUEST was sent last. It does because ids are ticks and an
attempt takes some.

* Run `dhcp`: two machines (one asks twice, one once), two servers with an address
  each, one of which sends no lease time; two tries per transaction; two
  ticks of the clock, so that ids of different machines coincide and those of two attempts may.
  `TypeOK`, `AckAnswersRequest`, `PortFree`, `ImplementsTable` and `AttemptEnds` hold in 334
  thousand states. More machines add no new pair of requests that can be confused; a
  third attempt of one machine relates to the second as that to the first.
* Fairness: `poll` returns when it times out and what follows is done. Nothing is
  assumed of the servers or the network, but that it gets quiet, in the property:
  while packets of any kind come faster than `poll` times out, the wait starts anew.
* Proved in `Dhcp_proofs`, for any machines, servers, pools and bounds: `TypeCorrect`,
  `AckAnswersRequestHolds`, `PortFreeHolds`, `NoSharedAddressHolds` (no two machines are
  bound to one address) and `ImplementsTableHolds`. The argument: ids in the network are
  never above the machine's own (`Current`), so an answer that is accepted was sent to
  its last transaction; every answer is to a request that is in the network
  (`Addressed`); and an ACK exists only for the machine that holds the address
  (`Granted`), which stays the holder. `AttemptIsBounded` counts what an attempt may
  still send, at most `2 * MaxTries` packets: whatever changes an attempt ends it or
  takes from that. `ImplementsTable` maps an attempt that starts to `Stop`, a `Grant` to
  `Give` and a `GetsAck` to `Use`.

Left out: options other than the ones compared, expiry of leases (the code never
renews one).

## 7. Disks and CDs: DiskMethods

`pc` is the question asked or the function that runs; `auto` is `IS_AUTOMATIC`. The rest
is what failed attempts leave: `media` and `loop` are what is mounted on the two mount
points, `image` the link, `env` the last `METHOD` and `ISOPATH` of `/tmp/env`, `node`
the devices that have their node, `tried` the drives `cdrom.cpp` remembers. Actions are
named for the functions: `TryPartition`, `UmountPartition`, `SelectDirectory`,
`LookInto` (one ISO file of `choose_iso_in_directory`), `Locate` (the rest of
`try_with_directory` with the unmounts of its failure), `TryDrive`, `AlreadyTried`,
`Disc`, `ChangeDisc`. A question may be answered in any way, or cancelled. What the
devices hold (`Exists`, `Trees`, `Bare`, `Unreadable`, `LateNodes`) are constants; the
discs in the drives change.

* Run `disk`: two disks with three partitions, two directories, four ISO files (good,
  unreadable, of something else), two drives with any discs, one of them listed for two
  buses, a partition and a drive whose node is late. `TypeOK`, `NothingLeftMounted`,
  `Stage2FindsMedium` and `AutomaticSettles` hold in 16.6 thousand states. The instance
  has one of each thing the code tells apart, and a second for whatever is tried after
  it.
* Fairness: the code goes on by itself; the user need not answer, except that in
  automatic mode the code answers for him.
* Proved in `DiskMethods_proofs`, for any devices and contents that satisfy
  `ContentsAssumption`: `TypeCorrect`, `NothingLeftMountedHolds` and
  `Stage2FindsMediumHolds`. The invariant `Mounts` says at each place of the code what
  may be mounted there: nothing at a question about devices, a partition at a question
  about what is in it, a loop device only while the image behind it is looked into.
  `AutomaticIsBounded`, for finitely many ISO files: each step that stays in automatic
  mode makes `AutoLeft` smaller, which has for every device that is left the longest
  turn a device can take; nothing puts the mode back, and all it asks is which ISO file
  to take (`AutoStays`). That is what `AutomaticSettles` rests on.

## 8. Bringing the network up: NetUp

Of an address or a name server the model keeps whether it is of the configuration that
is being made (`"this"`), of one before (`"old"`) or missing. `proto` and `addr` are
`boot_proto` and the kernel's address of every interface, which outlive an attempt;
`dns`, `dns2` and `named` are variables of the whole program; `resolv` and `saved` are
the files written: `saved` has the `boot_proto` in the ifcfg of each interface, of which
none is ever removed. `unsaved` is a `save_netinfo` that failed, which its caller does
not look at (`network.cpp:932`), and `again` is a history variable: the network was
brought up again after a save, because the method's server was cancelled. `Leave` is a
return to the method loop, which keeps the automatic mode or, after an error message
(`LeaveMsg`), leaves it.

`setup_network_interface` returns `RETURN_ERROR` when everything worked
(`network.cpp:494`; there is no path to `RETURN_OK`), while `bringup_networking` waits for
`RETURN_OK`. So, read strictly, nothing after it ever runs. The world the module runs
in says which of the two is returned, `added`: `"error"` is the code as it is,
`"ok"` what its caller is written for, and the only way to check the rest of
`bringup_networking` at all. What a run shows is said for each:

* Run `net`: a wired and a wireless interface with `"ok"`, a single one with no link, with
  both. `TypeOK`, `SavedIsUsed` and `CancelLeadsOut` hold in 1.2 million states.
  The first part of `SavedIsUsed`, that the interface which is configured is the selected one
  with the connection type asked for last, is about both results. The rest, about the files,
  is about `"ok"`, since with `"error"` nothing is saved: the file of that interface says what
  is up unless it could not be written, and there is no other interface's file unless the
  network was brought up again. In that case there may be one (section 12).
* Run `net_auto`: everything works, with `"error"`, as the code is. `AutomaticInstalls` is
  violated: the automatic mode goes from the method to a configured interface and back
  for ever.
* Fairness: the code goes on; a question is answered or cancelled; the method loop
  asks again.

* Proved in `NetUp_proofs`, for any interfaces and any worlds that satisfy
  `WorldsAssumption`: `TypeCorrect` and `SavedIsUsedHolds`. The invariant
  `SetUp` says for every function of the set-up what must be done already when it
  begins: an interface selected, its `boot_proto` recorded, its address and name
  servers those of this attempt; and that no file was written before the first time the
  network is up. The interface the code selects by itself is the first
  with a link; that a set of positions has a first (`FirstExists`) follows from the
  well-foundedness of finite subsets.
* `CancellingIsBounded`, for the same worlds: `StepsOut` numbers the questions and steps
  from 0 (the method) to 10 (DHCP), and once the user is fed up every step leads to a lower
  number, whatever fails. It needs that who is fed up is not in automatic mode, in a world
  where something does not work (`Asked`), as `FedUp` has it.

Left out: gateways and routes (`AddRoute` and `RouteFails` keep their result), the module
search for machines without an interface, what the ADSL account is.

## 9. Downloads: FtpClient, Fetch

`FtpClient` has both ends of one control connection: the client's `step` and `phase`
(`send`, `connect`, `wait`), the commands and replies under way (`out`, `in`), and a
server that opens a data port for each PASV, serves or refuses, and may close at any
time. A TCP stream keeps the order; how much of it one `read` returns does not
depend on replies, so `Understand(k)` takes any k of those that came: with the lines
after the first complete reply thrown away, as `ftp_check_response` does. `Timeout` is the
end of the 60 seconds while the reply is still to come. Which files exist, whether data connections
get through (`firewall`) and whether a server listens on after a refusal (`keepsPort`)
are chosen at the start.

* Run `ftp`: two replies may be late (`MaxLate`): one for each of the two places that are
  tried. `TypeOK`, `ImplementsFetch`, `InStep` and `AttemptEnds` hold in 65 thousand states.
  `InStep` has conditions, in the property: no reply late, no firewall, a server
  that listens on. Without any of them the code does lose its step (section 12), and
  `ImplementsFetch` is checked with that. `AttemptEnds` leaves out a server that closes the
  connection: the client then reads 0 bytes for ever.
* Fairness: weak, of the client and of the server: it answers or refuses what it is
  sent. A server that never answers is a `Timeout`.
* Proved in `FtpClient_proofs`, for any `MaxLate`: `TypeCorrect`, `InStepHolds`,
  `LoadedIsToldHolds` and `ImplementsFetchHolds`. The client asks for at most four ports,
  and the server opens no more: `Numbered` numbers each PASV by the place and purpose it
  is sent for. In calm conditions (`Calm`) `InTurn` says for each step and phase what is
  under way: one command, or its answer, or the transfer and the reply that ends it. While the
  directory is tried, no port is under way but the awaited one (`Quiet`). Once its file
  has been asked for, ports that come are answers to later commands (`Behind`), so when
  the client connects to a port of the subdirectory, the transfer from the directory is
  over (`Beyond`) and what it loads is of the place it tells.
* `ImplementsFetch`, checked and proved, contains `LoadedIsTold`: an attempt is the
  download of `Fetch` on a direct connection. `At` maps the steps to `Fetch`'s
  questions: any step before the image is asked for is `get` or `get arch`, by the path;
  a step that fails goes from the first to the second or ends the attempt as `GetFails`;
  the consent to RETR is `load`, which ends as `Load` or `LoadFails`. Consent does not
  mean that there is an image: a client that lost its step may take another reply for
  it. `Fetch` says so (`Consents`), and only `Load` requires the image.
* `AttemptIsBounded`: `LeftToDo` begins with 246 and gets smaller with every step, so an
  attempt is finite even if nothing is fair. It weighs what the client has yet to send
  above what the server makes of it, and that above what is under way. `AttemptGoesOn`:
  until the attempt is over or the server has closed, one of the two can act
  (`ClientCan`, `ServerCan`; TLC confirmed that these imply that an action is enabled,
  which cannot be proved here). Together they are `AttemptEnds` but for the fairness
  that makes whoever can act do so. The second needs that a transfer the client waits
  for is one the server began for the same path (`Transfers`, `FileLast`).

`Fetch` is the dialogue around it, `ftp_prepare` and `http_prepare`: proxy, medium, mirror,
server, two places, what stage2 is told. `got` is the place the image came from and
`told` the one put together for stage2 from the answers; places are records of
what can differ. The network comes up or not (`Up`); in automatic mode a network that
does not may leave the mode, after a message, or keep it, as `NetUp` and its run `net_auto`
have it. A download works or not
(`Get`, `GetArch`), any image may exist anywhere, and a direct FTP transfer may begin
without one (`Consents`).

* Run `fetch`: no constants; `TypeOK`, `ToldIsLoaded` and `LeadsOut` hold in 351 thousand
  states. `ToldIsLoaded` leaves out FTP through a proxy and a proxy without a port,
  where the code tells another place than it used (section 12). Of the automatic mode
  `LeadsOut` says that it gets the installer or asks the user once the network is up. Before,
  it may go from the method to `Up` and back for ever, which is what `net_auto` finds.
  `crashed` is the
  comparison of a null pointer after a cancelled proxy question.
* Proved in `FtpClient_proofs`, beside the refinement, of all behaviours of `Fetch`:
  `DialogueTells`, that is `TypeOK` and `ToldIsLoaded`. The invariant is what the
  answers of a round agree on: http is asked as the proxy was given, without an account
  (`HttpAsks`), and an image that is loaded is of one of the two places the answers lead
  to (`FromAnswers`).
* `DialogueIsBounded`, of the same: once the user cancels everything there are at most
  four steps to the choice of the method or the end (`StepsOut`). The automatic mode is at
  most seven steps from the end or a user who is asked (`AutoLeft`), and each step brings it
  nearer, but for the one from a network that did not come up to the method. It does
  not come back once it is left.
* Fairness: the code runs; a user who began to cancel goes on to. In automatic mode the
  code answers.

## 10. Switching off: Reboot

`unmount_filesystems` walks over `/proc/mounts`, unmounts what it can, and starts again
until a pass unmounts nothing. `on` and `file` are the arrangement: the file system a mount
point is in and the one that holds the file of a loop device. `held`, `far`, `misnamed`
and `system` are what keeps one from being unmounted: something in the kernel uses it,
its loop device has a number `del_loops` does not reach, the filter takes its device
for a ram disk, or it is one that is passed over. `Umount`, `UmountFails`, `NotListed`
and `EndOfPass` are the loop.

`OnlyStuckLeft` is the reference: when the passes are over, what is mounted supports
itself, and every set that supports itself is mounted. So exactly the largest such
set is left.

* Run `reboot`: four file systems in every arrangement; `MaxOdd` bounds how many special
  things there are at once to two. Two loop devices on each other and a held one
  at the end of a chain fit in that. `TypeOK` and `OnlyStuckLeft` hold.
* Proved in `Reboot_proofs`, for any number of file systems: `TypeCorrect`,
  `OnlyStuckLeftHolds`, `StuckStays`. `Tried` says that as long as nothing moved in this
  pass each line passed over has a reason to stay, so the last pass shows that what is
  left supports itself. `Stuck` says that whatever supports itself is still mounted.
  Both are about sets, so no induction over the arrangement is needed.
  `PassesAreBounded`: each step makes `LeftToDo` smaller, `N + 1` for every thing that
  can still move and the lines left of the pass, so that the loop cannot run for ever,
  with any number of lines.

Two file systems on one mount point are left out.

## 11. What is proved and what is only checked

Proved, for every value of the constants: the theorems of sections 3 to 10, in
`GptTable_proofs`, `InstallSteps_proofs`, `InteractiveHttp_proofs`, `Dhcp_proofs`,
`DiskMethods_proofs`, `NetUp_proofs`, `FtpClient_proofs` and `Reboot_proofs`. They state
every invariant, action property and refinement that a passing run checks; those of `Fetch` are
together in `DialogueTells`, about an instance of the module.

Of six liveness properties the part that is about steps is proved as well, that there are
only so many:

| property | theorem |
|---|---|
| `EndsUnlessFailing` | `InstallSteps_proofs!FewStepsWithoutErrors` |
| `AttemptEnds` of `Dhcp` | `Dhcp_proofs!AttemptIsBounded` |
| `AttemptEnds` of `FtpClient` | `FtpClient_proofs!AttemptIsBounded`, and `AttemptGoesOn`: it is not stuck before |
| `CancelLeadsOut` | `NetUp_proofs!CancellingIsBounded` |
| `LeadsOut` | `FtpClient_proofs!DialogueIsBounded` |
| `AutomaticSettles` | `DiskMethods_proofs!AutomaticIsBounded` |

Only model-checked:

* the liveness properties themselves, `RequestAnswered`, `EndsUnlessFailing`,
  `AttemptEnds` (twice), `CancelLeadsOut`, `AutomaticSettles` and
  `LeadsOut`: that a step that can be taken is taken follows from fairness and
  `ENABLED`, which are out of the prover's reach. For `RequestAnswered`
  no bound is proved either: the user's answers may lead round;
* that `net_auto` violates `AutomaticInstalls`.

## 12. Where the code and what is said of it part

One of them is a run (`net_auto`); the others were found with TLC while the modules were
written, and the modules keep what the code does. A property that holds names the
case it leaves out.

Partition tables:

* `gpt.pm:93`: the add of a resize carries the slot's number, which `gpt::write`
  drops. With partition 2 only, resizing it makes it partition 1 on the medium, 2 in
  memory, and the table is marked clean.
* `gpt.pm:108`: on a medium without a GPT every del is skipped, also for a
  partition the same queue added: create two, delete the first, write, and the medium
  has both.
* `fsedit.pm:620`: a changed type makes the table dirty but queues nothing; the write
  clears the flag and writes the old type.
* `diskdrake/interactive.pm:858`: the size is put back when the write for a growing
  partition fails or the file system does not grow, but the queue keeps the resize, or the
  medium has it already: the table is then clean with another size in memory.
* `diskdrake/interactive.pm:1383`: holes are offered from `cylinder_size` on,
  `min_partition_size` is larger, and `from_Mb` returns `min` without looking at
  `max`: the new partition overlaps the next one until the write refuses it
  (`OnlyTinyHolesOverlap` and `WrittenIsApart`).

Installer and web front-end:

* `install/steps.pm:77`: reachability is added to, not recomputed as line 68 says.
* `install/install2.pm:110`: an automatic `exitInstall` is the one of `install::steps`,
  which does not have `$alldone`. `configureServices` may die, its row leads to `exitInstall`,
  and the installation is complete without it and without a question.
* `install/steps.pm:82`: work that was put off and dies is dropped with a warning; nothing
  does it later.
* `standalone/interactive_http/interactive_http.cgi:76`: the `die` after `exec` is in the child,
  whose output is `/dev/null`. The CGI waits at the FIFO for ever, as it does for a program
  that ends before `http->new`.
* `interactive/http.pm:44`: `end()` "do not run this twice" looks at the name
  `$pipe_r`, which the CGI makes again as soon as it is gone; when it does so before the
  old program's `END` block, that removes the FIFOs of the new session.

Stage1:

* `disk.cpp:186`: in automatic mode the keywords `disk`, `partition` and `directory`
  of `doc/TECH-INFOS:21` are never read: the first partition with a tree at its top is
  taken, or the mode is left.
* `mount.cpp:48`: the test after `udevadm settle` is inverted, so a device whose
  node appears while it is waited for is not mounted.
* `network.cpp:494`: see section 8.
* `network.cpp:302`: an ifcfg is written for each interface and none removed. When the
  method's server is cancelled and another interface brought up, two are there;
  `install2.pm:498` takes the first that `/tmp/ifcfg-*` gives, possibly the old one. Stage1
  writes below `/etc/sysconfig/network-scripts`, stage2 reads in `/tmp`, and nothing in
  the repository carries the files over.
* `network.cpp:932`: that `save_netinfo` failed is not looked at.
* `network.cpp:644`: the loop asks whether `*interfaces`, always the first one, is
  wireless, so `wired` (`doc/TECH-INFOS:43`) may take a wireless interface.
* `network.cpp:223`: the gateway of a static attempt that failed is the default route of
  the DHCP or ADSL attempt after it.
* `url.cpp:341`: `ftp_get_filesize` closes the control connection when LIST fails, over
  which its caller is "trying to continue".
* `url.cpp:119`: two replies read at once count as one; the end of the listing is
  then waited for in vain.
* `url.cpp:303`: `connect` comes after RETR was sent; when it fails the reply stays
  unread and is taken for the next one's.
* `url.cpp:78`: a read of 0 bytes ends neither the wait nor the loop.
* `network.cpp:1091` and `1121`: through a proxy the subdirectory of an FTP
  directory is got by HTTP without the account, and stage2 is told of the FTP one.
* `network.cpp:1241`: after a cancelled proxy question a null name is compared.
* `network.cpp:1211`: without a proxy HTTP does not look into the subdirectory of
  the architecture, which `NEWS:223` says.
* `reboot.cpp:109`: any device with `ram` in its name is passed over, and the
  machine said to be safe.

## 13. Not modelled

`PROJECT.json` lists every component with its status. In short: tables other than GPT,
reloading and reading damaged tables, diskdrake's allocation, LVM, RAID and encryption
actions, the wizard, packages, bootloader, configuration, the toolkits, and of
stage1 its start, module loading, the screens, the RPC code of NFS and the HTTP
client's byte handling. Parts the plan leaves come first; the others are text
generation, toolkit bindings or single reads and writes of files, in which little can
go wrong over several steps.

Most of the C code in the tree is not DrakX's own: slang, newt, libkmod, libpci,
libsysfs and pcmcia are copies of libraries, and most of DrakX's own code is
Perl. The models are about the latter and the code in `mdk-stage1/*.cpp`, so they stand
for a small part of all the lines in C and for most of the control in stage1.
