# Verification of Rugix Ctrl

TLA+ models, TLC model-checking runs and TLAPS proofs for Rugix (the source is the
repository beside this directory; paths below are relative to `src/crates`, and
`ctrl/` stands for `apps/rugix-ctrl/src/`). The subject is `rugix-ctrl`, the program
that runs on a device: it installs A/B updates, talks to the bootloader, boots the
system (`rugix init`), and manages application bundles. The bundler and the build
tooling are not modelled.

`PROJECT.json` is the index: components, runs, the mutant that shows each property
can fail, the source lines of every definition, findings, hazards and theorems.

## 1. Inventory

| Component | Source | State it keeps | Operations |
|---|---|---|---|
| System and update life cycle | `ctrl/cli.rs`, `ctrl/system/mod.rs`, `ctrl/system/boot_groups.rs` | slots of each boot group, payload database, overlay per group, marker of the deferred reboot, `/run/rugix/update-lock` | `update install`, `system commit`, `system reboot [--spare]`, `slots ...`, `boot mark-good/bad` |
| Early boot | `ctrl/init.rs` | on the config partition the markers of bootstrapping and of a data wipe; on the data partition those of a state reset and of the deferred reboot; the state profile, its backups, mounts, overlay | `rugix init`, `state reset`, `state wipe` |
| Repartitioning | `libs/rugix-common/src/disk/repart.rs`, `disk/mod.rs` | the partition table | `repart`, `validate` |
| Data partition drivers | `ctrl/system/data_partition.rs` | plain or encrypted volume, its header | format, mount, wipe |
| Boot flows | `ctrl/system/boot_flows/*.rs`, `ctrl/boot/*.rs`, `libs/rugix-common/src/boot/*.rs` | files on the config partition, bootloader environment, EFI variables | `set_try_next`, `get_default`, `commit`, `pre_install`, `post_install`, `mark_good`, `mark_bad` |
| Config partition guard | `ctrl/system/partitions.rs` | mount mode, writer count per process | `acquire_write_guard`, drop, `ensure_writable` |
| Payload database | `ctrl/payload_db.rs`, `libs/rugix-common/src/fsutils.rs` | hashes and block indices per slot | `erase`, `save_slot_state`, `add_index`, `query` |
| Bundle source | `libs/rugix-bundle/src/source.rs`, `ctrl/http_source.rs` | position, lazy skip, chunk and response, retries, statistics | `read`, `skip`, `hint_next_chunk` |
| Bundle reader | `libs/rugix-bundle/src/reader.rs`, `block_encoding/` | frame, block index, blocks written so far | `next_payload`, `decode_into`, `skip` |
| Bounded pipe | `libs/rugix-common/src/pipe.rs` | buffer, closed flags | `read`, `write`, `flush`, drop |
| Application manager | `ctrl/apps/` | per app: state file, generations, lock file | install, activate, deactivate, start, stop, rollback, recover, gc, remove |

How they interact. `update install` takes the update lock, asks the boot flow whether
a commit is needed, reads the bundle from a file or over HTTP, writes slots through
the bundle reader (which may take blocks from other slots if the payload database has
an index of them), records hashes in the payload database and finally asks the boot
flow to try the new group, reboots, or leaves a marker for early boot. `system
commit` and `system reboot` take no lock. The bootloader reads what the boot flow
wrote and chooses the group; `rugix init` of that group bootstraps the disk, wipes or
resets on request of markers, mounts the data partition and the overlay and hands
off. Bundles with application payloads go to the application manager instead, which
has a lock per application. All of this happens in separate processes that share
files and bootloader variables only; the one place with threads is the decoding of
delta payloads, where the bundle reader feeds a decoder through the pipe.

What is hard: power failures between any two writes, commands that race, state read
before a long operation and used after it, the one-shot nature of a trial boot,
repairs that write while others read, recovery that repeats what has just failed,
transfers that break in the middle of a skip or a chunk, markers that outlive or
precede the work they stand for, sizes and alignments on disks that barely fit.

What makes each part correct:
- life cycle: the group the bootloader falls back to is whole at every moment, nothing
  live is written, recorded hashes are true, an overlay that was removed does not
  outlive its image, trials see complete groups, the device comes up;
- early boot: a wipe marker goes only after everything is wiped, state is lost only
  when that was asked for, backups stay, no existing partition is formatted, a
  repartitioned table is sound and stable;
- boot flows: a commit changes the default in one step, an interrupted one leaves a
  device that boots, a group is tried as often as somebody asked for, `get_default`
  tells the truth;
- guard: writable while held, read-only otherwise;
- sources and reader: a read delivers the next bytes, every byte is counted once, a
  target gets no byte that is not its payload's, stale indices do no harm;
- pipe: in order, nothing lost, no lost wakeup, both ends finish, no false success;
- application manager: the state file names what runs, but for leftovers that are
  known, the active generation is what runs and is complete, an interrupted transition
  is settled after boot.

## 2. Modules

```
Update     <- RugixFlow, SystemdBootFlow     boot flow as operator constants
TrialBoot  <- RaucFlows, MenderUbootFlow     boot flow as operator constants
GrubFlows  <- GrubBootFlow  - implements ->  TryBoot
           <- MenderGrubFlow
ConfigPartition, Repart  <- EarlyBoot
HttpSource - implements ->  BundleSource
HttpSource <- Bundle
Pipe            AppManager
```

`A <- B` reads "B extends, or is an argument of, A".

**Update** — one device, several rugix-ctrl processes, the bootloader. `content[g][s]`
is the image in a slot (`Torn` when partly written, `Lost` when a power failure took
data that was not synced), `unsynced` the slots it may still take, `db` the payload
database, `overlay` with `removed` (overlays whose removal is not on the disk yet) and
the history `stale` (overlays whose removal failed, which `ctrl/cli.rs:202` ignores, or
was undone by a power failure), `deferred` (the marker), `lock` the update lock, `env`
the bootloader environment, `stage` where boot is. An action is the code between two
points at which another process or a power failure may intervene: lock, check
(`needs_commit`, target, reboot type), overlay removal and `pre_install`, erase of the
record, write, decode, save of the record, end of the payloads, and the reboot type.
`Bail` is every error return and every kill. The boot flow is a parameter, as the trait
`BootFlow` is in the code: a set of environments and one operator per method;
`BootFlowContract` and `AttemptsContract` say what Update needs of them, and every run
evaluates both on the flow it is given.

**RugixFlow** (native flows) and **SystemdBootFlow** — the trait methods as operators.

**GrubBootFlow** — the native Grub flow file operation by file operation (create,
write, digest, rename, for both copies of the default environment, and the spare
flag), with the boot script that picks the copy whose digest matches. Processes write
through open files: a rename takes the file of another process along, or leaves it
with a file that has no name any more. The digest is written and the file renamed
without a sync (`grub.rs:127,129`): `fileLeft`, `digestLeft` and `flagLeft` hold what a
power failure may leave of each file, which is anything since the last sync, file by
file, so renames and digests are lost or kept in any combination. A remount to
read-only at the drop of the guard syncs, if it succeeds; an orderly reboot does, and
the kernel may at any time. `lost` says which copies had unsynced writes when the power
failed. **TryBoot** is its abstract specification: a
default, a one-shot spare flag, and a commit that changes the default in one step.

**MenderGrubFlow** — the two copies of the Mender environment, each with its lock file
and the sum of that file by which the bootloader trusts it, the repair that every read
performs, `set_try_next`, `get_default` and `commit`, and the bootloader that repairs
and counts. Writing one copy takes five steps (lock, environment, unlock, and the sum,
which `fs::write` truncates and writes). Each may fail: failures to lock, to unlock and
to write the sum are ignored, those of the environment fail an update but not a repair
(`mender.rs:103-113`, `150-159`). What a power failure leaves is modelled as in
GrubBootFlow. **GrubFlows** is what the two Grub modules
share; **MCGrubFlows** puts both on one device of which one is configured.

**TrialBoot** — what any flow with attempt counters or flags should guarantee, over
operators for `set_try_next`, `get_default`, `commit`, `mark_good`, `mark_bad` and the
bootloader's attempts. `mark-good` names the active group, a trial included, or any
other (`ctrl/cli.rs:419-439`). `fallback` is the group that was last committed or marked
good while it ran; `armed` counts the attempts that a `set_try_next` (one) or the
`mark-good` of a group that was tried (three under RAUC) asked for. The model supposes
that a device marks its fallback good on every boot before it does anything else, which
is what the attempt counters are for; an early power failure comes before that.
**RaucFlows** (U-Boot and Grub) and **MenderUbootFlow** supply them. `Defaults` is a set
because one flow's answer depends on the order of a HashMap.

**ConfigPartition** — the guard's mutex, its count per process, and the mount of the
device, including remounts that fail and processes that die. The history `shared` says
that two processes have used the partition at the same time.

**Repart** — the repartitioning algorithm as operators: alignment, the space after
each partition, partitions that grow, new partitions, logical partitions in their
extended partition, and the validation of the result. A schema is folded partition by
partition, as the loop in the code is; arithmetic that leaves `u64` aborts, and is
`Refused`. `MaxBlock` is the `u32::MAX` that ends an MBR disk (`disk/mod.rs:130`).

**EarlyBoot** — one boot after another of one device. `phase` is where the first
process is, `job` the marker it works on (bootstrapping and wiping share the steps
that format a partition), `markers` and `durable` the markers now and those a power
failure leaves, `fs` what is on the data partition (nothing, a header, a header that
only the discarded key opens, a filesystem), `data` the files on it. The history
variables say what was asked for. It extends ConfigPartition, so that the running
system takes and drops guards between boots, and Repart, whose operators compute the
table of the first boot from each device's image and schema.

**BundleSource** — the promise of the trait: a read delivers at least one and at most
as many bytes as asked for, the next ones. **HttpSource** — range requests chunk by
chunk, lazy skips inside a chunk and beyond it, retries whose counter every accepted
request resets, servers without ranges, transfers that break, a file that is replaced.
**Bundle** — the reader on top of it: frames, payloads, block indices, blocks from the
bundle, from other slots or from what has been written, and the size index that must
stay in step with both.

**Pipe** — reader, writer, buffer and condition variable, with the decoder thread
(external, it may stop at any point) and the install that joins both. Spurious
wakeups are included.

**AppManager** — one application. `state` is state.json; `dirs`, `metas`, `complete`,
`activated` are what exists of each generation on disk, `whole` whether all its files
do, `cached` whether the kernel may still lose them; `running` is what the
orchestrator keeps running; the lock is an inode, because `remove_app` deletes the
lock file. Each command of `ctrl/cli.rs` is an action that begins a sequence of
steps (`do_switch`, `run_activate`, `run_start`, `remove_generation`, ...), one per
durable change or orchestrator call. The three orchestrators differ in what starting
and stopping does to the other generation: a compose project and a systemd unit
belong to the application, a generic script to its generation. `Kill` is a killed
process and also a file operation that returns an error, except for `mark_activated`
and the last `write_state` of an activation, whose errors lead to the cleanup
(`manager.rs:490-493`) and are failures of their own. A removal of the application may
have deleted whole generations when it is cut off, and a collection keeps as many as
its `--keep` says. A power failure loses any files of a generation that were written
since the boot. Three history variables say where the code gives up: `forgotten` (a
workload left over from a deactivation that failed, from an interrupted transition that
a new command replaced, or from a failed activation that a recovery tries again),
`spoiled` (a generation that lost files to a power failure or an unfinished removal)
and `overlap` (two lock holders after a removal).

The MC modules give constants their values; MCGrubFlows and MCTrialDefaults also put
two flows side by side, on a device that has one of them.

## 3. Runs

| Run | Question | Bounds |
|---|---|---|
| `update` | the promises of the life cycle on a native A/B device, and that it comes up | 2 groups, 2 slots, 2 processes, 2 installs, 1 power failure |
| `update_groups` | no live group is written and trials see complete groups, with three groups under systemd-boot, every reboot type and an overlay that is discarded | 3 groups, 2 slots, 2 processes, 2 installs, 1 power failure |
| `grub_flows` | a native commit is atomic and, interrupted once, leaves a device that boots; the bootloader trusts a copy of the Mender environment and a commit lasts | native: 2 processes (symmetric), 1 interruption; Mender: 1 process, 2 interruptions or failed writes |
| `rauc_uboot` | no attempt that nobody asked for, the default is the fallback when none is pending, the device comes up | 3 groups, 2 early power failures |
| `early_boot` | wipes are complete and end, state is lost only on request, backups stay, bootstrapping prepares the disk, tables are sound, guards hold | MBR and GPT images and all drivers, disks of 64 to 96 blocks with `Align` 4, `Ebr` 1, `GptBlocks` 2 and `MaxBlock` 90, 2 power failures, 2 guards of 1 process, 1 backup name |
| `bundle` | bytes in order and counted once, slots get their payloads, indices stay in step, the source keeps its promise, downloads end | `MinChunk` 3, `MaxRetries` 2, 4 faults, blocks of different length, buffer of 2 bytes; any use of a source of 5 bytes |
| `app_manager` | the record covers what runs but for the leftovers, an active compose app runs one generation, the current generation is whole, recovery settles | 2 generations, 1 user with 3 commands and failures in all (4 for a compose application) and the recovery service, 1 kill, 1 power failure, 1 failure of the orchestrator or a write, `--keep 0` and `1` |
| `pipe` | order, wakeups, completeness, termination | capacity 2, payload 5 |
| `mender_grub_race`, `trial_defaults`, `early_boot_regrow`, `app_manager_binary` | end in a counterexample, see Findings | |

Why these bounds are enough. Updates interact through one target group, one record per
slot and one lock: two processes give every race of two commands, and a second install
meets everything the first one left (a pending trial, a marker, a torn slot). One power
failure after a kill covers damage on top of damage, since a kill is free in Update. A
third group is what distinguishes "the spare" from "the target". For both Grub flows the
interesting states are which of two copies is bad. In the Mender flow a second
interruption shows a repair that is itself interrupted or fails; in the native one every
property about interruptions is claimed for one, so the run makes one, and the proofs
allow any number. The processes of the native flow are interchangeable. In early boot
one power failure interrupts a wipe and the second the repetition; the devices differ in
where the data partition is, whether it is new, grows or fits exactly, and in how it is
formatted; the scaled disks keep partitions from a fraction of an alignment unit to
several of them. A chunk of three bytes with bundles of up to a few chunks reaches every
relation of a skip to the end of a chunk, and four faults exceed the two retries even
after one of them was reset (`MaxFaults > MaxRetries + 1` is an assumption: with fewer
the bound would end every download by itself). A pipe of two bytes fills, drains and
wraps, with a payload of five. For applications commands and failures share a budget.
Three of them with one kill and one power failure reach an interrupted switch, a
collection, a reused number and a recovery; a compose application has one more, for the
longest chain among the hazards: a deactivation that is killed, a collection that keeps
nothing, a new install of the same number, a power failure and the recovery. The two
guards of `early_boot` belong to one process; three guards of two processes give a run
of over four minutes (with one power failure, no error), and the theorems about guards
are for any number of both. All bounds are guards (`MaxInstalls`, `MaxPowerCuts`,
`MaxInterruptions`, `MaxEarlyCuts`, `MaxCuts`, `MaxFaults`, `AnyLength`, `MaxCommands`
with its values `Budget`, `MaxKills`, `MaxFailures`).

What the properties leave out, because the code does:
- a removal of an overlay that fails or that a power failure undoes leaves the old
  overlay to be mounted over the new image (`stale` in `OverlayFresh`; nothing checks
  `remove_dir_all(..).ok()`, `ctrl/cli.rs:202`, or syncs it);
- data that a power failure takes after its hash was recorded stays recorded, and a
  trial of it may have been requested (`Lost` in `RecordTruthful` and
  `TrialsComplete`; no slot is synced before either). Slots that are half written when
  an install is killed or loses power (`Torn`) are covered by both;
- trials of partly written groups are excluded for the first update only
  (`TrialsComplete`: a second update may overwrite the group a pending trial will boot);
- a native Grub commit is atomic if it finds both copies intact, does not race and loses
  no write (`CommitIsAtomic`). `DeviceBoots` is claimed for one interruption and not if
  power fails while both copies have writes that are not synced (`lost`): nothing syncs
  the digest and the rename of the secondary before the primary is touched, so both may
  come back with a digest that does not match. With racing commits, or two
  interruptions, no copy may be left that verifies either. An interruption leaves the
  primary copy, which `get_default` reads, apart from the bootloader's choice
  (`DefaultAgrees`);
- the same goes for the two copies of the Mender environment (`OneCopyUnlocked`), and
  there is one case more: a kill between truncating and writing the sum of copy 2 leaves
  it unlocked with a bad sum, which no reader looks at and therefore none repairs; the
  next command locks copy 1 and for a moment the bootloader trusts neither.
  `OneCopyUnlocked` is claimed while nothing was interrupted, and when the device is
  down after one interruption or failed write; `UpdateIsAtomic` is claimed while nothing
  was interrupted; `CommitMakesDefault` is, however often, for commits whose writes have
  reached the disk;
- a `mark-good` of a group that was tried gives it three more attempts and puts it in
  front (`rauc.rs:141`): `AttemptsAllowed` counts them as asked for, and
  `DefaultIsFallback` speaks of the times when none is left;
- a guard that another process holds does not keep the partition writable
  (`shared` in `WritableWhileHeld`);
- a wipe that lost power after it destroyed an encryption header can not be repeated
  (`CannotWipe` in `WipeFinishes`); a disk that was repartitioned before a power
  failure is not formatted on the next boot (`BootstrapPrepares`); a reset marker
  that a power failure emptied deletes the state it should have backed up
  (`StateLostOnlyIfAsked`);
- torn index files fail an installation (`Survives`);
- a server that accepts every request and breaks every body keeps a download alive for
  ever, because accepted requests reset the counter (`ctrl/http_source.rs:212`), and so
  does one that goes silent, because `ureq::get` is given no timeout
  (`http_source.rs:208`): `Ends` has the premise that faults stop some time, and reads
  return;
- workloads that `forgotten` names may run beside the recorded one (`RecordNamesRunning`),
  and one transition is never settled (`NoManifest` in `Recovers`): a deactivation of
  generation 1 is killed, `apps gc --keep 0` removes 1, because an interrupted
  transition has no current generation, a new install creates directory 1 again, and
  power fails before its `app.toml` is there. Recovery then fails to load the manifest
  at every boot (`manager.rs:509`, `395`) and the state stays `Switching`;
- two commands that hold the lock of an application at once void its promises
  (`overlap`).

Deadlock is checked where the system has no end (Update, TrialBoot, EarlyBoot,
MenderGrubFlow with racing processes). GrubBootFlow may stop with no valid copy, the
pipe and a download end, and the application model ends when the bounds are used up.

Fairness. `FairSpec` of Update and TrialBoot assumes only that a device that is down
boots (`WF(EarlyBoot)`, `WF(Boot)`): users need not do anything. `BootSpec` lets the
first process of a boot go on (`WF(InitStep)`); power failures, requests and guards
are not fair. In Bundle the thread that installs goes on (`WF` of a step of the
reader or of its source, which is one thread) as long as it makes steps that are no
faults (`Progress`): a read returns data, the end or an error some time. Faults are not
fair, and `Ends` says what becomes of an installation once they stop. In the pipe the two
threads are scheduled (`WF(Reader)`, `WF(Writer)`), which says nothing of who wins the
mutex. In AppManager a device boots, systemd starts `rugix-apps-recover.service`
(`assets/`), and a command that has begun goes on; users start commands only if they
want to, and the service is not killed in the case the property speaks of.

### Findings

Four runs end in a counterexample on purpose, each against a sentence of the source:
- `mender_grub_race`: a command that only reads the Mender environment repairs a
  copy that a running commit has locked, and undoes the commit
  (`ctrl/system/boot_flows/mender.rs:149`).
- `trial_defaults`: with no trial pending `get_default` should be the committed group.
  `RaucGrub::get_default` does not compare names and may return any group
  (`rauc.rs:225`; `RaucUboot` does compare), and `MenderUboot::get_default` is
  inverted when no update is pending (`mender.rs:350`).
- `early_boot_regrow`: the number of the data partition counts from one and is
  compared with the number of old partitions, so a data partition that is the last of
  the image is formatted when the disk grows it (`ctrl/init.rs:397`).
- `app_manager_binary`: an install after a killed one deactivates nothing; the unit
  that still runs is left alone by `systemctl start`, and the state file says that
  the new generation is active (`ctrl/apps/manager.rs:346`).

More sequences were met and are listed as hazards: with three or more groups the
deferred reboot goes to the first group that is not the default, whichever was
updated (`ctrl/init.rs:737`); the guard count belongs to a process while the mount
belongs to the device, so one process remounts the partition under another
(`ctrl/system/partitions.rs:152`); and the cases listed above under what the properties
leave out.

## 4. Proofs

The theorems hold for every value of the constants that satisfies the named
assumptions: any number of groups, slots, processes, guards, interruptions, faults and
generations, any capacity, bundle, chunk size and disk. They state every invariant of
the passing runs and every property about steps. The invariants that they rest on were
checked by TLC on the runs before they were proved.

**Update_proofs.** `TypeCorrect`, `DefaultAlwaysWhole`, `LiveGroupsNeverWritten`,
`RecordsAlwaysTruthful`, `OverlayAlwaysFresh`, for two groups `DeferredOnTarget`, and
`FirstTrialComplete`. Assumptions: `ConstantsAssumption` and the contracts of a boot
flow, `BootFlowContract` and `AttemptsContract`, so they hold under every boot flow that
satisfies them. The inductive invariant is `TypeOK` with `SafetyInv`. The properties are
not inductive by themselves: an install checks `needs_commit` once and writes minutes
later, so the invariant must say that a process in the middle of an install holds the
lock, that its target is neither the running nor the default group, and that both stay
so whatever commits do (a commit makes the running group the default, which an install
has excluded); that a record is empty while its slot is being written; that no slot of a
live group is `unsynced`, or a power failure would take it; and that an overlay was made
over its group's image unless it is gone or `stale`. `FirstTrialComplete` adds that the
bootloader tries nothing but the default until an install has finished, and supposes
that updates write all slots and that `system reboot --spare` is not in use: without the
first an update is partly written on purpose, without the second a user may boot the
spare while it is being written. It is about the first update, and as the contract says
that `set_try_next` leaves the default alone, it says nothing of the RAUC and Mender
flows, which have models of their own.

**GrubBootFlow_proofs.** `AlwaysBoots`, `DefaultAlwaysAgrees` and `CommitsAreAtomic`,
the refinement of `TryBoot`, for any number of processes and interruptions. The
invariant says for each copy what its file, its digest and its new file may hold while a
commit is at each step, who may still write to it through an open file, and that the
copy a commit is not working on verifies, now and in whatever a power failure leaves of
it while only the other one has unsynced writes. `CommitsAreAtomic` shows that the
initial states map to initial states and that every step is a step of `TryBoot` or a
stutter: the rename of the copy the boot script prefers is where the default changes.

**MenderGrubFlow_proofs.** `OneCopyAlwaysUnlocked`, `CommitsLast` and
`UpdatesAreAtomic`, for one command at a time (`OneCommand`; with two the run
`mender_grub_race` violates `CommitMakesDefault`) and any number of interruptions,
failed writes and power failures, as far as the properties speak of them. The invariant
distinguishes the repair of a copy from the two halves of an update: in the first half
the second copy holds the old environment and is unlocked, in the second the first holds
the new one and is on its way to be trusted again. That a commit lasts needs both
copies, and all that a power failure may leave of them, to name the expected group, and
that a command that writes something else was asked to, or read its default when nothing
was expected. `DeviceKeepsACopy`, `DeviceCommitsLast` and `DeviceUpdatesAtomically` (in
GrubBootFlow_proofs) are the same for the device of the run `grub_flows`, which has one
of the two flows: every behaviour of `MCSpec` is one of the Mender flow whose processes
stand still on a device with the other.

**TrialBoot_proofs.** `RaucAttemptsAllowed` and `RaucDefaultIsFallback` for the U-Boot
flow of RAUC and any number of groups: a group that is booted and is not the fallback
has an attempt left that was asked for, and with none left `get_default` returns the
fallback. The invariant (`IInv`) says that `BOOT_ORDER` names every group once, that a
group in front of the fallback has been asked for and has as many attempts as `armed`
says, and how many of the fallback's attempts are left. That number is why the theorems
suppose `MaxEarlyCuts <= 2`: U-Boot gives a group three attempts, and a third power
failure before the system is up takes the last one of the fallback.

**EarlyBoot_proofs.** The guards of the config partition first: `CountNeverWraps` for
any number of processes, and so are `WritableForHolders` (unless two processes have used
the partition at the same time, `shared`) and `ReadOnlyInTheEnd`. The invariant ties the
mutex of each process to the one guard inside the code, the count to the number of
guards that have been counted, and the mount to that number. `GuardsOnDevice` carries
the two over to the composition with early boot.

Then the boot: `WipeAlwaysComplete`, `BackupsAlwaysKept` and `StateAlwaysAskedFor` for
all devices, drivers and any number of power failures: while a wipe is owed its marker
is durable and the boot has not come past the wipe; what a power failure leaves of the
data partition agrees with the phase it hit. `BootstrapAlwaysPrepares` needs that a
partition without a filesystem is one that a pending step or a pending wipe will
format; `BootTypes` are the types.

Then the partition table. `TableAlwaysKept` holds for every device whose image passes
the validation of the code. `TableAlwaysSound` is the property `TableSound` of the run,
for every image that satisfies `ImagesAssumption`. It rests on two theorems about the
algorithm alone, for all disks, tables and schemas that are `ImageOK`. `RepartIsSound`:
what the loop computes passes `check_new_table` ("the conditions checked here should
always be ensured by the repartitioning algorithm"), no block belongs to two
partitions, and all of them lie where the disk has room. `RepartIsStable`: a second
repartitioning computes the table that is there. Both unroll the loop (`Unrolled`):
what it knows before an entry can be read off the partitions it arrives at, so the
final table satisfies one condition per entry (`LaidOut`), from which the places follow
(`NewPlaced`). The second also needs that a partition another one follows was not given
all of the room (`NotAllRoom`), since the room it has the second time ends at the next
partition.

The assumption says of the image: its table is sound, its partitions are not empty and
numbered one after the other, and the extended partition, if there is one, is the
fourth, starts at a multiple of the alignment and has a logical partition behind it in
the schema. It is needed: `PartitionTable::validate` accepts tables that are not sound,
because it lets the last logical partition end one block past the extended one
(`libs/rugix-common/src/disk/mod.rs:187`) and never compares the extended partition
with the end of the disk. And with an extended partition that starts 63 blocks before a
multiple of 2048 the first logical partition would start where validation wants one
more block (`mod.rs:157`), so that the algorithm fails its own check and the disk is
refused. `sfdisk` makes no such table by itself.

**Bundle_proofs.** Of the source alone, for every use of it that the trait allows:
`SourceInvariant` (responses, chunks and positions fit together),
`BytesAlwaysAccounted`, and `SourceKeepsPromise`: HttpSource implements BundleSource.
The heart of the invariant is that the next byte of the response's body is the byte at
the current position minus what a lazy skip still owes.

Of the source under the reader: `InstallInvariant`, `ReaderAccountsBytes` and
`ReaderKeepsPromise`. They do not follow from the former, since the reader goes on to
use the source after some failures: a failed read of the frame that may start the next
payload is taken for the end of the bundle. It is harmless because the reader then
makes no further call that depends on the response, and that is what the invariant
has to say. Of the reader: `TargetAlwaysPrefix` (a target that takes blocks or decoded
data holds a prefix of its payload), `AlwaysInStep` (the source stands where the blocks
that are left begin) and `AlwaysSurvives` (an installation fails only for one of the
named reasons). What the encoding holds of the first blocks, `Sent`, and where that
ends, are recursive functions; their laws (`Sent` grows by at most one block, sums are
monotone, a block that was sent is found at its place) are proved by induction. For
`AlwaysSurvives` the invariant counts faults: the retries that are used up are at most
the faults that have happened.

**Pipe_proofs.** `BufferBounded`, `StreamInOrder`, `NoWakeupIsLost`,
`SuccessIsComplete`. The stream written is the stream read followed by the buffer;
whoever sleeps sleeps with its condition false; a finished writer has written all.

**AppManager_proofs.** `RecordAlwaysNames`, `DockerAlwaysActive` and
`CurrentAlwaysWhole`, for any number of users, generations, kills, power failures and
failing orchestrators. All three are claimed until `overlap`, and up to then at most
one command holds the lock; so the invariant can say, for each point of `do_switch`,
of an activation and of a recovery, what the state file names there, what may run
besides, and where a failure leads. An active generation was activated, an activated
one has its metadata, and metadata is written after all files, which is why a number
that is used again cannot make an unfinished generation the current one.

Each proof has one lemma per action or group of actions, a lemma for the initial
state, and a last step in temporal logic. `TypeCorrect`, `CountNeverWraps`,
`BufferBounded`, `BootTypes` and the type parts of the other invariants take the place
of type invariants in the runs.

*Induction.* The library states induction for an operator, which the provers cannot
instantiate. Where a recursive function has to be reasoned about, `SetInduction` is
used instead: a set that holds 0 and with n also n + 1 holds every natural number. It
follows from the least element of its complement (`WFMin` with
`NatLessThanWellFounded`). RECURSIVE operators stay out of reach.

Only model-checked: all liveness (`ComesUp`, `WipeFinishes`, `Ends`, `BothEnd`,
`Recovers`; the prover does not handle fairness), and TrialBoot under the other two
flows, RAUC on Grub and Mender on U-Boot, which the run `trial_defaults` shows to
violate `DefaultIsFallback`.

## 5. Assumptions

- The payload database, markers that are synced and the variables of U-Boot and
  systemd-boot reach the disk in the order in which they are written. Slot data, removed
  overlays and the files of the two Grub flows do only when they are synced: by a call,
  a remount to read-only, an orderly reboot, or the kernel.
- A file of the Grub flows is on the disk as it was at some time since the last sync,
  whatever the others are; journals of a file system that order more than that only
  remove behaviours.
- A group with a torn slot never comes up; a committed group does.
- Replacing a file by rename is atomic, and the new file has been synced; two writers
  that share a `.tmp` file of the Mender environment are not modelled.
- Boot scripts of Grub, U-Boot and systemd-boot are external: they are modelled from
  what the flows write for them. So are xdelta, systemd, Docker, cryptsetup, mkfs and
  app scripts.
- After a power failure Docker may restart containers of a project, and a script may
  have registered its workload; units are restored by `restore_units` before any
  command runs.
- The clock may be wrong: `apps activate` without a number takes any generation that
  was activated before.
- `flock` waiters of different inodes do not see each other; those of one inode do.
- A server that answers a range request says in `Content-Range` how long the file is.
- A block is identified with its hash.
- Images come with tables as `ImagesAssumption` says (section 4); the tool that builds
  them is not in the repository.
- New partitions start at a multiple of an alignment that exceeds the space kept for an
  extended boot record (2048 and 63 blocks in the code).

## 6. Not modelled, and why

- Update: `--keep-overlay` and the unstable command that sets the marker; bundles
  that write slots outside their target group; `create-index`, which runs without
  the lock; `post_install` patching a boot slot after its hash was recorded.
- Boot flows: `pre_install` and `post_install` unpacking, failed `fw_setenv` calls, the
  file-level tryboot and U-Boot flows, the custom flow (a program of the integrator).
  In TrialBoot, marking the fallback bad during a trial, and a power failure after
  `set_try_next` was called for the fallback itself, leave nothing to boot from by
  the code's own logic and are excluded by guards, and so is a fallback that is used
  without having been marked good.
- ConfigPartition: `protected = false`, where nothing is remounted.
- EarlyBoot: hooks (they appear as failures), bind mounts of persistent state, the
  custom driver and the mount script (programs of the integrator), and a reset that
  is requested while another is pending. Repart: the input and output of `sfdisk`,
  names and identifiers of partitions.
- Bundles: the threads that encode blocks
  (`libs/rugix-bundle/src/block_encoding/mod.rs:36`, used by the bundler), signatures,
  compression, unknown atoms; hints of the next chunk reach HttpSource only when it is
  used directly, because the implementations of the trait for `&mut S` and `Box<S>` do
  not forward them (`source.rs:55`), so an installation never gives one. Two more edges
  of the source stop a download without damage: a read at the end of a bundle fails
  instead of returning 0 without ranges, and a skip past the end of a file that is too
  short ends in an assertion.
- AppManager: several applications in one bundle (two installs may wait for each
  other's locks), block indices and delta sources of old generations.
- Signatures, chunking, compression, the bundle format, hooks, configuration lookup
  and the command line: algorithms or presentation without interacting state. Of the
  implementation's lines almost half are generated configuration and manifest types
  (`ctrl/config/generated`, `libs/rugix-bundle/src/manifest/generated`).

## 7. What a further step would add

In the order of what it would tell:
1. `AppLocks`: several applications in one bundle and the order in which their locks
   are taken. It is a small model of its own; AppManager would only grow by it.
2. `PayloadDb`: block indices of several algorithms next to `erase` and `create-index`
   without the lock, composed with Update.
3. The native tryboot and U-Boot flows at the level of their files, and `pre_install`
   and `post_install`, in the style of GrubBootFlow.
4. The contract of a boot flow for TrialBoot, as Update has it, so that the theorems
   about attempts hold for the U-Boot flow of Mender, too, where they are true of it.
5. A proof of the liveness properties by hand-written ranking, should the prover come
   to handle fairness.
