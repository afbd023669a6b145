------------------------------ MODULE EarlyBoot ------------------------------
(***************************************************************************)
(* What `rugix-ctrl` does as the first process of a boot, up to the hand   *)
(* over to the system's init: it bootstraps the disk, wipes the data       *)
(* partition, mounts it and resets the state, each on request of a marker  *)
(* file that is removed once the work is done.  Power may fail at every    *)
(* step.  The markers for the first two are on the config partition, whose *)
(* write guards the running system uses.                                   *)
(***************************************************************************)
EXTENDS ConfigPartition, Repart

CONSTANTS
    Devices,  \* what a device may be delivered with
    Names,    \* names of backups
    NoFlag, Delete, \* contents of the reset marker: none, and an empty file
    MaxCuts   \* bound: power failures

\* ty, disk, parts: the table of the image and the disk it is written to; schema: what
\* is asked for; layout: the default schema, an explicit one, an explicit one that does
\* not format the data partition, or none; data: its number; driver: how it is formatted.
DeviceOK(d) ==
    /\ d.layout \in {"default", "explicit", "bare", "none"}
    /\ d.driver \in {"plain", "luks", "tpm"}
    /\ d.disk \in Nat /\ d.data \in Nat \ {0}
    /\ d.parts \in Seq(Partitions) /\ d.schema \in Seq(Entries)
    /\ Validate([ty |-> d.ty, disk |-> d.disk, parts |-> d.parts])

ASSUME DevicesAssumption == (\A d \in Devices : DeviceOK(d)) /\ MaxCuts \in Nat
\* What images come with, as far as repartitioning relies on it.
TableOf(d) == [ty |-> d.ty, disk |-> d.disk, parts |-> d.parts]
ASSUME ImagesAssumption == \A d \in Devices : ImageOK(TableOf(d), d.schema)
ASSUME FlagsAssumption == NoFlag # Delete /\ {NoFlag, Delete} \cap Names = {}

VARIABLES
    device,
    parts,    \* the partition table on the disk
    phase,    \* where the first process is
    job,      \* the marker it is working on
    markers,  \* marker files on the config partition
    durable,  \* those that a power failure leaves
    fs,       \* what is on the data partition
    data,     \* the files on it
    flag,     \* the reset marker that a power failure leaves
    mounted,  \* whether it is mounted
    cuts,
    doomed,   \* history: the data partition is as it was when a wipe was asked for
    asked,    \* history: the reset that was asked for
    spoiled   \* history: what power failures have interrupted

guardVars == <<writable, writer_count, mutex, pc, left, shared>>
bootVars == <<phase, job, markers, durable>>
dataVars == <<fs, data, flag>>
historyVars == <<cuts, doomed, asked, spoiled>>
allVars == <<guardVars, device, parts, bootVars, dataVars, mounted, historyVars>>

Markers == {"bootstrap", "wipe"}
Phases == {"off", "markers", "bootstrap", "wipe", "format", "make", "unmark", "remount",
           "mount", "reset", "delete", "up"}

\* The state profile: as a factory reset leaves it, with state in it, or with some of
\* that lost.
Profiles == {"fresh", "whole", "half"}
Flags == {NoFlag, Delete} \cup Names

\* "none": no partition; "blank": nothing on it; "keys": an encryption header, but no
\* filesystem; "sealed": only the key of the format opens it; "fs": it can be mounted.
Contents == {"none", "blank", "keys", "sealed", "fs"}

BootTypeOK ==
    /\ TypeOK
    /\ phase \in Phases /\ job \in Markers
    /\ markers \subseteq Markers /\ durable \subseteq Markers
    /\ fs \in Contents /\ mounted \in BOOLEAN
    /\ data.live \in Profiles /\ data.flag \in Flags
    /\ DOMAIN data.backups \subseteq Names /\ Range(data.backups) \subseteq Profiles
    /\ flag \in Flags /\ asked \in Flags
    /\ cuts \in 0 .. MaxCuts /\ doomed \in BOOLEAN
    /\ spoiled \subseteq {"bootstrap", "backup"}

Fresh == [live |-> "fresh", flag |-> NoFlag, backups |-> <<>>]

\* An image that has a data partition may come with state on it.
BootInit ==
    /\ Init
    /\ device \in Devices /\ parts = device.parts
    /\ phase = "off" /\ job = "bootstrap"
    /\ markers \in SUBSET {"bootstrap"} /\ durable = markers
    /\ fs = IF device.data \in DOMAIN parts THEN "fs" ELSE "none"
    /\ data \in {Fresh} \cup IF fs = "fs" THEN {[Fresh EXCEPT !.live = "whole"]} ELSE {}
    /\ flag = NoFlag /\ mounted = FALSE
    /\ cuts = 0 /\ doomed = FALSE /\ asked = NoFlag /\ spoiled = {}

Table == [ty |-> device.ty, disk |-> device.disk, parts |-> parts]
Step(from, to) == phase = from /\ phase' = to

-----------------------------------------------------------------------------
(* Markers on the config partition.  It is mounted read-only, and writable *)
(* while there is work to do.                                              *)

Boot ==
    /\ Step("off", "markers")
    /\ UNCHANGED <<guardVars, device, parts, job, markers, durable, dataVars, mounted, historyVars>>

ReadMarkers ==
    /\ phase = "markers"
    /\ phase' = IF "bootstrap" \in markers THEN "bootstrap"
                ELSE IF "wipe" \in markers THEN "wipe" ELSE "mount"
    /\ writable' = (markers # {}) /\ left' = writable'
    /\ UNCHANGED <<writer_count, mutex, pc, shared, device, parts, job, markers, durable,
                   dataVars, mounted, historyVars>>

MutUnmark ==
    /\ phase = "unmark"
    /\ markers' = markers \ {"bootstrap"}
    /\ phase' = "remount"
    /\ UNCHANGED <<guardVars, device, parts, job, durable, dataVars, mounted, historyVars>>
Unmark ==
    /\ phase = "unmark"
    /\ markers' = markers \ {job}
    /\ phase' = IF "wipe" \in markers' THEN "wipe" ELSE "remount"
    /\ UNCHANGED <<guardVars, device, parts, job, durable, dataVars, mounted, historyVars>>

RemountReadOnly ==
    /\ Step("remount", "mount")
    /\ writable' = FALSE /\ left' = FALSE
    /\ durable' = markers
    /\ UNCHANGED <<writer_count, mutex, pc, shared, device, parts, job, markers, dataVars, mounted,
                   historyVars>>

-----------------------------------------------------------------------------
(* bootstrap and run_deferred_data_wipe                                    *)

\* The default layout formats the data partition unless its number is smaller than the
\* number of partitions there were; an explicit one formats new partitions only.
MutFormats(old, new) == device.layout \in {"default", "explicit"}
MutFormatsDefault(old, new) == device.layout = "default" /\ device.data >= Len(old)
Formats(old, new) ==
    \/ device.layout = "default" /\ device.data >= Len(old)
    \/ device.layout = "explicit" /\ device.data \in DOMAIN new \ DOMAIN old

Bootstrap ==
    /\ phase = "bootstrap" /\ job' = "bootstrap"
    /\ IF device.layout = "none"
       THEN phase' = "unmark" /\ UNCHANGED <<parts, fs>>
       ELSE \E new \in Repartitioned(Table, device.schema) :
            /\ parts' = new
            /\ fs' = IF fs = "none" /\ device.data \in DOMAIN new THEN "blank" ELSE fs
            /\ phase' = IF new # parts /\ Formats(parts, new) THEN "format" ELSE "unmark"
    /\ UNCHANGED <<guardVars, device, markers, durable, data, flag, mounted, historyVars>>

\* What is on the data partition is gone.
Clear(content) ==
    /\ fs' = content /\ data' = Fresh /\ flag' = NoFlag
    /\ doomed' = FALSE /\ asked' = NoFlag

\* The plaintext driver may fail to discard the blocks; encrypting ones have to find
\* the header whose keys they erase.
MutWipe ==
    /\ Step("wipe", "unmark") /\ job' = "wipe"
    /\ fs # "none"
    /\ Clear("fs") \/ UNCHANGED <<dataVars, doomed, asked>>
    /\ UNCHANGED <<guardVars, device, parts, markers, durable, mounted, cuts, spoiled>>
Wipe ==
    /\ Step("wipe", "format") /\ job' = "wipe"
    /\ fs # "none"
    /\ IF device.driver = "plain"
       THEN Clear("blank") \/ UNCHANGED <<dataVars, doomed, asked>>
       ELSE fs # "blank" /\ Clear("keys")
    /\ UNCHANGED <<guardVars, device, parts, markers, durable, mounted, cuts, spoiled>>

\* Every driver overwrites the partition, then makes it ready step by step.
Overwrite ==
    /\ Step("format", "make")
    /\ fs # "none"
    /\ Clear("blank")
    /\ UNCHANGED <<guardVars, device, parts, job, markers, durable, mounted, cuts, spoiled>>

FormatSteps ==
    CASE device.driver = "plain" -> <<"blank", "fs">>
      [] device.driver = "luks" -> <<"blank", "keys", "fs">>
      [] device.driver = "tpm" -> <<"blank", "keys", "sealed", "fs">>

Make ==
    /\ phase = "make"
    /\ \E i \in 2 .. Len(FormatSteps) : fs = FormatSteps[i - 1] /\ fs' = FormatSteps[i]
    /\ phase' = IF fs' = "fs" THEN "unmark" ELSE "make"
    /\ UNCHANGED <<guardVars, device, parts, job, markers, durable, data, flag, mounted,
                   historyVars>>

-----------------------------------------------------------------------------
(* The data partition and the state on it.                                 *)

\* A partition that cannot be mounted is replaced by a directory in memory.
MountData ==
    /\ Step("mount", "reset")
    /\ fs # "none"
    /\ mounted' = (fs = "fs")
    /\ UNCHANGED <<guardVars, device, parts, job, markers, durable, dataVars, historyVars>>

NoReset ==
    /\ Step("reset", "up")
    /\ ~mounted \/ data.flag = NoFlag
    /\ UNCHANGED <<guardVars, device, parts, job, markers, durable, dataVars, mounted, historyVars>>

\* remove_dir_all deletes the files in any order, the marker among them.
ResetDelete ==
    /\ Step("reset", "delete")
    /\ mounted /\ data.flag = Delete
    /\ \E f \in {NoFlag, Delete} :
        /\ data' = [data EXCEPT !.live = IF @ = "fresh" THEN @ ELSE "half", !.flag = f]
        /\ flag' = f
    /\ UNCHANGED <<guardVars, device, parts, job, markers, durable, fs, mounted, historyVars>>

DeleteRest ==
    /\ Step("delete", "up")
    /\ data' = [data EXCEPT !.live = "fresh", !.flag = NoFlag] /\ flag' = NoFlag
    /\ asked' = NoFlag
    /\ UNCHANGED <<guardVars, device, parts, job, markers, durable, fs, mounted, cuts,
                   doomed, spoiled>>

BackedUp ==
    [live |-> "fresh", flag |-> NoFlag,
     backups |-> [n \in DOMAIN data.backups \cup {data.flag} |->
                    IF n = data.flag THEN data.live ELSE data.backups[n]]]

\* The profile is renamed.  If there is a backup of that name the rename fails, which
\* is ignored, and so is the marker, which stays.
MutResetBackup ==
    /\ Step("reset", "up")
    /\ mounted /\ data.flag \in Names
    /\ data' = BackedUp
    /\ flag' = data'.flag /\ asked' = data'.flag
    /\ UNCHANGED <<guardVars, device, parts, job, markers, durable, fs, mounted, cuts,
                   doomed, spoiled>>
ResetBackup ==
    /\ Step("reset", "up")
    /\ mounted /\ data.flag \in Names
    /\ data' = IF data.flag \in DOMAIN data.backups THEN data ELSE BackedUp
    /\ flag' = data'.flag /\ asked' = data'.flag
    /\ UNCHANGED <<guardVars, device, parts, job, markers, durable, fs, mounted, cuts,
                   doomed, spoiled>>

-----------------------------------------------------------------------------
(* The running system.                                                     *)

UseState ==
    /\ phase = "up" /\ mounted /\ data.live = "fresh"
    /\ data' = [data EXCEPT !.live = "whole"]
    /\ UNCHANGED <<guardVars, device, parts, bootVars, fs, flag, mounted, historyVars>>

\* `rugix-ctrl state reset`: the marker is not synced.  A request that replaces one
\* which has not been carried out is left out.
RequestReset ==
    /\ phase = "up" /\ mounted /\ data.flag = NoFlag
    /\ \E f \in Flags \ {NoFlag} : data' = [data EXCEPT !.flag = f] /\ asked' = f
    /\ UNCHANGED <<guardVars, device, parts, bootVars, fs, flag, mounted, cuts, doomed, spoiled>>

\* The kernel writes back.
Writeback ==
    /\ phase = "up" /\ flag' = data.flag /\ flag' # flag
    /\ UNCHANGED <<guardVars, device, parts, bootVars, fs, data, mounted, historyVars>>

\* `rugix-ctrl data wipe`, under a guard.
RequestWipe(g) ==
    /\ phase = "up" /\ pc[g] = "held" /\ writable
    /\ markers' = markers \cup {"wipe"}
    /\ doomed' = TRUE
    /\ UNCHANGED <<guardVars, device, parts, phase, job, durable, dataVars, mounted, cuts,
                   asked, spoiled>>

\* What the processes do with the guards; remounting read-only writes the markers out.
UseGuards ==
    /\ phase = "up"
    /\ Next
    /\ durable' = IF writable /\ ~writable' THEN markers ELSE durable
    /\ UNCHANGED <<device, parts, phase, job, markers, dataVars, mounted, historyVars>>

-----------------------------------------------------------------------------
(* The end of a boot.                                                      *)

Stop ==
    /\ phase' = "off" /\ mounted' = FALSE
    /\ writable' = FALSE /\ left' = FALSE /\ shared' = FALSE
    /\ writer_count' = [p \in Procs |-> 0]
    /\ mutex' = [p \in Procs |-> Nobody] /\ pc' = [g \in Guards |-> "none"]
    /\ UNCHANGED <<device, parts, job, fs>>

\* An orderly shutdown, which `reboot` asks for.
Reboot ==
    /\ phase = "up"
    /\ Stop
    /\ durable' = markers /\ flag' = data.flag
    /\ UNCHANGED <<markers, data, historyVars>>

\* What was written to a file last may be missing, or the file be empty.
LoseUnsynced ==
    /\ markers' \in {m \in SUBSET (markers \cup durable) : markers \cap durable \subseteq m}
    /\ durable' = markers'
    /\ flag' \in {data.flag, flag} \cup (IF data.flag # flag THEN {Delete} ELSE {})
    /\ data' = [data EXCEPT !.flag = flag']
    /\ doomed' = (doomed /\ "wipe" \in markers')
    /\ asked' = IF flag' = Delete THEN asked ELSE flag'

\* Power fails, or a hook, a script or a command fails and with it the first process.
PowerCut ==
    /\ phase # "off" /\ cuts < MaxCuts
    /\ cuts' = cuts + 1
    /\ Stop /\ LoseUnsynced
    /\ spoiled' = spoiled
        \cup (IF phase \in {"format", "make"} /\ job = "bootstrap" THEN {"bootstrap"} ELSE {})
        \cup (IF flag' = Delete /\ asked # Delete THEN {"backup"} ELSE {})

\* The first process cannot go on, and will not be able to on the next boot either.
CannotLayOut == device.layout # "none" /\ Repartitioned(Table, device.schema) = {}
CannotWipe == fs = "none" \/ (device.driver # "plain" /\ fs = "blank")

Halt ==
    /\ \/ phase = "bootstrap" /\ CannotLayOut
       \/ phase = "wipe" /\ CannotWipe
       \/ phase \in {"format", "mount"} /\ fs = "none"
    /\ Stop /\ LoseUnsynced
    /\ UNCHANGED <<cuts, spoiled>>

InitStep ==
    \/ Boot \/ ReadMarkers \/ Bootstrap \/ Wipe \/ Overwrite \/ Make \/ Unmark
    \/ RemountReadOnly \/ MountData \/ NoReset \/ ResetDelete \/ DeleteRest \/ ResetBackup
    \/ Halt

BootNext ==
    \/ InitStep
    \/ UseState \/ RequestReset \/ Writeback \/ UseGuards \/ Reboot \/ PowerCut
    \/ \E g \in Guards : RequestWipe(g)

BootSpec == BootInit /\ [][BootNext]_allVars /\ WF_allVars(InitStep)
-----------------------------------------------------------------------------

\* What was there when a wipe was asked for is gone before the marker is, and the
\* system never comes up with it ("The driver's `wipe` is responsible for leaving the
\* partition in a fresh, mountable state"; any error "leaves the `wipe-data` marker in
\* place"), wherever power fails.
WipeIsComplete == doomed => "wipe" \in markers /\ phase \notin {"mount", "reset", "delete"}

\* "the next boot retries until the wipe actually succeeds", unless a power failure has
\* destroyed the encryption header that has to be erased.
WipeFinishes ==
    phase = "off" /\ "wipe" \in markers ~>
        "wipe" \notin markers \/ CannotWipe \/ CannotLayOut

\* Bootstrapping formats a partition that the image already had.
Regrown == job = "bootstrap" /\ phase = "format" /\ device.data \in DOMAIN device.parts

\* State is lost only by the wipe or the reset that was asked for, and not before its
\* backup is made.  Not claimed when power fails before the marker is on the disk, and
\* for the partition that the default layout formats although it is not new.
StateLostOnlyIfAsked ==
    [][data.live = "whole" /\ data'.live # "whole" =>
        \/ doomed \/ asked = Delete
        \/ asked \in DOMAIN data'.backups /\ data'.backups[asked] = "whole"
        \/ "backup" \in spoiled \/ (Regrown /\ device.layout = "default")]_allVars

\* A backup stays as it is until the partition is wiped.
BackupsKept ==
    [][\A n \in DOMAIN data.backups :
        \/ n \in DOMAIN data'.backups /\ data'.backups[n] = data.backups[n]
        \/ doomed]_allVars

\* A bootstrapped system has its data partition, unless power failed between the new
\* table and the new filesystem: the table is not new on the next boot.
BootstrapPrepares ==
    phase = "up" /\ device.layout \in {"default", "explicit"} /\ "bootstrap" \notin spoiled
        => mounted

\* However often the disk is repartitioned, the table is sound and keeps what the image
\* had ("potential data loss").
TableSound ==
    phase = "markers" =>
        /\ RepartSound(Table, device.schema)
        /\ Keeps(device.parts, parts)
        /\ parts # device.parts => Repartitioned(Table, device.schema) = {parts}

\* "refuse to create filesystems on already existing partition": the default layout
\* is meant to format the data partition only if it is new.
ExistingPartitionsKept == ~Regrown
=============================================================================
