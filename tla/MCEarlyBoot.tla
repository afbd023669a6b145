----------------------------- MODULE MCEarlyBoot -----------------------------
(* Devices that come with the images a build makes of the two default      *)
(* schemas, on disks of different sizes.                                   *)
EXTENDS EarlyBoot

CONSTANTS g1, g2, p1, b1
OneOwner == [g \in {g1, g2} |-> p1]

Entry(size, ty) == [size |-> size, ty |-> ty]

\* generic_mbr_partition_schema and generic_efi_partition_schema, scaled.
MbrSchema ==
    <<Entry(8, "fat"), Entry(4, "fat"), Entry(4, "fat"), Entry(AllSpace, "extended"),
      Entry(8, "linux"), Entry(8, "linux"), Entry(AllSpace, "linux")>>
EfiSchema ==
    <<Entry(8, "fat"), Entry(8, "linux"), Entry(8, "linux"),
      Entry(8, "linux"), Entry(8, "linux"), Entry(AllSpace, "linux")>>
Schema(ty) == IF ty = "mbr" THEN MbrSchema ELSE EfiSchema

\* The first n partitions of a disk of 64 blocks; the image is built with partitions
\* that are smaller by short, and its last one, if that is longer, ends early by short.
Image(ty, n, short) ==
    LET schema == [i \in DOMAIN Schema(ty) |->
            IF Schema(ty)[i].size = AllSpace THEN Schema(ty)[i]
            ELSE [Schema(ty)[i] EXCEPT !.size = @ - short]]
        all == CHOOSE p \in Repartitioned([ty |-> ty, disk |-> 64, parts |-> <<>>], schema) : TRUE
    IN  [i \in 1 .. n |-> IF i = n THEN [all[i] EXCEPT !.size = Greatest(@ - short, 1)] ELSE all[i]]

Device(ty, n, short, disk, layout, driver) ==
    [ty |-> ty, disk |-> disk, parts |-> Image(ty, n, short), schema |-> Schema(ty),
     layout |-> layout, data |-> Len(Schema(ty)), driver |-> driver]

MCDevices ==
    {Device("mbr", 5, 1, 96, "default", "plain"), Device("mbr", 7, 0, 96, "default", "plain"),
     Device("gpt", 4, 0, 96, "explicit", "luks"), Device("gpt", 6, 1, 96, "explicit", "tpm")}
    \* These do not come up: there is no such data partition.
    \cup {[Device(ty, n, short, disk, "bare", "plain") EXCEPT !.data = 9] :
            ty \in {"mbr", "gpt"}, n \in 3 .. 6, short \in 0 .. 3, disk \in 64 .. 72}
    \cup {[Device("gpt", 4, 0, 96, layout, "plain") EXCEPT !.data = 9] :
            layout \in {"default", "explicit", "none"}}
=============================================================================
