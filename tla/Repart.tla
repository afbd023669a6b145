------------------------------- MODULE Repart --------------------------------
(***************************************************************************)
(* Repartitioning of a disk: the partition table that the bootstrapping of *)
(* a device computes from the table of the image and a schema.  Arithmetic *)
(* that leaves the range of u64 aborts the program, which is "Refused".    *)
(***************************************************************************)
EXTENDS Integers, Sequences, SequencesExt

CONSTANTS
    Align,     \* new partitions start at a multiple of it
    Ebr,       \* blocks kept free before a logical partition
    GptBlocks, \* size of a GUID partition table
    MaxBlock   \* the last block that a partition table of 32 bits can name

ASSUME RepartAssumption ==
    /\ Align \in Nat /\ Ebr \in Nat /\ GptBlocks \in Nat /\ MaxBlock \in Nat
    /\ 0 < Ebr /\ Ebr < Align

\* A table is [ty, disk, parts]; a schema has an entry for each partition, where the
\* size AllSpace asks for what is left.
Partitions == [number : Nat, start : Nat, size : Nat, ty : STRING]
Entries == [size : Nat, ty : STRING]
AllSpace == 0

CeilAlign(n) == ((n + Align - 1) \div Align) * Align
FloorAlign(n) == (n \div Align) * Align
Least(a, b) == IF a < b THEN a ELSE b
Greatest(a, b) == IF a > b THEN a ELSE b

FirstUsable == GptBlocks + 1
LastUsable(t) == IF t.ty = "mbr" THEN Least(t.disk - 1, MaxBlock) ELSE t.disk - GptBlocks - 1
EndOf(p) == p.start + p.size

-----------------------------------------------------------------------------
(* PartitionTable::validate                                                *)

IsExtended(p) == p.ty = "extended"
IsLogical(t, i) == \E j \in 1 .. (i - 1) : IsExtended(t.parts[j])

\* The first block that is free after partition i, for i = 0 the first of the disk.
FreeAfter(t, i) ==
    IF i = 0 THEN FirstUsable
    ELSE IF IsExtended(t.parts[i]) THEN t.parts[i].start + Ebr ELSE EndOf(t.parts[i])

NumberAfter(t, i) ==
    IF i = 0 THEN 1 ELSE IF IsExtended(t.parts[i]) THEN 5 ELSE t.parts[i].number + 1

\* Where the partitions have to end: with the extended one, if there is one.
LastBlock(t) ==
    LET i == SelectLastInSeq(t.parts, IsExtended)
    IN  IF i = 0 THEN LastUsable(t) ELSE EndOf(t.parts[i])

Validate(t) ==
    /\ \A i \in DOMAIN t.parts :
        LET p == t.parts[i]
        IN  /\ IF IsLogical(t, i)
               THEN p.start >= FreeAfter(t, i - 1) + 1 /\ p.number = NumberAfter(t, i - 1)
               ELSE p.start >= FreeAfter(t, i - 1) /\ p.number >= NumberAfter(t, i - 1)
            /\ IsExtended(p) => p.number <= 4
    /\ FreeAfter(t, Len(t.parts)) - 1 <= LastBlock(t)

Keeps(old, new) ==
    /\ DOMAIN old \subseteq DOMAIN new
    /\ \A i \in DOMAIN old :
        new[i].ty = old[i].ty /\ new[i].start = old[i].start /\ new[i].size >= old[i].size

\* check_new_table
CheckNewTable(old, parts) == Validate([old EXCEPT !.parts = parts]) /\ Keeps(old.parts, parts)

-----------------------------------------------------------------------------
(* repart: partition i of the schema is partition i of the table.          *)

\* Arithmetic that leaves the range of u64 aborts the program, which is one more way of
\* refusing the disk.
MutAvailable(old, a, i, start, ty) == a.last - start + 1
Available(old, a, i, start, ty) ==
    IF ty # "extended" /\ i < Len(old.parts)
    THEN LET gap == old.parts[i + 1].start - start
         IN  IF a.extended THEN FloorAlign(gap - Ebr) ELSE gap
    ELSE a.last - start + 1

Start(old, a, i) ==
    IF i <= Len(old.parts) THEN old.parts[i].start
    ELSE CeilAlign(IF a.extended THEN a.next + Ebr ELSE a.next)

Fits(old, schema, a, i) ==
    LET ty == schema[i].ty
        start == Start(old, a, i)
    IN  /\ i <= Len(old.parts) => old.parts[i].ty = ty
        /\ ty # "extended" /\ i >= Len(old.parts) => start < a.last
        /\ Available(old, a, i, start, ty) >= 0

RepartStep(old, schema, a, i) ==
    LET ty == schema[i].ty
        start == Start(old, a, i)
        available == Available(old, a, i, start, ty)
        want == IF schema[i].size = AllSpace THEN available ELSE Least(schema[i].size, available)
        size == IF i <= Len(old.parts) THEN Greatest(want, old.parts[i].size) ELSE want
    IN  [extended |-> a.extended \/ ty = "extended",
         last |-> IF ty = "extended" THEN start + size - 1 ELSE a.last,
         next |-> IF ty = "extended" THEN start ELSE start + size,
         parts |-> IF i <= Len(old.parts) THEN [a.parts EXCEPT ![i].size = size]
                   ELSE Append(a.parts, [number |-> i, start |-> start, size |-> size, ty |-> ty])]

\* The partitions the algorithm arrives at before they are checked, if it does.
Computed(old, schema) ==
    LET first == [extended |-> FALSE, last |-> LastUsable(old), next |-> CeilAlign(FirstUsable),
                  parts |-> old.parts]
        Reached[i \in 0 .. Len(schema)] ==
            IF i = 0 THEN {first}
            ELSE {RepartStep(old, schema, a, i) :
                    a \in {b \in Reached[i - 1] : Fits(old, schema, b, i)}}
    IN  {a.parts : a \in Reached[Len(schema)]}

\* The new partitions; none if the disk is refused.
Repartitioned(old, schema) ==
    {new \in Computed(old, schema) : new # old.parts => CheckNewTable(old, new)}

-----------------------------------------------------------------------------

Blocks(p) == p.start .. (EndOf(p) - 1)
\* What a partition table means on the disk, by the blocks each partition owns:
\* a logical partition lies in the extended one, nothing else overlaps, and all of
\* it lies between the tables that the disk keeps for itself.
DiskIsSound(t) ==
    /\ \A i \in DOMAIN t.parts :
        Blocks(t.parts[i]) \subseteq FirstUsable .. LastUsable(t)
    /\ \A i, j \in DOMAIN t.parts : i < j =>
        IF IsExtended(t.parts[i])
        THEN Blocks(t.parts[j]) \subseteq Blocks(t.parts[i])
        ELSE Blocks(t.parts[i]) \cap Blocks(t.parts[j]) = {}

\* A sound table gets a sound one, and "the conditions checked here should always be
\* ensured by the repartitioning algorithm".
RepartSound(old, schema) ==
    /\ DiskIsSound(old)
    /\ \A new \in Computed(old, schema) :
        CheckNewTable(old, new) /\ DiskIsSound([old EXCEPT !.parts = new])

\* What the disk and the schema of a device are: a sound table, its partitions numbered
\* one after the other, and the extended one, if there is one, the fourth, where the
\* alignment puts it, with a logical one behind it.
Typed(t, schema) ==
    t.parts \in Seq(Partitions) /\ t.disk \in Nat /\ schema \in Seq(Entries)
SchemaOK(schema) ==
    \A i \in 1 .. Len(schema) : schema[i].ty = "extended" => i = 4 /\ Len(schema) > 4
ImageOK(t, schema) ==
    /\ Typed(t, schema) /\ SchemaOK(schema)
    /\ Validate(t) /\ DiskIsSound(t)
    /\ \A i \in 1 .. Len(t.parts) :
        /\ t.parts[i].number = i /\ t.parts[i].size > 0
        /\ IsExtended(t.parts[i]) => i = 4 /\ CeilAlign(t.parts[i].start) = t.parts[i].start
=============================================================================
