------------------------------- MODULE Bundle --------------------------------
(***************************************************************************)
(* The reader of bundles on top of the HTTP source: frames and payloads,   *)
(* blocks that are taken from other slots, from what has been written      *)
(* already, or from the bundle.  A bundle is a sequence of payloads        *)
(* [blocks, encoding, target].  The encoding "raw" has no block index,     *)
(* "blocks" and "dedup" have one, and "dedup" carries every block once.    *)
(* The target is a "slot", a "pipe" to the decoder of a patch for a slot,  *)
(* a handler to "execute", or "none" if the device has no such slot.  That *)
(* a block has the right hash is that it has the right bytes.              *)
(***************************************************************************)
EXTENDS HttpSource, SequencesExt

CONSTANTS
    Bundles,     \* bundles that the device may be given
    Systems,     \* slots that it may have: sequences of [index, data]
    Truncations, \* bytes that may be missing at the end of the file on the server
    Size,        \* Size[b]: length of block b
    BufferSize,  \* of the buffer of a raw payload
    AnyLength    \* bound: of a bundle that is read by somebody else

Payloads ==
    [encoding : {"raw", "blocks", "dedup"}, target : {"slot", "pipe", "execute", "none"},
     blocks : Seq(DOMAIN Size)]

ASSUME BundlesAssumption ==
    Bundles \subseteq Seq(Payloads) /\ \A b \in DOMAIN Size : Size[b] \in Nat \ {0}
ASSUME BoundsAssumption ==
    BufferSize \in Nat \ {0} /\ AnyLength \in Nat /\ Truncations \subseteq Nat

VARIABLES
    bundle, slots,
    use_indices, \* not insecure_allow_missing_block_index
    content,     \* the bytes on the server
    stage, payload, block,
    next_size_idx, remaining_data, target_blocks,
    want,        \* bytes that a read_exact still waits for
    buffer,      \* what it has read
    target       \* what has been written for the payload

reader == <<bundle, slots, use_indices, content, stage, payload, block, next_size_idx,
            remaining_data, target_blocks, want, buffer, target>>
allVars == <<source, reader>>

-----------------------------------------------------------------------------
(* The encoding, as the builder writes it.                                 *)

Bytes(b) == [i \in 1 .. Size[b] |-> <<b, i>>]
Flatten(blocks) == FlattenSeq([i \in DOMAIN blocks |-> Bytes(blocks[i])])

IsFresh(p, i) == \A j \in 1 .. (i - 1) : p.blocks[j] # p.blocks[i]
Sent(p) ==
    IF p.encoding # "dedup" THEN p.blocks
    ELSE LET sent[i \in 0 .. Len(p.blocks)] ==
                IF i = 0 THEN <<>>
                ELSE IF IsFresh(p, i) THEN Append(sent[i - 1], p.blocks[i]) ELSE sent[i - 1]
         IN  sent[Len(p.blocks)]

Frame(kind, i) == <<kind, i>>
Layout(ps) ==
    <<Frame("header", 0)>> \o
    FlattenSeq([i \in DOMAIN ps |->
        <<Frame("start", i), Frame("header", i)>> \o Flatten(Sent(ps[i])) \o <<Frame("end", i)>>])

\* What a read has delivered.
Delivered ==
    [i \in 1 .. result.n |->
        IF of = "bundle" THEN content[result.from + i] ELSE <<"other", i>>]

-----------------------------------------------------------------------------
(* The block provider: the first stored index of every slot is used, and   *)
(* the first slot whose index lists a block.  An index is the sequence of  *)
(* the blocks that the slot had when it was indexed, Missing or Torn.      *)

Missing == <<"none">>
Torn == <<"torn">>
ASSUME SystemsAssumption ==
    Systems \subseteq Seq([index : Seq(DOMAIN Size) \cup {Missing, Torn},
                          data : Seq(STRING \X Nat)])

ProviderFails == \E s \in DOMAIN slots : slots[s].index = Torn

Lists(s, b) == slots[s].index \notin {Missing, Torn} /\ Contains(slots[s].index, b)
Query(b) == SelectInSeq([s \in DOMAIN slots |-> s], LAMBDA s : Lists(s, b))

\* Where the slot should have it: Bytes before it, its bytes there now.
StoredAt(b) ==
    LET index == slots[Query(b)].index
        at == SelectInSeq(index, LAMBDA c : c = b)
    IN  Len(Flatten(SubSeq(index, 1, at - 1)))
Readable(b) == StoredAt(b) + Size[b] <= Len(slots[Query(b)].data)
Stored(b) == SubSeq(slots[Query(b)].data, StoredAt(b) + 1, StoredAt(b) + Size[b])

-----------------------------------------------------------------------------

Idle == slice = 0
Running == stage \notin {"any", "done", "failed"}
Payload == bundle[payload]
UsesProvider == use_indices /\ Payload.target \in {"slot", "pipe"}

InitReader ==
    /\ bundle \in Bundles /\ slots \in Systems /\ use_indices \in BOOLEAN
    /\ \E t \in Truncations :
        content = LET all == Layout(bundle) IN SubSeq(all, 1, Len(all) - t)
    /\ SourceInit(Len(content))
    /\ use_range_queries => \E s \in DOMAIN slots : slots[s].index # Missing
    /\ stage = "header" /\ want = 1

\* The source without the reader.
InitAny ==
    /\ bundle = <<>> /\ slots = <<>> /\ use_indices = FALSE /\ content = <<>>
    /\ SourceInit(AnyLength)
    /\ stage = "any" /\ want = 0

Init ==
    /\ InitReader \/ InitAny
    /\ payload = 0 /\ block = 1 /\ next_size_idx = 1 /\ remaining_data = 0
    /\ target_blocks = <<>> /\ buffer = <<>> /\ target = <<>>

Stage(s) == stage' = s
Await(n) == want' = n /\ buffer' = <<>>
StayInSource == UNCHANGED source
Consume ==
    /\ result' = Trait!NoResult /\ of' = "none"
    /\ UNCHANGED <<network, use_range_queries, content_length, chunk, place, stats,
                   consecutive_retries, slice>>
SameBundle == UNCHANGED <<bundle, slots, use_indices, content>>
SameTarget == UNCHANGED <<target_blocks, target>>
SamePlace == UNCHANGED <<payload, block, next_size_idx, remaining_data>>

Fail == Stage("failed") /\ Await(0) /\ SamePlace /\ SameTarget /\ SameBundle

-----------------------------------------------------------------------------
(* read_exact                                                              *)

Exact ==
    /\ Running /\ Idle /\ want > 0 /\ result.kind = "none"
    /\ ReadCall(want)
    /\ UNCHANGED reader

TakeData ==
    /\ Running /\ Idle /\ want > 0 /\ result.kind = "data"
    /\ want' = want - result.n /\ buffer' = buffer \o Delivered
    /\ Consume
    /\ UNCHANGED stage /\ SamePlace /\ SameTarget /\ SameBundle

TakeFailure ==
    /\ Running /\ Idle /\ result.kind \in {"end", "failed"}
    /\ stage # "start"
    /\ StayInSource /\ Fail

\* The result of expect_start is not looked at.
PayloadStart ==
    /\ stage = "start" /\ Idle
    /\ want = 0 \/ result.kind \in {"end", "failed"}
    /\ Stage("header") /\ Await(1)
    /\ Consume
    /\ SamePlace /\ SameTarget /\ SameBundle

-----------------------------------------------------------------------------
(* Frames                                                                  *)

Ready(s) == stage = s /\ Idle /\ want = 0 /\ result.kind = "none"

\* next_payload
NextPayload ==
    /\ payload' = payload + 1
    /\ IF payload < Len(bundle) THEN Stage("start") /\ Await(1)
       ELSE Stage("done") /\ Await(0)

BadFrame ==
    /\ \/ Ready("header") /\ buffer # <<Frame("header", payload)>>
       \/ Ready("end") /\ buffer # <<Frame("end", payload)>>
    /\ StayInSource /\ Fail

StartBundle ==
    /\ Ready("header") /\ payload = 0 /\ buffer = <<Frame("header", 0)>>
    /\ NextPayload
    /\ StayInSource
    /\ UNCHANGED <<block, next_size_idx, remaining_data>> /\ SameTarget /\ SameBundle

\* "no slot found" and the like: the payload is skipped.
SkipPayload ==
    /\ Ready("header") /\ payload > 0 /\ buffer = <<Frame("header", payload)>>
    /\ Payload.target = "none"
    /\ SkipCall(Len(Flatten(Sent(Payload))))
    /\ Stage("end") /\ Await(1)
    /\ SamePlace /\ SameTarget /\ SameBundle

StartPayload ==
    /\ Ready("header") /\ payload > 0 /\ buffer = <<Frame("header", payload)>>
    /\ Payload.target # "none"
    /\ StayInSource
    /\ IF UsesProvider /\ (Payload.encoding = "raw" \/ ProviderFails)
       THEN Fail
       ELSE /\ Stage(IF Payload.encoding = "raw" THEN "raw" ELSE "block") /\ Await(0)
            /\ block' = 1 /\ next_size_idx' = 1
            /\ remaining_data' = Len(Flatten(Sent(Payload)))
            /\ target_blocks' = <<>> /\ target' = <<>>
            /\ payload' = payload /\ SameBundle

EndPayload ==
    /\ Ready("end") /\ buffer = <<Frame("end", payload)>>
    /\ NextPayload
    /\ StayInSource
    /\ UNCHANGED <<block, next_size_idx, remaining_data>> /\ SameTarget /\ SameBundle

-----------------------------------------------------------------------------
(* decode_into                                                             *)

Hash == Payload.blocks[block]
MoreBlocks == Ready("block") /\ block <= Len(Payload.blocks)
FromSource == Payload.encoding = "blocks" \/ IsFresh(Payload, block)

\* The size of the block in the encoding.
BlockSize ==
    LET n == Size[Sent(Payload)[next_size_idx]]
    IN  IF n < remaining_data THEN n ELSE remaining_data

Put(bytes) ==
    /\ target' = target \o bytes
    /\ target_blocks' = Append(target_blocks, [offset |-> Len(target), size |-> Len(bytes)])
    /\ block' = block + 1

Local == MoreBlocks /\ FromSource /\ UsesProvider /\ Query(Hash) > 0

\* A block that a slot still has; the source skips it.
MutUseStoredSize ==
    /\ Local /\ Readable(Hash) /\ Stored(Hash) = Bytes(Hash)
    /\ SkipCall(BlockSize)
    /\ remaining_data' = remaining_data - BlockSize
    /\ next_size_idx' = next_size_idx
    /\ Put(Bytes(Hash))
    /\ Stage("block") /\ Await(0)
    /\ payload' = payload /\ SameBundle
UseStored ==
    /\ Local /\ Readable(Hash) /\ Stored(Hash) = Bytes(Hash)
    /\ SkipCall(BlockSize)
    /\ remaining_data' = remaining_data - BlockSize
    /\ next_size_idx' = next_size_idx + 1
    /\ Put(Bytes(Hash))
    /\ Stage("block") /\ Await(0)
    /\ payload' = payload /\ SameBundle

\* "unable to read block": only a wrong hash falls back to the bundle.
StoredUnreadable == Local /\ ~Readable(Hash) /\ StayInSource /\ Fail

Download ==
    /\ MoreBlocks /\ FromSource
    /\ Local => Readable(Hash) /\ Stored(Hash) # Bytes(Hash)
    /\ Stage("data") /\ Await(BlockSize)
    /\ next_size_idx' = next_size_idx + 1
    /\ StayInSource
    /\ UNCHANGED <<payload, block, remaining_data>> /\ SameTarget /\ SameBundle

MutDownloaded ==
    /\ Ready("data")
    /\ StayInSource
    /\ remaining_data' = remaining_data - Len(buffer)
    /\ Put(buffer)
    /\ Stage("block") /\ Await(0)
    /\ UNCHANGED <<payload, next_size_idx>> /\ SameBundle
Downloaded ==
    /\ Ready("data")
    /\ StayInSource
    /\ IF buffer # Bytes(Hash) THEN Fail
       ELSE /\ remaining_data' = remaining_data - Len(buffer)
            /\ Put(buffer)
            /\ Stage("block") /\ Await(0)
            /\ UNCHANGED <<payload, next_size_idx>> /\ SameBundle

\* A block that has been written before is read back from the target; handlers and
\* patches cannot be read.
Again ==
    /\ MoreBlocks /\ ~FromSource
    /\ StayInSource
    /\ LET first == target_blocks[SelectInSeq(Payload.blocks, LAMBDA b : b = Hash)]
           bytes == SubSeq(target, first.offset + 1, first.offset + first.size)
       IN  IF Payload.target # "slot" \/ bytes # Bytes(Hash) THEN Fail
           ELSE /\ Put(bytes)
                /\ Stage("block") /\ Await(0)
                /\ UNCHANGED <<payload, next_size_idx, remaining_data>> /\ SameBundle

\* A raw payload is written as it comes.
ReadRaw ==
    /\ Ready("raw") /\ remaining_data > 0
    /\ ReadCall(Least(BufferSize, remaining_data))
    /\ UNCHANGED reader

WriteRaw ==
    /\ stage = "raw" /\ Idle /\ result.kind = "data"
    /\ target' = target \o Delivered
    /\ remaining_data' = remaining_data - result.n
    /\ Consume
    /\ UNCHANGED <<stage, want, buffer, payload, block, next_size_idx, target_blocks>>
    /\ SameBundle

\* The payload's hash decides.
Decoded ==
    /\ \/ Ready("block") /\ block > Len(Payload.blocks)
       \/ Ready("raw") /\ remaining_data = 0
    /\ StayInSource
    /\ IF target # Flatten(Payload.blocks) THEN Fail
       ELSE Stage("end") /\ Await(1) /\ SamePlace /\ SameTarget /\ SameBundle

-----------------------------------------------------------------------------

ReaderStep ==
    \/ Exact \/ TakeData \/ TakeFailure \/ PayloadStart
    \/ BadFrame \/ StartBundle \/ SkipPayload \/ StartPayload \/ EndPayload
    \/ UseStored \/ StoredUnreadable \/ Download \/ Downloaded \/ Again
    \/ ReadRaw \/ WriteRaw \/ Decoded

\* Beside the reader, any other use of the source; never far past the end.
Anybody ==
    /\ stage = "any"
    /\ \E n \in 1 .. BufferSize :
        current_position + current_skipped + n <= content_length + 1 /\ AnyCall(n)
    /\ UNCHANGED reader

InSource == SourceStep /\ UNCHANGED reader

Next == ReaderStep \/ InSource \/ Anybody \/ (Replace /\ UNCHANGED reader)

Spec == Init /\ [][Next]_allVars
\* The program takes its steps; none of them is bound to be a fault.
Progress == (ReaderStep \/ InSource) /\ faults' = faults
FairSpec == Spec /\ WF_allVars(Progress)

-----------------------------------------------------------------------------

\* A target, which may be a handler or the decoder of a patch, is never given a byte
\* that is not the payload's, whatever the slots of the device really hold, whatever
\* the server sends and wherever transfers break ("invalid block hash").  A raw payload
\* is only known to be right at its end.
TargetIsPrefix ==
    stage \in {"block", "data"} => IsPrefix(target, Flatten(Payload.blocks))

\* Skipped, stored, repeated and downloaded blocks never put the reader and the source
\* out of step: the source stands where the rest of the payload is left to read.
InStep ==
    /\ stage \in {"block", "data", "raw", "end"} /\ Idle /\ result.kind = "none"
    => LET before == Len(Layout(SubSeq(bundle, 1, payload)))
           rest == IF stage = "end" THEN want ELSE remaining_data - Len(buffer) + 1
       IN  current_position + current_skipped = before - rest

\* What an installation is refused for, before or during the payload.
Unsuited(p) ==
    \/ p.target \in {"pipe", "execute"} /\ p.encoding = "dedup"
    \/ use_indices /\ p.target \in {"slot", "pipe"} /\ p.encoding = "raw"
ShortSlot(s) == s.index # Missing /\ Len(Flatten(s.index)) > Len(s.data)

\* An index that does not tell the truth any more, or a transfer that breaks as often
\* as may be retried, fails no installation ("reading from source instead").
Survives ==
    stage = "failed" =>
        \/ faults > (IF use_range_queries THEN MaxRetries ELSE 0) \/ refused
        \/ served # "bundle" \/ Len(content) < Len(Layout(bundle))
        \/ \E i \in DOMAIN bundle : Unsuited(bundle[i])
        \/ use_indices /\ (ProviderFails \/ \E s \in DOMAIN slots : ShortSlot(slots[s]))

\* An installation comes to an end unless faults go on for ever: every request that is
\* accepted sets the retries back to zero, whatever becomes of its body.  Provided that
\* every request and every read returns; no timeout sees to that.
Ends == (<>[][faults' = faults]_faults) => (Running ~> ~Running)
=============================================================================
