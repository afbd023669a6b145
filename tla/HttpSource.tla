----------------------------- MODULE HttpSource ------------------------------
(***************************************************************************)
(* The bundle source that streams over HTTP.  With range requests it       *)
(* fetches the bundle chunk by chunk, jumps over what is to be skipped and *)
(* reconnects when a transfer breaks; without, it reads a single response. *)
(* The network may break any transfer and the file on the server may be    *)
(* replaced while it is downloaded.  Positions count bytes.                *)
(***************************************************************************)
EXTENDS Integers

CONSTANTS
    MinChunk,    \* MIN_CHUNK_SIZE
    MaxRetries,  \* max_retries
    MaxFaults    \* bound: up to which faults are counted

ASSUME HttpAssumption ==
    /\ MinChunk \in Nat \ {0} /\ MaxRetries \in Nat
    /\ MaxFaults \in Nat /\ MaxFaults > MaxRetries + 1

VARIABLES
    served,     \* what the server has: "bundle", or what replaced it, "same" or
                \* "other" in its length
    faults,     \* transfers and requests that broke; after MaxFaults every other one counts
                \* back to MaxFaults - 1, so that they may go on for ever
    refused,    \* history: the server refused a request for good
    use_range_queries, content_length,
    response,   \* [at, end, of]: the next byte of its body, where that ends, whose it is
    current_end, next_chunk_end, current_position, current_skipped,
    bytes_read, bytes_skipped, consecutive_retries,
    slice,      \* length of the slice of the read in progress, 0 if there is none
    result,     \* of the read before
    of          \* whose bytes it delivered

network == <<served, faults, refused>>
chunk == <<response, current_end, next_chunk_end>>
place == <<current_position, current_skipped>>
stats == <<bytes_read, bytes_skipped>>
source == <<network, use_range_queries, content_length, chunk, place, stats,
            consecutive_retries, slice, result, of>>

NoResponse == [at |-> 0, end |-> 0, of |-> "none"]
NoEnd == -1
Versions == {"bundle", "same", "other"}

Trait == INSTANCE BundleSource WITH
    length <- content_length, position <- current_position + current_skipped

HttpTypeOK ==
    /\ served \in Versions /\ faults \in 0 .. MaxFaults /\ refused \in BOOLEAN
    /\ use_range_queries \in BOOLEAN /\ content_length \in Nat
    /\ response \in [at : Nat, end : Nat, of : Versions \cup {"none"}]
    /\ current_end \in Nat \cup {NoEnd} /\ next_chunk_end \in Nat
    /\ current_position \in Nat /\ current_skipped \in Nat
    /\ bytes_read \in Nat /\ bytes_skipped \in Nat
    /\ consecutive_retries \in 0 .. MaxRetries
    /\ slice \in Nat
    /\ result \in [kind : {"none", "data", "end", "failed"}, from : Nat, n : Nat]
    /\ of \in Versions \cup {"none"}

\* new: a first request asks whether the server knows ranges.
SourceInit(length) ==
    /\ served = "bundle" /\ faults = 0 /\ refused = FALSE
    /\ content_length = length
    /\ use_range_queries \in BOOLEAN
    /\ current_end = IF ~use_range_queries THEN NoEnd
                     ELSE IF MinChunk < length THEN MinChunk ELSE length
    /\ response = [at |-> 0, of |-> "bundle",
                   end |-> IF use_range_queries THEN current_end ELSE length]
    /\ next_chunk_end = 0
    /\ current_position = 0 /\ current_skipped = 0
    /\ bytes_read = 0 /\ bytes_skipped = 0 /\ consecutive_retries = 0
    /\ slice = 0 /\ result = Trait!NoResult /\ of = "none"

-----------------------------------------------------------------------------
(* The calls of the trait.  A read ends with Return.                       *)

ReadCall(n) ==
    /\ slice = 0 /\ n > 0
    /\ slice' = n /\ result' = Trait!NoResult /\ of' = "none"
    /\ UNCHANGED <<network, use_range_queries, content_length, chunk, place, stats,
                   consecutive_retries>>

SkipCall(n) ==
    /\ slice = 0
    /\ current_skipped' = current_skipped + n
    /\ UNCHANGED <<network, use_range_queries, content_length, chunk, current_position,
                   stats, consecutive_retries, slice, result, of>>

Hint(n) ==
    /\ slice = 0 /\ n > 0
    /\ next_chunk_end' = current_position + n
    /\ UNCHANGED <<network, use_range_queries, content_length, response, current_end,
                   place, stats, consecutive_retries, slice, result, of>>

Return(r, version) == slice' = 0 /\ result' = r /\ of' = version
KeepReading == UNCHANGED <<slice, result, of>>

CountFault == faults' = IF faults < MaxFaults THEN faults + 1 ELSE MaxFaults - 1
Fault == CountFault /\ UNCHANGED <<served, refused>>
MayReconnect == use_range_queries /\ consecutive_retries < MaxRetries

-----------------------------------------------------------------------------
(* What was skipped is accounted for by the read that follows.             *)

Skipping == slice > 0 /\ current_skipped > 0
MutSkipped == current_position' = current_position /\ current_skipped' = 0
Skipped == current_position' = current_position + current_skipped /\ current_skipped' = 0

ChunkExceeded ==
    current_end # NoEnd /\ current_position + current_skipped >= current_end

\* Behind the chunk: the response is dropped, what was left of it counts as read.
SkipAhead ==
    /\ Skipping /\ ChunkExceeded
    /\ Skipped
    /\ response' = NoResponse
    /\ bytes_read' = bytes_read + (current_end - current_position)
    /\ bytes_skipped' =
          bytes_skipped + (current_position + current_skipped - current_end)
    /\ KeepReading
    /\ UNCHANGED <<network, use_range_queries, content_length, current_end, next_chunk_end,
                   consecutive_retries>>

\* Within the chunk: by reading.
SkipThrough ==
    /\ Skipping /\ ~ChunkExceeded
    /\ response # NoResponse /\ current_skipped <= response.end - response.at
    /\ Skipped
    /\ response' = [response EXCEPT !.at = @ + current_skipped]
    /\ bytes_read' = bytes_read + current_skipped
    /\ KeepReading
    /\ UNCHANGED <<network, use_range_queries, content_length, current_end, next_chunk_end,
                   bytes_skipped, consecutive_retries>>

\* The body ends, or breaks and may be reconnected, after k of the bytes.
MutSkipBroken(k) ==
    /\ Skipping /\ ~ChunkExceeded
    /\ k < current_skipped /\ k <= response.end - response.at
    /\ Skipped
    /\ response' = NoResponse
    /\ bytes_read' = bytes_read + k
    /\ UNCHANGED <<bytes_skipped, consecutive_retries>>
    /\ \/ k = response.end - response.at /\ UNCHANGED network
       \/ Fault /\ MayReconnect
    /\ KeepReading
    /\ UNCHANGED <<use_range_queries, content_length, current_end, next_chunk_end>>
SkipBroken(k) ==
    /\ Skipping /\ ~ChunkExceeded
    /\ k < current_skipped /\ k <= response.end - response.at
    /\ Skipped
    /\ response' = NoResponse
    /\ bytes_read' = bytes_read + k
    /\ bytes_skipped' = bytes_skipped + (current_skipped - k)
    /\ \/ /\ k = response.end - response.at
          /\ UNCHANGED <<network, consecutive_retries>>
       \/ /\ Fault
          /\ \/ UNCHANGED consecutive_retries
             \/ MayReconnect /\ consecutive_retries' = consecutive_retries + 1
    /\ KeepReading
    /\ UNCHANGED <<use_range_queries, content_length, current_end, next_chunk_end>>

\* The position has moved and the bytes are still to be skipped.
SkipFails ==
    /\ Skipping /\ ~ChunkExceeded
    /\ response # NoResponse
    /\ Fault /\ ~MayReconnect
    /\ current_position' = current_position + current_skipped
    /\ Return(Trait!Failed, "none")
    /\ UNCHANGED <<use_range_queries, content_length, chunk, current_skipped, stats,
                   consecutive_retries>>

-----------------------------------------------------------------------------
(* A request for the next chunk.                                           *)

Fetching == slice > 0 /\ current_skipped = 0 /\ response = NoResponse

Least(a, b) == IF a < b THEN a ELSE b
Greatest(a, b) == IF a > b THEN a ELSE b
NextEnd ==
    Least(content_length,
          Greatest(next_chunk_end, current_position + Greatest(MinChunk, slice)))

\* "response is not available but range queries are not supported"; an assertion aborts
\* the program if it has skipped past the end.
CannotFetch ==
    /\ Fetching
    /\ ~use_range_queries \/ current_position > content_length
    /\ Return(Trait!Failed, "none")
    /\ UNCHANGED <<network, use_range_queries, content_length, chunk, place, stats,
                   consecutive_retries>>

EndOfBundle ==
    /\ Fetching /\ use_range_queries /\ current_position = content_length
    /\ next_chunk_end' = 0
    /\ Return(Trait!End, "none")
    /\ UNCHANGED <<network, use_range_queries, content_length, response, current_end,
                   place, stats, consecutive_retries>>

MutFetch ==
    /\ Fetching /\ use_range_queries /\ current_position < content_length
    /\ served # "other"
    /\ response' = [at |-> Greatest(current_end, current_position), end |-> NextEnd, of |-> served]
    /\ current_end' = NextEnd /\ next_chunk_end' = 0
    /\ consecutive_retries' = 0
    /\ KeepReading
    /\ UNCHANGED <<network, use_range_queries, content_length, place, stats>>
Fetch ==
    /\ Fetching /\ use_range_queries /\ current_position < content_length
    /\ served # "other"
    /\ response' = [at |-> current_position, end |-> NextEnd, of |-> served]
    /\ current_end' = NextEnd /\ next_chunk_end' = 0
    /\ consecutive_retries' = 0
    /\ KeepReading
    /\ UNCHANGED <<network, use_range_queries, content_length, place, stats>>

\* The request is repeated after a backoff.
FetchRetry ==
    /\ Fetching /\ MayReconnect /\ current_position < content_length
    /\ Fault
    /\ consecutive_retries' = consecutive_retries + 1
    /\ KeepReading
    /\ UNCHANGED <<use_range_queries, content_length, chunk, place, stats>>

\* Too many retries, an error that is not transient, an answer that is not partial
\* content, or "content length changed during download".
FetchFails ==
    /\ Fetching /\ use_range_queries /\ current_position < content_length
    /\ \/ Fault /\ ~MayReconnect /\ UNCHANGED consecutive_retries
       \/ /\ CountFault /\ refused' = TRUE
          /\ served' = served /\ consecutive_retries' \in {consecutive_retries, 0}
       \/ served = "other" /\ UNCHANGED network /\ consecutive_retries' = 0
    /\ next_chunk_end' = 0
    /\ Return(Trait!Failed, "none")
    /\ UNCHANGED <<use_range_queries, content_length, response, current_end, place, stats>>

-----------------------------------------------------------------------------
(* Reading from the body of the response.                                  *)

Receiving == slice > 0 /\ current_skipped = 0 /\ response # NoResponse

Receive(n) ==
    /\ Receiving
    /\ n <= slice /\ n <= response.end - response.at
    /\ response' = [response EXCEPT !.at = @ + n]
    /\ current_position' = current_position + n
    /\ bytes_read' = bytes_read + n
    /\ consecutive_retries' = 0
    /\ Return(Trait!Data(response.at, n), response.of)
    /\ UNCHANGED <<network, use_range_queries, content_length, current_end, next_chunk_end,
                   current_skipped, bytes_skipped>>

\* "We reached the end of the response. Do a followup request."
MutBodyEnds ==
    /\ Receiving
    /\ \/ response.at = response.end /\ UNCHANGED network
       \/ Fault
    /\ KeepReading
    /\ UNCHANGED <<use_range_queries, content_length, response, current_end, next_chunk_end,
                   place, stats, consecutive_retries>>
BodyEnds ==
    /\ Receiving
    /\ \/ response.at = response.end /\ UNCHANGED network
       \/ Fault
    /\ response' = NoResponse
    /\ KeepReading
    /\ UNCHANGED <<use_range_queries, content_length, current_end, next_chunk_end, place,
                   stats, consecutive_retries>>

BodyBreaks ==
    /\ Receiving /\ MayReconnect
    /\ Fault
    /\ consecutive_retries' = consecutive_retries + 1
    /\ response' = NoResponse
    /\ KeepReading
    /\ UNCHANGED <<use_range_queries, content_length, current_end, next_chunk_end, place,
                   stats>>

BodyFails ==
    /\ Receiving /\ ~MayReconnect
    /\ Fault
    /\ Return(Trait!Failed, "none")
    /\ UNCHANGED <<use_range_queries, content_length, chunk, place, stats,
                   consecutive_retries>>

-----------------------------------------------------------------------------

\* The file on the server is replaced by another one, once.
Replace ==
    /\ served = "bundle" /\ served' \in {"same", "other"}
    /\ UNCHANGED <<faults, refused, use_range_queries, content_length, chunk, place, stats,
                   consecutive_retries, slice, result, of>>

SourceStep ==
    \/ SkipAhead \/ SkipThrough \/ SkipFails
    \/ \E k \in 0 .. current_skipped : SkipBroken(k)
    \/ CannotFetch \/ EndOfBundle \/ Fetch \/ FetchRetry \/ FetchFails
    \/ \E n \in 1 .. slice : Receive(n)
    \/ BodyEnds \/ BodyBreaks \/ BodyFails

\* Anybody who uses the trait as it is meant: not after its end or a failure.
AnyCall(n) ==
    /\ result.kind \in {"none", "data"}
    /\ ReadCall(n) \/ SkipCall(n) \/ Hint(n)

SourceNext == SourceStep \/ Replace \/ \E n \in Nat : AnyCall(n)

SourceSpec ==
    /\ \E length \in Nat : SourceInit(length)
    /\ [][SourceNext]_source

-----------------------------------------------------------------------------

\* Every byte of the bundle up to the position has been counted once, as read or as
\* skipped ("Account for bytes actually consumed vs truly skipped").
BytesAccounted == result.kind # "failed" => bytes_read + bytes_skipped = current_position

\* Across chunks, skips and reconnects the source keeps the promise of the trait.
KeepsPromise == Trait!Spec
=============================================================================
