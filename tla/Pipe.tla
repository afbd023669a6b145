-------------------------------- MODULE Pipe ---------------------------------
(***************************************************************************)
(* The in-memory pipe through which a delta update is decoded: one thread  *)
(* decodes the payload of the bundle into the pipe (BufferedPipeTarget),   *)
(* another applies it as a patch.  Both sides share one mutex and one      *)
(* condition variable; an iteration of a loop under the mutex is a step.   *)
(***************************************************************************)
EXTENDS Integers, Sequences

CONSTANTS
    Capacity,   \* buffer_size
    PayloadSize \* bytes of the payload, numbered from 1

ASSUME SizesAssumption == Capacity \in Nat \ {0} /\ PayloadSize \in Nat

VARIABLES
    buffer,
    writer_closed, reader_closed,
    asleep,  \* the threads that wait on the condition variable
    wpc, rpc,
    chunk,   \* bytes that are left of the current write_all
    sent,    \* bytes that the pipe has accepted
    got,     \* bytes that the reader has received
    wres, rres \* decode_result and xdelta_result

vars == <<buffer, writer_closed, reader_closed, asleep, wpc, rpc, chunk, sent, got, wres, rres>>

Threads == {"writer", "reader"}

TypeOK ==
    /\ buffer \in Seq(1 .. PayloadSize) /\ Len(buffer) <= Capacity
    /\ writer_closed \in BOOLEAN /\ reader_closed \in BOOLEAN
    /\ asleep \subseteq Threads
    /\ wpc \in {"decode", "write", "flush", "drop", "join", "end"}
    /\ rpc \in {"read", "drop", "end"}
    /\ chunk \in 0 .. PayloadSize /\ sent \in 0 .. PayloadSize
    /\ got \in Seq(1 .. PayloadSize)
    /\ wres \in {"none", "ok", "error"} /\ rres \in {"none", "ok", "error"}

Init ==
    /\ buffer = <<>>
    /\ writer_closed = FALSE /\ reader_closed = FALSE
    /\ asleep = {}
    /\ wpc = "decode" /\ rpc = "read"
    /\ chunk = 0 /\ sent = 0 /\ got = <<>>
    /\ wres = "none" /\ rres = "none"

Sleep(t) == asleep' = asleep \cup {t}
NotifyAll == asleep' = {}
Smaller(a, b) == IF a < b THEN a ELSE b

-----------------------------------------------------------------------------
(* PipeReader, and xdelta_decompress which reads from it.                  *)

\* `read` with a buffer of n bytes; zero bytes mean the end of the patch, which
\* xdelta may take for the regular end or for an error.
MutRead(n) ==
    /\ rpc = "read" /\ "reader" \notin asleep
    /\ buffer # <<>>
    /\ LET size == Smaller(n, Len(buffer))
       IN  /\ got' = got \o SubSeq(buffer, 1, size)
           /\ buffer' = SubSeq(buffer, size + 1, Len(buffer))
    /\ asleep' = IF buffer' = <<>> THEN {} ELSE asleep
    /\ UNCHANGED <<writer_closed, reader_closed, wpc, rpc, chunk, sent, wres, rres>>
MutReadLifo(n) ==
    /\ rpc = "read" /\ "reader" \notin asleep
    /\ buffer # <<>>
    /\ LET size == Smaller(n, Len(buffer))
       IN  /\ got' = got \o SubSeq(buffer, Len(buffer) - size + 1, Len(buffer))
           /\ buffer' = SubSeq(buffer, 1, Len(buffer) - size)
    /\ NotifyAll
    /\ UNCHANGED <<writer_closed, reader_closed, wpc, rpc, chunk, sent, wres, rres>>
Read(n) ==
    /\ rpc = "read" /\ "reader" \notin asleep
    /\ buffer # <<>>
    /\ LET size == Smaller(n, Len(buffer))
       IN  /\ got' = got \o SubSeq(buffer, 1, size)
           /\ buffer' = SubSeq(buffer, size + 1, Len(buffer))
    /\ NotifyAll
    /\ UNCHANGED <<writer_closed, reader_closed, wpc, rpc, chunk, sent, wres, rres>>

ReadWaits ==
    /\ rpc = "read" /\ "reader" \notin asleep
    /\ buffer = <<>> /\ ~writer_closed
    /\ Sleep("reader")
    /\ UNCHANGED <<buffer, writer_closed, reader_closed, wpc, rpc, chunk, sent, got, wres, rres>>

ReadEnd ==
    /\ rpc = "read" /\ "reader" \notin asleep
    /\ buffer = <<>> /\ writer_closed
    /\ NotifyAll
    /\ rpc' = "drop" /\ rres' \in {"ok", "error"}
    /\ UNCHANGED <<buffer, writer_closed, reader_closed, wpc, chunk, sent, got, wres>>

\* xdelta may stop before the end of its input, whether it is satisfied or not.
StopReading ==
    /\ rpc = "read" /\ "reader" \notin asleep
    /\ rpc' = "drop" /\ rres' \in {"ok", "error"}
    /\ UNCHANGED <<buffer, writer_closed, reader_closed, asleep, wpc, chunk, sent, got, wres>>

MutDropReader ==
    /\ rpc = "drop"
    /\ reader_closed' = TRUE
    /\ rpc' = "end"
    /\ UNCHANGED <<buffer, writer_closed, asleep, wpc, chunk, sent, got, wres, rres>>
DropReader ==
    /\ rpc = "drop"
    /\ reader_closed' = TRUE
    /\ NotifyAll
    /\ rpc' = "end"
    /\ UNCHANGED <<buffer, writer_closed, wpc, chunk, sent, got, wres, rres>>

-----------------------------------------------------------------------------
(* PipeWriter, and decode_into which writes to it.                         *)

\* The next block of the payload, or the end of it; decoding can fail, also at the
\* end when the hash of the payload turns out to be wrong.
NextBlock ==
    /\ wpc = "decode" /\ sent < PayloadSize
    /\ chunk' \in 1 .. (PayloadSize - sent)
    /\ wpc' = "write"
    /\ UNCHANGED <<buffer, writer_closed, reader_closed, asleep, rpc, sent, got, wres, rres>>

Finalize ==
    /\ wpc = "decode" /\ sent = PayloadSize
    /\ wpc' = "flush"
    /\ UNCHANGED <<buffer, writer_closed, reader_closed, asleep, rpc, chunk, sent, got, wres, rres>>

FailWriter == wpc' = "drop" /\ wres' = "error"

DecodeFails ==
    /\ wpc = "decode"
    /\ FailWriter
    /\ UNCHANGED <<buffer, writer_closed, reader_closed, asleep, rpc, chunk, sent, got, rres>>

\* One `write` of write_all: as much as there is room for.
Write ==
    /\ wpc = "write" /\ "writer" \notin asleep
    /\ ~reader_closed /\ Len(buffer) < Capacity
    /\ LET size == Smaller(chunk, Capacity - Len(buffer))
       IN  /\ buffer' = buffer \o [i \in 1 .. size |-> sent + i]
           /\ sent' = sent + size
           /\ chunk' = chunk - size
           /\ wpc' = IF chunk = size THEN "decode" ELSE "write"
    /\ NotifyAll
    /\ UNCHANGED <<writer_closed, reader_closed, rpc, got, wres, rres>>

WriteWaits ==
    /\ wpc = "write" /\ "writer" \notin asleep
    /\ ~reader_closed /\ Len(buffer) >= Capacity
    /\ Sleep("writer")
    /\ UNCHANGED <<buffer, writer_closed, reader_closed, wpc, rpc, chunk, sent, got, wres, rres>>

MutFlush ==
    /\ wpc = "flush"
    /\ wpc' = "drop" /\ wres' = "ok"
    /\ UNCHANGED <<buffer, writer_closed, reader_closed, asleep, rpc, chunk, sent, got, rres>>
Flush ==
    /\ wpc = "flush" /\ "writer" \notin asleep
    /\ buffer = <<>>
    /\ wpc' = "drop" /\ wres' = "ok"
    /\ UNCHANGED <<buffer, writer_closed, reader_closed, asleep, rpc, chunk, sent, got, rres>>

FlushWaits ==
    /\ wpc = "flush" /\ "writer" \notin asleep
    /\ ~reader_closed /\ buffer # <<>>
    /\ Sleep("writer")
    /\ UNCHANGED <<buffer, writer_closed, reader_closed, wpc, rpc, chunk, sent, got, wres, rres>>

\* A closed reader fails every write, and a flush that has not been read.
BrokenPipe ==
    /\ "writer" \notin asleep /\ reader_closed
    /\ wpc = "write" \/ (wpc = "flush" /\ buffer # <<>>)
    /\ FailWriter
    /\ UNCHANGED <<buffer, writer_closed, reader_closed, asleep, rpc, chunk, sent, got, rres>>

\* The target, and the writer in it, are dropped when decode_into returns.
DropWriter ==
    /\ wpc = "drop"
    /\ writer_closed' = TRUE
    /\ NotifyAll
    /\ wpc' = "join"
    /\ UNCHANGED <<buffer, reader_closed, rpc, chunk, sent, got, wres, rres>>

Join ==
    /\ wpc = "join" /\ rpc = "end"
    /\ wpc' = "end"
    /\ UNCHANGED <<buffer, writer_closed, reader_closed, asleep, rpc, chunk, sent, got, wres, rres>>

-----------------------------------------------------------------------------

\* A condition variable may wake a thread for no reason.
SpuriousWakeup ==
    /\ \E t \in asleep : asleep' = asleep \ {t}
    /\ UNCHANGED <<buffer, writer_closed, reader_closed, wpc, rpc, chunk, sent, got, wres, rres>>

Reader == (\E n \in 1 .. Capacity : Read(n)) \/ ReadWaits \/ ReadEnd \/ StopReading \/ DropReader
Writer ==
    \/ NextBlock \/ Finalize \/ DecodeFails \/ Write \/ WriteWaits
    \/ Flush \/ FlushWaits \/ BrokenPipe \/ DropWriter \/ Join

Next == Reader \/ Writer \/ SpuriousWakeup

Spec == Init /\ [][Next]_vars

\* Both threads run until they sleep or end; nothing is assumed about wakeups.
FairSpec == Spec /\ WF_vars(Reader) /\ WF_vars(Writer)

-----------------------------------------------------------------------------

\* The reader receives the bytes that were written, in order and without gaps.
InOrder == got \o buffer = [i \in 1 .. sent |-> i]

\* A thread sleeps only while the condition it waits for is false: every change
\* that could make it true notifies, also when the other side is dropped.
NoLostWakeup ==
    /\ "reader" \in asleep => buffer = <<>> /\ ~writer_closed
    /\ "writer" \in asleep =>
         /\ ~reader_closed
         /\ IF wpc = "write" THEN Len(buffer) = Capacity ELSE buffer # <<>>

\* The install goes on only if decode_result is a success, and then the patch was
\* read to its last byte: a truncated one is never applied.
CompleteOnSuccess == wres = "ok" => Len(got) = PayloadSize

\* The scope of the two threads always ends ("Otherwise, we get a deadlock when
\* waiting for the payload decoding").
BothEnd == <>(wpc = "end")
=============================================================================
