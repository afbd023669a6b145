----------------------------- MODULE Pipe_proofs -----------------------------
(***************************************************************************)
(* The safety of the pipe for every buffer size and every payload.         *)
(***************************************************************************)
EXTENDS Pipe, SequenceTheorems, TLAPS

\* InOrder, byte by byte.
StreamInv ==
    /\ sent = Len(got) + Len(buffer)
    /\ \A i \in 1 .. Len(got) : got[i] = i
    /\ \A i \in 1 .. Len(buffer) : buffer[i] = Len(got) + i

\* A write_all stays within the payload, and what has been flushed is complete.
ProgressInv ==
    /\ chunk <= PayloadSize - sent
    /\ wpc = "flush" => sent = PayloadSize
    /\ wres = "ok" => sent = PayloadSize /\ buffer = <<>>
    /\ wpc \in {"decode", "write", "flush"} => wres = "none"

\* Only a thread that has its turn in `read`, `write` or `flush` sleeps.
SleepInv ==
    /\ "reader" \in asleep => rpc = "read"
    /\ "writer" \in asleep => wpc \in {"write", "flush"}

IInv == TypeOK /\ StreamInv /\ ProgressInv /\ SleepInv /\ NoLostWakeup

-----------------------------------------------------------------------------

LEMMA InitInv == Init => IInv
<1>. SUFFICES ASSUME Init PROVE IInv
  OBVIOUS
<1>. USE SizesAssumption DEF SizesAssumption, Init
<1>1. TypeOK
  <2>1. writer_closed \in BOOLEAN /\ reader_closed \in BOOLEAN
    BY Zenon
  <2>2. buffer \in Seq(1 .. PayloadSize) /\ got \in Seq(1 .. PayloadSize)
    OBVIOUS
  <2>3. Len(buffer) <= Capacity /\ chunk \in 0 .. PayloadSize /\ sent \in 0 .. PayloadSize
    OBVIOUS
  <2>. QED
    BY <2>1, <2>2, <2>3, Zenon DEF TypeOK, Threads
<1>2. StreamInv /\ ProgressInv
  BY DEF StreamInv, ProgressInv
<1>3. SleepInv /\ NoLostWakeup
  BY DEF SleepInv, NoLostWakeup
<1>. QED
  BY <1>1, <1>2, <1>3 DEF IInv

\* The library's facts about SubSeq, for the bytes of a payload.
LEMMA SubSeqOfBytes ==
    ASSUME NEW S, NEW s \in Seq(S), NEW m \in Int, NEW n \in Int, 1 <= m, n <= Len(s)
    PROVE  /\ SubSeq(s, m, n) \in Seq(S)
           /\ Len(SubSeq(s, m, n)) = IF m <= n THEN n - m + 1 ELSE 0
           /\ \A i \in 1 .. n - m + 1 : SubSeq(s, m, n)[i] = s[m + i - 1]
<1>1. \A i \in m .. n : i \in 1 .. Len(s)
  BY LenProperties
<1>2. \A i \in m .. n : s[i] \in S
  BY <1>1, ElementOfSeq, Zenon
<1>. QED
  BY <1>2, SubSeqProperties

\* What the reader takes from a buffer that continues its stream.
LEMMA TakeFromBuffer ==
    ASSUME TypeOK, StreamInv, NEW size \in 0 .. Len(buffer),
           got' = got \o SubSeq(buffer, 1, size),
           buffer' = SubSeq(buffer, size + 1, Len(buffer)), sent' = sent
    PROVE  /\ StreamInv'
           /\ got' \in Seq(1 .. PayloadSize) /\ buffer' \in Seq(1 .. PayloadSize)
           /\ Len(buffer') = Len(buffer) - size
<1>. DEFINE taken == SubSeq(buffer, 1, size)
            Bytes == 1 .. PayloadSize
<1>0. /\ Len(buffer) \in Nat /\ Len(got) \in Nat /\ size \in Nat /\ size <= Len(buffer)
      /\ buffer \in Seq(Bytes) /\ got \in Seq(Bytes)
      /\ sent = Len(got) + Len(buffer)
  BY LenProperties DEF TypeOK, StreamInv
<1>. HIDE DEF Bytes
<1>1. /\ taken \in Seq(Bytes)
      /\ Len(taken) = size
      /\ \A i \in 1 .. size : taken[i] = buffer[i]
  <2>1. /\ SubSeq(buffer, 1, size) \in Seq(Bytes)
        /\ Len(SubSeq(buffer, 1, size)) = IF 1 <= size THEN size - 1 + 1 ELSE 0
        /\ \A i \in 1 .. size - 1 + 1 : SubSeq(buffer, 1, size)[i] = buffer[1 + i - 1]
    BY <1>0, SubSeqOfBytes
  <2>. QED
    BY <1>0, <2>1
<1>2. /\ buffer' \in Seq(Bytes)
      /\ Len(buffer') = Len(buffer) - size
      /\ \A i \in 1 .. (Len(buffer) - size) : buffer'[i] = buffer[size + i]
  <2>. DEFINE m == size + 1
              n == Len(buffer)
  <2>1. m \in Int /\ n \in Int /\ 1 <= m /\ n <= Len(buffer)
    BY <1>0
  <2>2. buffer' = SubSeq(buffer, m, n)
    OBVIOUS
  <2>. HIDE DEF m, n
  <2>3. /\ SubSeq(buffer, m, n) \in Seq(Bytes)
        /\ Len(SubSeq(buffer, m, n)) = IF m <= n THEN n - m + 1 ELSE 0
        /\ \A i \in 1 .. n - m + 1 : SubSeq(buffer, m, n)[i] = buffer[m + i - 1]
    BY <1>0, <2>1, SubSeqOfBytes
  <2>4. /\ buffer' \in Seq(Bytes)
        /\ Len(buffer') = IF m <= n THEN n - m + 1 ELSE 0
        /\ \A i \in 1 .. n - m + 1 : buffer'[i] = buffer[m + i - 1]
    BY <2>2, <2>3
  <2>. QED
    BY <1>0, <2>4 DEF m, n
<1>3. /\ got' \in Seq(Bytes)
      /\ Len(got') = Len(got) + size
      /\ \A i \in 1 .. Len(got) : got'[i] = got[i]
      /\ \A i \in 1 .. size : got'[Len(got) + i] = buffer[i]
  <2>. HIDE DEF taken
  <2>1. got' = got \o taken
    BY DEF taken
  <2>2. /\ got \o taken \in Seq(Bytes)
        /\ Len(got \o taken) = Len(got) + Len(taken)
        /\ \A i \in 1 .. Len(got) + Len(taken) : (got \o taken)[i] =
                IF i <= Len(got) THEN got[i] ELSE taken[i - Len(got)]
    BY <1>0, <1>1, ConcatProperties, Zenon
  <2>3. /\ got' \in Seq(Bytes)
        /\ Len(got') = Len(got) + size
        /\ \A i \in 1 .. Len(got) + size : got'[i] =
                IF i <= Len(got) THEN got[i] ELSE taken[i - Len(got)]
    BY <1>1, <2>1, <2>2
  <2>. QED
    BY <1>0, <1>1, <2>3
<1>4. \A i \in 1 .. Len(got') : got'[i] = i
  <2>. SUFFICES ASSUME NEW i \in 1 .. (Len(got) + size) PROVE got'[i] = i
    BY <1>3
  <2>1. CASE i <= Len(got)
    BY <2>1, <1>0, <1>3 DEF StreamInv
  <2>2. CASE i > Len(got)
    <3>1. /\ i - Len(got) \in 1 .. size /\ i - Len(got) \in 1 .. Len(buffer)
          /\ i = Len(got) + (i - Len(got))
      BY <2>2, <1>0
    <3>2. got'[Len(got) + (i - Len(got))] = buffer[i - Len(got)]
      BY <3>1, <1>3
    <3>3. buffer[i - Len(got)] = Len(got) + (i - Len(got))
      BY <3>1 DEF StreamInv
    <3>. QED
      BY <3>1, <3>2, <3>3
  <2>. QED
    BY <2>1, <2>2, <1>0
<1>5. \A i \in 1 .. Len(buffer') : buffer'[i] = Len(got') + i
  <2>. SUFFICES ASSUME NEW i \in 1 .. (Len(buffer) - size)
                PROVE  buffer'[i] = Len(got) + size + i
    BY <1>2, <1>3
  <2>1. size + i \in 1 .. Len(buffer)
    BY <1>0
  <2>2. buffer[size + i] = Len(got) + (size + i)
    BY <2>1 DEF StreamInv
  <2>. QED
    BY <1>0, <1>2, <2>2
<1>6. sent' = Len(got') + Len(buffer')
  <2>1. Len(got') = Len(got) + size /\ Len(buffer') = Len(buffer) - size /\ sent' = sent
    BY <1>2, <1>3
  <2>2. Len(got) + Len(buffer) = (Len(got) + size) + (Len(buffer) - size)
    BY <1>0
  <2>3. sent = (Len(got) + size) + (Len(buffer) - size)
    BY <1>0, <2>2
  <2>. QED
    BY <2>1, <2>3
<1>. QED
  BY <1>2, <1>3, <1>4, <1>5, <1>6 DEF StreamInv, Bytes

\* What the writer appends continues the stream.
LEMMA AppendToBuffer ==
    ASSUME TypeOK, StreamInv, NEW size \in Nat, sent + size <= PayloadSize,
           buffer' = buffer \o [i \in 1 .. size |-> sent + i],
           sent' = sent + size, got' = got
    PROVE  /\ StreamInv'
           /\ buffer' \in Seq(1 .. PayloadSize)
           /\ Len(buffer') = Len(buffer) + size
<1>. DEFINE new == [i \in 1 .. size |-> sent + i]
            Bytes == 1 .. PayloadSize
<1>0. /\ Len(buffer) \in Nat /\ Len(got) \in Nat /\ sent \in Nat
      /\ buffer \in Seq(Bytes) /\ sent = Len(got) + Len(buffer)
  BY LenProperties DEF TypeOK, StreamInv
<1>1. new \in Seq(Bytes) /\ Len(new) = size /\ \A i \in 1 .. size : new[i] = sent + i
  BY <1>0, SizesAssumption DEF SizesAssumption
<1>2. buffer' = buffer \o new
  OBVIOUS
<1>. HIDE DEF Bytes, new
<1>3. /\ buffer \o new \in Seq(Bytes)
      /\ Len(buffer \o new) = Len(buffer) + Len(new)
      /\ \A i \in 1 .. Len(buffer) + Len(new) : (buffer \o new)[i] =
              IF i <= Len(buffer) THEN buffer[i] ELSE new[i - Len(buffer)]
  BY <1>0, <1>1, ConcatProperties, Zenon
<1>4. /\ buffer' \in Seq(Bytes)
      /\ Len(buffer') = Len(buffer) + size
      /\ \A i \in 1 .. Len(buffer) + size : buffer'[i] =
              IF i <= Len(buffer) THEN buffer[i] ELSE new[i - Len(buffer)]
  BY <1>1, <1>2, <1>3
<1>5. \A i \in 1 .. Len(buffer') : buffer'[i] = Len(got') + i
  <2>. SUFFICES ASSUME NEW i \in 1 .. (Len(buffer) + size) PROVE buffer'[i] = Len(got) + i
    BY <1>4
  <2>1. CASE i <= Len(buffer)
    <3>1. i \in 1 .. Len(buffer) /\ buffer'[i] = buffer[i]
      BY <2>1, <1>0, <1>4
    <3>. QED
      BY <3>1 DEF StreamInv
  <2>2. CASE i > Len(buffer)
    <3>1. i - Len(buffer) \in 1 .. size
      BY <2>2, <1>0
    <3>2. new[i - Len(buffer)] = sent + (i - Len(buffer))
      BY <3>1, <1>1
    <3>. QED
      BY <2>2, <3>2, <1>0, <1>4
  <2>. QED
    BY <2>1, <2>2, <1>0
<1>6. sent' = Len(got') + Len(buffer')
  BY <1>0, <1>4
<1>7. \A i \in 1 .. Len(got') : got'[i] = i
  BY DEF StreamInv
<1>. QED
  BY <1>4, <1>5, <1>6, <1>7 DEF StreamInv, Bytes

-----------------------------------------------------------------------------
(* The steps of the reader.                                                *)

LEMMA ReadStep ==
    ASSUME IInv, NEW n \in 1 .. Capacity, Read(n)
    PROVE  IInv'
<1>. DEFINE size == Smaller(n, Len(buffer))
<1>0. Len(buffer) \in Nat /\ Len(buffer) <= Capacity /\ n \in Nat /\ Capacity \in Nat
  BY SizesAssumption, LenProperties DEF SizesAssumption, IInv, TypeOK
<1>1. size \in 0 .. Len(buffer)
  BY <1>0 DEF Smaller
<1>2. /\ StreamInv'
      /\ got' \in Seq(1 .. PayloadSize) /\ buffer' \in Seq(1 .. PayloadSize)
      /\ Len(buffer') = Len(buffer) - size
  BY <1>1, TakeFromBuffer DEF IInv, Read
<1>3. Len(buffer') <= Capacity
  BY <1>0, <1>1, <1>2
<1>4. TypeOK'
  BY <1>2, <1>3, Zenon DEF IInv, TypeOK, Read, NotifyAll
<1>5. wres # "ok"
  BY DEF IInv, ProgressInv, Read
<1>6. ProgressInv' /\ SleepInv' /\ NoLostWakeup'
  BY <1>5 DEF IInv, ProgressInv, SleepInv, NoLostWakeup, Read, NotifyAll
<1>. QED
  BY <1>2, <1>4, <1>6 DEF IInv

LEMMA ReaderStep ==
    ASSUME IInv, Reader
    PROVE  IInv'
<1>1. CASE \E n \in 1 .. Capacity : Read(n)
  BY <1>1, ReadStep
<1>2. CASE ReadWaits \/ ReadEnd \/ StopReading \/ DropReader
  <2>. USE <1>2 DEF ReadWaits, ReadEnd, StopReading, DropReader, NotifyAll, Sleep
  <2>1. TypeOK'
    BY Zenon DEF IInv, TypeOK, Threads
  <2>2. StreamInv' /\ ProgressInv'
    BY DEF IInv, StreamInv, ProgressInv
  <2>3. SleepInv' /\ NoLostWakeup'
    BY DEF IInv, SleepInv, NoLostWakeup
  <2>. QED
    BY <2>1, <2>2, <2>3 DEF IInv
<1>. QED
  BY <1>1, <1>2 DEF Reader

-----------------------------------------------------------------------------
(* The steps of the writer.                                                *)

LEMMA WriteStep ==
    ASSUME IInv, Write
    PROVE  IInv'
<1>. DEFINE size == Smaller(chunk, Capacity - Len(buffer))
<1>0. /\ Len(buffer) \in Nat /\ Capacity \in Nat /\ PayloadSize \in Nat
      /\ chunk \in Nat /\ sent \in Nat /\ chunk <= PayloadSize - sent
      /\ Len(buffer) < Capacity
  BY SizesAssumption, LenProperties DEF SizesAssumption, IInv, TypeOK, ProgressInv, Write
<1>1. /\ size \in Nat /\ size <= chunk /\ size <= Capacity - Len(buffer)
      /\ sent + size <= PayloadSize
  BY <1>0 DEF Smaller
<1>2. /\ StreamInv'
      /\ buffer' \in Seq(1 .. PayloadSize)
      /\ Len(buffer') = Len(buffer) + size
  BY <1>1, AppendToBuffer DEF IInv, Write
<1>3. /\ Len(buffer') <= Capacity
      /\ chunk' \in 0 .. PayloadSize /\ sent' \in 0 .. PayloadSize
      /\ chunk' <= PayloadSize - sent'
  <2>1. chunk' = chunk - size /\ sent' = sent + size
    BY DEF Write
  <2>. HIDE DEF size
  <2>. QED
    BY <1>0, <1>1, <1>2, <2>1
<1>4. wpc' \in {"decode", "write"} /\ wres' = wres /\ wres = "none"
  BY DEF Write, IInv, ProgressInv
<1>5. TypeOK'
  BY <1>2, <1>3, <1>4, Zenon DEF IInv, TypeOK, Write, NotifyAll
<1>6. ProgressInv'
  BY <1>3, <1>4 DEF ProgressInv
<1>7. SleepInv' /\ NoLostWakeup'
  BY DEF SleepInv, NoLostWakeup, Write, NotifyAll
<1>. QED
  BY <1>2, <1>5, <1>6, <1>7 DEF IInv

LEMMA WriterStep ==
    ASSUME IInv, Writer
    PROVE  IInv'
<1>1. CASE Write
  BY <1>1, WriteStep
<1>2. CASE NextBlock
  <2>. USE <1>2 DEF NextBlock
  <2>1. chunk' \in 0 .. PayloadSize /\ chunk' <= PayloadSize - sent
    BY SizesAssumption DEF SizesAssumption, IInv, TypeOK
  <2>2. TypeOK'
    BY <2>1, Zenon DEF IInv, TypeOK
  <2>3. StreamInv' /\ ProgressInv' /\ SleepInv' /\ NoLostWakeup'
    BY <2>1 DEF IInv, StreamInv, ProgressInv, SleepInv, NoLostWakeup
  <2>. QED
    BY <2>2, <2>3 DEF IInv
<1>3. CASE Finalize \/ DecodeFails \/ Flush \/ BrokenPipe \/ DropWriter \/ Join
  <2>. USE <1>3 DEF Finalize, DecodeFails, Flush, BrokenPipe, DropWriter, Join,
                    FailWriter, NotifyAll
  <2>1. TypeOK'
    BY Zenon DEF IInv, TypeOK, Threads
  <2>2. StreamInv'
    BY DEF IInv, StreamInv
  <2>3. ProgressInv'
    BY DEF IInv, ProgressInv
  <2>4. SleepInv' /\ NoLostWakeup'
    BY DEF IInv, SleepInv, NoLostWakeup
  <2>. QED
    BY <2>1, <2>2, <2>3, <2>4 DEF IInv
<1>4. CASE WriteWaits \/ FlushWaits
  <2>. USE <1>4 DEF WriteWaits, FlushWaits, Sleep
  <2>1. TypeOK'
    BY Zenon DEF IInv, TypeOK, Threads
  <2>2. StreamInv' /\ ProgressInv' /\ SleepInv'
    BY DEF IInv, StreamInv, ProgressInv, SleepInv
  <2>3. wpc = "write" => Len(buffer) = Capacity
    <3>1. Len(buffer) \in Nat /\ Capacity \in Nat /\ Len(buffer) <= Capacity
      BY SizesAssumption, LenProperties DEF SizesAssumption, IInv, TypeOK
    <3>. QED
      BY <3>1
  <2>4. NoLostWakeup'
    BY <2>3 DEF IInv, NoLostWakeup
  <2>. QED
    BY <2>1, <2>2, <2>4 DEF IInv
<1>. QED
  BY <1>1, <1>2, <1>3, <1>4 DEF Writer

THEOREM Invariance == Spec => []IInv
<1>1. Init => IInv
  BY InitInv
<1>2. IInv /\ [Next]_vars => IInv'
  <2>. SUFFICES ASSUME IInv, [Next]_vars PROVE IInv'
    OBVIOUS
  <2>1. CASE SpuriousWakeup
    <3>. USE <2>1 DEF SpuriousWakeup
    <3>1. TypeOK'
      BY Zenon DEF IInv, TypeOK, Threads
    <3>2. StreamInv' /\ ProgressInv' /\ SleepInv' /\ NoLostWakeup'
      BY DEF IInv, StreamInv, ProgressInv, SleepInv, NoLostWakeup
    <3>. QED
      BY <3>1, <3>2 DEF IInv
  <2>2. CASE UNCHANGED vars
    <3>1. TypeOK'
      BY <2>2, Zenon DEF IInv, TypeOK, vars
    <3>2. StreamInv' /\ ProgressInv' /\ SleepInv' /\ NoLostWakeup'
      BY <2>2 DEF IInv, StreamInv, ProgressInv, SleepInv, NoLostWakeup, vars
    <3>. QED
      BY <3>1, <3>2 DEF IInv
  <2>. QED
    BY <2>1, <2>2, ReaderStep, WriterStep DEF Next
<1>. QED
  BY <1>1, <1>2, PTL DEF Spec

\* No interleaving of `read`, `write`, `flush` and the two drops leaves a thread
\* asleep whose condition has become true.
THEOREM NoWakeupIsLost == Spec => []NoLostWakeup
<1>1. IInv => NoLostWakeup
  BY DEF IInv
<1>. QED
  BY <1>1, Invariance, PTL

\* The buffer never outgrows its capacity, so `write` never reallocates it.
THEOREM BufferBounded == Spec => []TypeOK
<1>1. IInv => TypeOK
  BY DEF IInv
<1>. QED
  BY <1>1, Invariance, PTL

\* decode_result is a success only after the reader has taken every byte.
THEOREM SuccessIsComplete == Spec => []CompleteOnSuccess
<1>1. IInv => CompleteOnSuccess
  BY LenProperties DEF IInv, TypeOK, StreamInv, ProgressInv, CompleteOnSuccess
<1>. QED
  BY <1>1, Invariance, PTL

\* The pipe delivers the stream in order, whatever sizes are read and written.
THEOREM StreamInOrder == Spec => []InOrder
<1>1. ASSUME IInv PROVE InOrder
  <2>. DEFINE Bytes == 1 .. PayloadSize
              stream == [i \in 1 .. sent |-> i]
  <2>0. /\ got \in Seq(Bytes) /\ buffer \in Seq(Bytes)
        /\ Len(got) \in Nat /\ Len(buffer) \in Nat /\ sent = Len(got) + Len(buffer)
        /\ sent \in 0 .. PayloadSize
    BY <1>1, LenProperties DEF IInv, TypeOK, StreamInv
  <2>1. stream \in Seq(Bytes) /\ Len(stream) = sent /\ \A i \in 1 .. sent : stream[i] = i
    BY <2>0, SizesAssumption DEF SizesAssumption
  <2>. HIDE DEF Bytes, stream
  <2>2. /\ got \o buffer \in Seq(Bytes)
        /\ Len(got \o buffer) = Len(got) + Len(buffer)
        /\ \A i \in 1 .. Len(got) + Len(buffer) : (got \o buffer)[i] =
                IF i <= Len(got) THEN got[i] ELSE buffer[i - Len(got)]
    BY <2>0, ConcatProperties, Zenon
  <2>3. \A i \in 1 .. Len(got \o buffer) : (got \o buffer)[i] = stream[i]
    <3>. SUFFICES ASSUME NEW i \in 1 .. (Len(got) + Len(buffer))
                  PROVE  (got \o buffer)[i] = i
      BY <2>0, <2>1, <2>2
    <3>1. CASE i <= Len(got)
      <4>1. i \in 1 .. Len(got) /\ (got \o buffer)[i] = got[i]
        BY <3>1, <2>0, <2>2
      <4>. QED
        BY <4>1, <1>1 DEF IInv, StreamInv
    <3>2. CASE i > Len(got)
      <4>1. /\ i - Len(got) \in 1 .. Len(buffer)
            /\ (got \o buffer)[i] = buffer[i - Len(got)]
        BY <3>2, <2>0, <2>2
      <4>2. buffer[i - Len(got)] = Len(got) + (i - Len(got))
        BY <4>1, <1>1 DEF IInv, StreamInv
      <4>. QED
        BY <2>0, <4>1, <4>2
    <3>. QED
      BY <3>1, <3>2, <2>0
  <2>4. got \o buffer = stream
    BY <2>0, <2>1, <2>2, <2>3, SeqEqual
  <2>. QED
    BY <2>4 DEF InOrder, stream
<1>. QED
  BY <1>1, Invariance, PTL
=============================================================================
