---------------------------- MODULE Bundle_proofs ----------------------------
(***************************************************************************)
(* For every length of the bundle and however often transfers break: the   *)
(* HTTP source counts every byte once and keeps the promise of the trait   *)
(* BundleSource towards everybody who uses it as it is meant.  And for     *)
(* every bundle and whatever the slots of the device hold, the reader on   *)
(* top of it never writes a byte that is not the payload's, its source     *)
(* stands where the rest of the payload is, and it fails for a reason.     *)
(***************************************************************************)
EXTENDS Bundle, WellFoundedInduction, TLAPS

-----------------------------------------------------------------------------
(* The HTTP source.                                                        *)

\* While the source is usable its response stands at the position, and a skip that
\* has not been applied yet has a response to be applied to.
Placed ==
    /\ bytes_read + bytes_skipped = current_position
    /\ response # NoResponse =>
        /\ response.of # "none"
        /\ response.at = current_position /\ response.at <= response.end
        /\ current_end # NoEnd => current_end = response.end
    /\ current_skipped > 0 => response # NoResponse
    /\ slice = 0 /\ result.kind # "end" => response # NoResponse

SourceInv ==
    /\ HttpTypeOK
    /\ slice > 0 => result = Trait!NoResult
    /\ result.kind # "failed" => Placed

USE HttpAssumption

Results == [kind : {"none", "data", "end", "failed"}, from : Nat, n : Nat]
Bodies == [at : Nat, end : Nat, of : Versions \cup {"none"}]

LEMMA ResultTypes ==
    /\ Trait!NoResult \in Results /\ Trait!NoResult.kind = "none"
    /\ Trait!End \in Results /\ Trait!End.kind = "end"
    /\ Trait!Failed \in Results /\ Trait!Failed.kind = "failed"
    /\ \A from, n \in Nat : Trait!Data(from, n) \in Results /\ Trait!Data(from, n).kind = "data"
  BY DEF Results, Trait!NoResult, Trait!End, Trait!Failed, Trait!Data

LEMMA BodyTypes ==
    /\ NoResponse \in Bodies
    /\ NoResponse.of = "none" /\ NoResponse.at = 0 /\ NoResponse.end = 0
    /\ \A at, end \in Nat, v \in Versions :
          LET r == [at |-> at, end |-> end, of |-> v]
          IN  r \in Bodies /\ r # NoResponse /\ r.at = at /\ r.end = end /\ r.of = v
    /\ \A r \in Bodies, at \in Nat :
          LET m == [r EXCEPT !.at = at]
          IN  m \in Bodies /\ m.at = at /\ m.end = r.end /\ m.of = r.of
  BY DEF Bodies, NoResponse, Versions

\* Faults that are not counted any more are more than may be retried.
LEMMA FaultIs ==
    ASSUME faults \in 0 .. MaxFaults, CountFault
    PROVE  /\ faults' \in 0 .. MaxFaults
           /\ faults' = faults + 1 \/ faults' > MaxRetries
  BY HttpAssumption DEF CountFault

LEMMA InitInv == ASSUME NEW length \in Nat, SourceInit(length) PROVE SourceInv
  <1>1. current_end \in Nat \cup {NoEnd} /\ (use_range_queries => current_end \in Nat)
    BY DEF SourceInit, NoEnd
  <1>2. response \in [at : Nat, end : Nat, of : Versions \cup {"none"}]
    BY <1>1 DEF SourceInit, Versions
  <1>3. HttpTypeOK
    <2>1. result \in Results
      BY ResultTypes DEF SourceInit
    <2>2. served \in Versions /\ faults \in 0 .. MaxFaults /\ consecutive_retries \in 0 .. MaxRetries
          /\ content_length \in Nat /\ next_chunk_end \in Nat /\ slice \in Nat
          /\ current_position \in Nat /\ current_skipped \in Nat
          /\ bytes_read \in Nat /\ bytes_skipped \in Nat
      BY DEF SourceInit, Versions
    <2>3. refused \in BOOLEAN /\ use_range_queries \in BOOLEAN /\ of \in Versions \cup {"none"}
      BY DEF SourceInit
    <2> QED BY <1>1, <1>2, <2>1, <2>2, <2>3 DEF HttpTypeOK, Results
  <1>4. response # NoResponse /\ response.of # "none" /\ response.at = 0
    BY DEF SourceInit, NoResponse
  <1>5. Placed
    BY <1>1, <1>4 DEF SourceInit, Placed, NoEnd
  <1> QED BY <1>3, <1>5 DEF SourceInv, SourceInit

\* A step of the read in progress that does not return.
LEMMA Reading ==
    ASSUME SourceInv, slice > 0,
           SkipAhead \/ SkipThrough \/ \E k \in 0 .. current_skipped : SkipBroken(k)
    PROVE  SourceInv'
  <1> USE DEF SourceInv, HttpTypeOK
  <1>0. result.kind # "failed" /\ Placed
    BY ResultTypes
  <1>1. CASE SkipAhead
    <2> USE <1>1 DEF SkipAhead, Skipping, Skipped, KeepReading, network
    <2>1. current_position \in Nat /\ current_skipped \in Nat /\ bytes_read \in Nat
          /\ bytes_skipped \in Nat /\ current_end \in Nat
          /\ current_position <= current_end
          /\ current_position + current_skipped >= current_end
      BY <1>0 DEF Placed, ChunkExceeded, NoEnd, Bodies
    <2>2. bytes_read' \in Nat /\ bytes_skipped' \in Nat /\ current_position' \in Nat
          /\ bytes_read' + bytes_skipped' = current_position'
      BY <1>0, <2>1 DEF Placed
    <2>3. HttpTypeOK'
      BY <2>2, BodyTypes DEF Bodies
    <2>4. Placed'
      BY <2>2 DEF Placed
    <2> QED BY <2>3, <2>4
  <1>2. CASE SkipThrough
    <2> USE <1>2 DEF SkipThrough, Skipping, Skipped, KeepReading, network
    <2>1. response \in Bodies /\ response # NoResponse /\ response.of # "none"
          /\ response.at = current_position /\ response.at + current_skipped <= response.end
          /\ current_position \in Nat /\ current_skipped \in Nat /\ response.at \in Nat
          /\ response.end \in Nat
      BY <1>0 DEF Placed, Bodies
    <2>2. response' \in Bodies /\ response'.at = current_position' /\ response'.end = response.end
          /\ response'.of = response.of /\ response'.at <= response'.end
      BY <2>1, BodyTypes
    <2>3. bytes_read' \in Nat /\ current_position' \in Nat
          /\ bytes_read' + bytes_skipped' = current_position'
      BY <1>0, <2>1 DEF Placed
    <2>4. HttpTypeOK'
      BY <2>2, <2>3 DEF Bodies
    <2>5. Placed'
      BY <1>0, <2>1, <2>2, <2>3, BodyTypes DEF Placed
    <2> QED BY <2>4, <2>5
  <1>3. ASSUME NEW k \in 0 .. current_skipped, SkipBroken(k) PROVE SourceInv'
    <2> USE <1>3 DEF SkipBroken, Skipping, Skipped, KeepReading, network, Fault, MayReconnect
    <2>1. k \in Nat /\ current_skipped - k \in Nat /\ current_position \in Nat
      OBVIOUS
    <2>2. bytes_read' \in Nat /\ bytes_skipped' \in Nat /\ current_position' \in Nat
          /\ bytes_read' + bytes_skipped' = current_position'
      BY <1>0, <2>1 DEF Placed
    <2>3. served' = served /\ refused' = refused /\ faults' \in 0 .. MaxFaults
          /\ consecutive_retries' \in 0 .. MaxRetries
      BY FaultIs
    <2>4. HttpTypeOK'
      BY <2>2, <2>3, BodyTypes DEF Bodies
    <2>5. Placed'
      BY <2>2 DEF Placed
    <2> QED BY <2>4, <2>5
  <1> QED BY <1>1, <1>2, <1>3

\* A request, and an answer that does not reach the caller yet.
LEMMA Requesting ==
    ASSUME SourceInv, Fetch \/ FetchRetry \/ BodyEnds \/ BodyBreaks
    PROVE  SourceInv'
  <1> USE DEF SourceInv, HttpTypeOK
  <1>0. slice > 0 /\ current_skipped = 0 /\ result.kind # "failed" /\ Placed
    BY ResultTypes DEF Fetch, FetchRetry, BodyEnds, BodyBreaks, Fetching, Receiving
  <1>f. Fault => faults' \in 0 .. MaxFaults
    BY FaultIs DEF Fault
  <1>1. CASE Fetch
    <2> USE <1>1 DEF Fetch, Fetching, KeepReading, network, place, stats
    <2>1. NextEnd \in Nat /\ current_position <= NextEnd
      BY <1>0 DEF NextEnd, Least, Greatest
    <2>2. served \in Versions /\ current_position \in Nat /\ current_position' = current_position
          /\ response' = [at |-> current_position, end |-> NextEnd, of |-> served]
      OBVIOUS
    <2>3. response' \in Bodies /\ response' # NoResponse /\ response'.of # "none"
          /\ response'.at = current_position' /\ response'.end = NextEnd
      BY ONLY <2>1, <2>2 DEF Bodies, NoResponse, Versions
    <2>4. HttpTypeOK'
      BY <2>1, <2>3 DEF Bodies
    <2>5. Placed'
      BY <1>0, <2>1, <2>3 DEF Placed
    <2> QED BY <2>4, <2>5
  <1>2. CASE FetchRetry
    BY <1>0, <1>f, <1>2 DEF FetchRetry, Fault, MayReconnect, KeepReading, chunk, place, stats, Placed
  <1>3. CASE BodyEnds
    BY <1>0, <1>f, <1>3, BodyTypes DEF BodyEnds, Receiving, Fault, KeepReading, network, place, stats,
       Placed, Bodies
  <1>4. CASE BodyBreaks
    BY <1>0, <1>f, <1>4, BodyTypes DEF BodyBreaks, Receiving, Fault, MayReconnect, KeepReading, place,
       stats, Placed, Bodies
  <1> QED BY <1>1, <1>2, <1>3, <1>4

\* A read that returns.
LEMMA Returning ==
    ASSUME SourceInv,
           SkipFails \/ CannotFetch \/ EndOfBundle \/ FetchFails \/ BodyFails
               \/ \E n \in 1 .. slice : Receive(n)
    PROVE  SourceInv'
  <1> USE DEF SourceInv, HttpTypeOK
  <1>0. slice > 0 /\ result.kind # "failed" /\ Placed
    BY ResultTypes
    DEF SkipFails, CannotFetch, EndOfBundle, FetchFails, BodyFails, Receive, Skipping, Fetching,
        Receiving
  <1>f. CountFault => faults' \in 0 .. MaxFaults
    BY FaultIs
  <1>1. CASE SkipFails
    BY <1>f, <1>1, ResultTypes
    DEF SkipFails, Fault, Return, chunk, stats, Results, Versions
  <1>2. CASE CannotFetch
    BY <1>2, ResultTypes DEF CannotFetch, Return, network, chunk, place, stats, Results
  <1>3. CASE EndOfBundle
    BY <1>0, <1>3, ResultTypes
    DEF EndOfBundle, Fetching, Return, network, place, stats, Results, Placed
  <1>4. CASE FetchFails
    <2> USE <1>4 DEF FetchFails, Return, place, stats
    <2>1. faults' \in 0 .. MaxFaults /\ served' = served
      BY <1>f DEF Fault, network
    <2>3. refused' \in BOOLEAN
      <3>1. refused' = refused \/ refused' = TRUE
        BY Zenon DEF Fault, network
      <3> QED BY <3>1
    <2>2. consecutive_retries' \in 0 .. MaxRetries
      OBVIOUS
    <2> QED BY <2>1, <2>2, <2>3, ResultTypes DEF Results
  <1>5. CASE BodyFails
    BY <1>f, <1>5, ResultTypes DEF BodyFails, Fault, Return, chunk, place, stats, Results
  <1>6. ASSUME NEW n \in 1 .. slice, Receive(n) PROVE SourceInv'
    <2> USE <1>6 DEF Receive, Receiving, Return, network
    <2>1. n \in Nat /\ response \in Bodies /\ response # NoResponse /\ response.of # "none"
          /\ response.at = current_position /\ response.at + n <= response.end
          /\ response.at \in Nat /\ response.end \in Nat /\ response.of \in Versions
      BY <1>0 DEF Placed, Bodies
    <2>2. response' \in Bodies /\ response'.at = current_position' /\ response'.end = response.end
          /\ response'.of = response.of /\ response'.at <= response'.end
      BY <2>1, BodyTypes
    <2>3. bytes_read' \in Nat /\ current_position' \in Nat
          /\ bytes_read' + bytes_skipped' = current_position'
      BY <1>0, <2>1 DEF Placed
    <2>4. result' \in Results /\ result'.kind = "data" /\ of' \in Versions
      BY <2>1, ResultTypes
    <2>5. HttpTypeOK'
      BY <2>2, <2>3, <2>4 DEF Bodies, Results
    <2>6. Placed'
      BY <1>0, <2>1, <2>2, <2>3, BodyTypes DEF Placed
    <2> QED BY <2>5, <2>6
  <1> QED BY <1>1, <1>2, <1>3, <1>4, <1>5, <1>6

LEMMA Calling ==
    ASSUME SourceInv, NEW n \in Nat, AnyCall(n)
    PROVE  SourceInv'
  <1> USE DEF SourceInv, HttpTypeOK, AnyCall
  <1>0. result.kind # "failed" /\ Placed
    OBVIOUS
  <1>1. CASE ReadCall(n)
    BY <1>0, <1>1, ResultTypes
    DEF ReadCall, network, chunk, place, stats, Results, Placed
  <1>2. CASE SkipCall(n)
    BY <1>0, <1>2 DEF SkipCall, network, chunk, stats, Placed
  <1>3. CASE Hint(n)
    BY <1>0, <1>3 DEF Hint, network, place, stats, Placed
  <1> QED BY <1>1, <1>2, <1>3

LEMMA StepInv == SourceInv /\ [SourceNext]_source => SourceInv'
  <1> SUFFICES ASSUME SourceInv, [SourceNext]_source PROVE SourceInv'
    OBVIOUS
  <1>1. CASE SourceStep
    BY <1>1, Reading, Requesting, Returning DEF SourceStep, SkipAhead, SkipThrough, SkipBroken, Skipping
  <1>2. CASE Replace
    BY <1>2 DEF Replace, SourceInv, HttpTypeOK, Placed, chunk, place, stats, Versions
  <1>3. ASSUME NEW n \in Nat, AnyCall(n) PROVE SourceInv'
    BY <1>3, Calling
  <1>4. CASE UNCHANGED source
    BY <1>4 DEF source, network, chunk, place, stats, SourceInv, HttpTypeOK, Placed
  <1> QED BY <1>1, <1>2, <1>3, <1>4 DEF SourceNext

\* For every length of the bundle, every chunk size and every fault: what a response will
\* still deliver, the end of its chunk and the position fit together.
THEOREM SourceInvariant == SourceSpec => []SourceInv
  <1>1. (\E length \in Nat : SourceInit(length)) => SourceInv
    BY InitInv
  <1> QED BY <1>1, StepInv, PTL DEF SourceSpec

\* For every bundle and every fault: each byte up to the position has been counted
\* once, as read or as skipped.
THEOREM BytesAlwaysAccounted == SourceSpec => []BytesAccounted
  <1>1. SourceInv => BytesAccounted
    BY DEF SourceInv, Placed, BytesAccounted
  <1> QED BY <1>1, SourceInvariant, PTL

-----------------------------------------------------------------------------

Promised == [Trait!Next]_(Trait!vars)

\* Skipping, requesting and reconnecting are not seen by the caller.
LEMMA Unseen ==
    ASSUME SourceInv,
           SkipAhead \/ SkipThrough \/ (\E k \in 0 .. current_skipped : SkipBroken(k))
               \/ Fetch \/ FetchRetry \/ BodyEnds \/ BodyBreaks
    PROVE  UNCHANGED Trait!vars
  BY DEF SourceInv, HttpTypeOK, SkipAhead, SkipThrough, SkipBroken, Skipped, Fetch, FetchRetry,
         BodyEnds, BodyBreaks, KeepReading, place, Trait!vars

LEMMA PositionType == SourceInv' => current_position' + current_skipped' \in Nat
  <1>1. SourceInv' => current_position' \in Nat /\ current_skipped' \in Nat
    BY DEF SourceInv, HttpTypeOK
  <1> QED BY <1>1

LEMMA StepPromised == SourceInv /\ SourceInv' /\ [SourceNext]_source => Promised
  <1> SUFFICES ASSUME SourceInv, SourceInv', [SourceNext]_source PROVE Promised
    OBVIOUS
  <1>0. current_position' + current_skipped' \in Nat
    BY PositionType
  <1> USE DEF Promised, SourceInv, HttpTypeOK
  <1>1. CASE SkipFails \/ CannotFetch \/ FetchFails \/ BodyFails
    <2>1. Trait!Fail
      BY <1>0, <1>1, Zenon
      DEF Trait!Fail, SkipFails, CannotFetch, FetchFails, BodyFails, Skipping, Fetching, Receiving,
          Return
    <2> QED BY <2>1 DEF Trait!Next
  <1>2. CASE EndOfBundle
    <2>1. Trait!ReachEnd
      BY <1>2 DEF Trait!ReachEnd, EndOfBundle, Fetching, Return, place
    <2> QED BY <2>1 DEF Trait!Next
  <1>3. ASSUME NEW n \in 1 .. slice, Receive(n) PROVE Promised
    <2>1. response.at = current_position /\ current_skipped = 0
      BY <1>3, ResultTypes DEF Receive, Receiving, Placed
    <2>2. Trait!Deliver
      BY <1>3, <2>1 DEF Trait!Deliver, Receive, Return
    <2> QED BY <2>2 DEF Trait!Next
  <1>4. ASSUME NEW n \in Nat, AnyCall(n) PROVE Promised
    <2>1. CASE ReadCall(n)
      <3>1. Trait!Call
        BY <2>1 DEF Trait!Call, ReadCall, place
      <3> QED BY <3>1 DEF Trait!Next
    <2>2. CASE SkipCall(n)
      <3>1. Trait!Skip
        BY <2>2 DEF Trait!Skip, SkipCall
      <3> QED BY <3>1 DEF Trait!Next
    <2>3. CASE Hint(n)
      BY <2>3 DEF Hint, place, Trait!vars
    <2> QED BY <1>4, <2>1, <2>2, <2>3 DEF AnyCall
  <1>5. CASE Replace
    BY <1>5 DEF Replace, place, Trait!vars
  <1>6. CASE UNCHANGED source
    BY <1>6 DEF source, place, Trait!vars
  <1>7. CASE SkipAhead \/ SkipThrough \/ (\E k \in 0 .. current_skipped : SkipBroken(k))
               \/ Fetch \/ FetchRetry \/ BodyEnds \/ BodyBreaks
    BY <1>7, Unseen
  <1> QED BY <1>1, <1>2, <1>3, <1>4, <1>5, <1>6, <1>7 DEF SourceNext, SourceStep

\* The HTTP source implements the trait: what it delivers are the next bytes of the
\* bundle, across every chunk, skip and reconnect, and it ends where the bundle does.
THEOREM SourceKeepsPromise == SourceSpec => KeepsPromise
  <1>1. (\E length \in Nat : SourceInit(length)) => Trait!Init
    BY DEF SourceInit, Trait!Init
  <1>2. SourceInv /\ SourceInv' /\ [SourceNext]_source => [Trait!Next]_(Trait!vars)
    BY StepPromised DEF Promised
  <1> QED BY <1>1, <1>2, SourceInvariant, PTL DEF SourceSpec, KeepsPromise, Trait!Spec

-----------------------------------------------------------------------------
(* Concatenation.                                                          *)

\* Induction over the natural numbers, for a set: the library states it for an operator.
LEMMA SetInduction ==
    ASSUME NEW S, 0 \in S, \A n \in Nat : n \in S => n + 1 \in S
    PROVE  Nat \subseteq S
<1>. DEFINE T == Nat \ S
            R == OpToRel(<, Nat)
<1>. SUFFICES ASSUME T # {} PROVE FALSE
  OBVIOUS
<1>1. PICK x \in T : \A y \in T : ~(<<y, x>> \in R)
  <2>. HIDE DEF R, T
  <2>1. IsWellFoundedOn(R, Nat)
    BY NatLessThanWellFounded DEF R
  <2>2. T \subseteq Nat
    BY DEF T
  <2>. QED
    BY <2>1, <2>2, WFMin
<1>2. x - 1 \in Nat /\ x - 1 < x
  OBVIOUS
<1>3. x - 1 \in S
  BY <1>1, <1>2 DEF OpToRel
<1>. QED
  BY <1>2, <1>3

\* What FlattenSeq computes, up to each place.
Flattens(f, seqs) ==
    f = [i \in 1 .. Len(seqs) |-> IF i = 1 THEN seqs[i] ELSE f[i - 1] \o seqs[i]]

LEMMA FlattensAt ==
    ASSUME NEW f, NEW seqs, Flattens(f, seqs), NEW i \in 1 .. Len(seqs)
    PROVE  f[i] = IF i = 1 THEN seqs[i] ELSE f[i - 1] \o seqs[i]
BY Zenon DEF Flattens

LEMMA FlattensExists ==
    ASSUME NEW T, NEW seqs \in Seq(Seq(T))
    PROVE  \E f : Flattens(f, seqs)
<1>. DEFINE Run(f, n) ==
        f = [i \in 1 .. n |-> IF i = 1 THEN seqs[i] ELSE f[i - 1] \o seqs[i]]
            S == {n \in Nat : \E f : Run(f, n)}
<1>0. ASSUME NEW f, NEW n, Run(f, n), NEW i \in 1 .. n
      PROVE  f[i] = IF i = 1 THEN seqs[i] ELSE f[i - 1] \o seqs[i]
  BY <1>0, Zenon
<1>1. 0 \in S
  <2>1. Run(<<>>, 0)
    OBVIOUS
  <2>. HIDE DEF Run
  <2>. QED
    BY <2>1
<1>2. ASSUME NEW n \in Nat, n \in S
      PROVE  n + 1 \in S
  <2>1. PICK f : Run(f, n)
    BY <1>2
  <2>. DEFINE g == [i \in 1 .. n + 1 |->
                      IF i <= n THEN f[i]
                      ELSE IF i = 1 THEN seqs[i] ELSE f[i - 1] \o seqs[i]]
  <2>2. ASSUME NEW i \in 1 .. n + 1
        PROVE  g[i] = IF i = 1 THEN seqs[i] ELSE g[i - 1] \o seqs[i]
    <3>. HIDE DEF Run
    <3>1. CASE i <= n
      <4>1. i \in 1 .. n
        BY <3>1
      <4>2. f[i] = IF i = 1 THEN seqs[i] ELSE f[i - 1] \o seqs[i]
        BY <1>0, <2>1, <4>1, Zenon
      <4>3. g[i] = f[i] /\ (i # 1 => g[i - 1] = f[i - 1])
        BY <3>1
      <4>. QED
        BY <4>2, <4>3
    <3>2. CASE i = n + 1
      <4>1. i # 1 => g[i - 1] = f[i - 1]
        BY <3>2
      <4>2. g[i] = IF i = 1 THEN seqs[i] ELSE f[i - 1] \o seqs[i]
        BY <3>2
      <4>. QED
        BY <4>1, <4>2
    <3>. QED
      BY <3>1, <3>2
  <2>3. Run(g, n + 1)
    <3>1. g = [i \in 1 .. n + 1 |-> g[i]]
      OBVIOUS
    <3>. HIDE DEF g
    <3>. QED
      BY <2>2, <3>1
  <2>. HIDE DEF Run
  <2>. QED
    BY <2>3
<1>. HIDE DEF S
<1>3. Nat \subseteq S
  BY <1>1, <1>2, SetInduction
<1>4. Len(seqs) \in S
  BY <1>3
<1>. QED
  BY <1>4 DEF S, Flattens

LEMMA FlattenSeqIs ==
    ASSUME NEW T, NEW seqs \in Seq(Seq(T)), Len(seqs) # 0
    PROVE  \E f : Flattens(f, seqs) /\ FlattenSeq(seqs) = f[Len(seqs)]
<1>. DEFINE f == CHOOSE h : Flattens(h, seqs)
<1>2. Flattens(f, seqs)
  BY FlattensExists
<1>3. FlattenSeq(seqs) = f[Len(seqs)]
  BY Zenon DEF FlattenSeq, Flattens
<1>. QED
  BY <1>2, <1>3

Begins(s, t) ==
    /\ Len(s) \in Nat /\ Len(t) \in Nat /\ Len(s) <= Len(t)
    /\ \A i \in 1 .. Len(s) : t[i] = s[i]

\* Two sequences that begin alike are flattened alike.
LEMMA FlattensPrefix ==
    ASSUME NEW s, NEW t, Begins(s, t), NEW f, Flattens(f, s), NEW g, Flattens(g, t)
    PROVE  \A i \in 1 .. Len(s) : g[i] = f[i]
<1>. DEFINE S == {n \in Nat : n \in 1 .. Len(s) => g[n] = f[n]}
<1>1. 0 \in S
  OBVIOUS
<1>2. ASSUME NEW n \in Nat, n \in S
      PROVE  n + 1 \in S
  <2>. SUFFICES ASSUME n + 1 \in 1 .. Len(s) PROVE g[n + 1] = f[n + 1]
    OBVIOUS
  <2>1. n + 1 \in 1 .. Len(t) /\ t[n + 1] = s[n + 1] /\ n + 1 - 1 = n
    BY DEF Begins
  <2>2. f[n + 1] = IF n + 1 = 1 THEN s[n + 1] ELSE f[n + 1 - 1] \o s[n + 1]
    BY FlattensAt
  <2>3. g[n + 1] = IF n + 1 = 1 THEN t[n + 1] ELSE g[n + 1 - 1] \o t[n + 1]
    BY <2>1, FlattensAt
  <2>4. n + 1 # 1 => g[n] = f[n]
    BY <1>2
  <2>. QED
    BY <2>1, <2>2, <2>3, <2>4
<1>. HIDE DEF S
<1>3. Nat \subseteq S
  BY <1>1, <1>2, SetInduction
<1>. QED
  BY <1>3 DEF S

\* A sequence more at the end is flattened last.
LEMMA FlattenSeqAppend ==
    ASSUME NEW T, NEW seqs \in Seq(Seq(T)), NEW s \in Seq(T)
    PROVE  FlattenSeq(Append(seqs, s)) = FlattenSeq(seqs) \o s
<1>. DEFINE more == Append(seqs, s)
            n == Len(seqs)
<1>1. /\ more \in Seq(Seq(T)) /\ Len(more) # 0 /\ n \in Nat /\ Len(more) = n + 1
      /\ more[n + 1] = s /\ \A i \in 1 .. n : more[i] = seqs[i]
  <2>1. more \in Seq(Seq(T)) /\ n \in Nat /\ Len(more) = n + 1
    OBVIOUS
  <2>2. more[n + 1] = s /\ \A i \in 1 .. n : more[i] = seqs[i]
    OBVIOUS
  <2>. HIDE DEF more
  <2>. QED
    BY <2>1, <2>2
<1>. HIDE DEF more
<1>2. PICK g : Flattens(g, more) /\ FlattenSeq(more) = g[n + 1]
  BY <1>1, FlattenSeqIs
<1>3. g[n + 1] = IF n + 1 = 1 THEN s ELSE g[n + 1 - 1] \o s
  BY <1>1, <1>2, FlattensAt
<1>4. CASE n = 0
  <2>1. FlattenSeq(seqs) = <<>>
    BY <1>4 DEF FlattenSeq
  <2>2. <<>> \o s = s
    OBVIOUS
  <2>. QED
    BY <1>2, <1>3, <1>4, <2>1, <2>2 DEF more
<1>5. CASE n # 0
  <2>1. Len(seqs) # 0
    BY <1>5
  <2>2. PICK f : Flattens(f, seqs) /\ FlattenSeq(seqs) = f[n]
    BY <2>1, FlattenSeqIs
  <2>3. n \in 1 .. n /\ n + 1 - 1 = n /\ n + 1 # 1
    BY <1>1, <1>5
  <2>4. Begins(seqs, more)
    BY <1>1 DEF Begins
  <2>5. Flattens(f, seqs) /\ Flattens(g, more)
    BY <1>2, <2>2
  <2>6. g[n] = f[n]
    BY <2>3, <2>4, <2>5, FlattensPrefix
  <2>. QED
    BY <1>2, <1>3, <2>2, <2>3, <2>6 DEF more
<1>. QED
  BY <1>4, <1>5


LEMMA FlattenSeqEmpty == FlattenSeq(<<>>) = <<>>
BY DEF FlattenSeq

\* The flattening of the first n, type and step.
LEMMA FlattenSeqNext ==
    ASSUME NEW T, NEW seqs \in Seq(Seq(T)), NEW n \in 1 .. Len(seqs)
    PROVE  FlattenSeq(SubSeq(seqs, 1, n)) = FlattenSeq(SubSeq(seqs, 1, n - 1)) \o seqs[n]
<1>1. SubSeq(seqs, 1, n) = Append(SubSeq(seqs, 1, n - 1), seqs[n])
  OBVIOUS
<1>2. SubSeq(seqs, 1, n - 1) \in Seq(Seq(T)) /\ seqs[n] \in Seq(T)
  OBVIOUS
<1>. QED
  BY <1>1, <1>2, FlattenSeqAppend

LEMMA FlattenSeqTyped ==
    ASSUME NEW T, NEW seqs \in Seq(Seq(T))
    PROVE  \A n \in 0 .. Len(seqs) : FlattenSeq(SubSeq(seqs, 1, n)) \in Seq(T)
<1>. DEFINE F(n) == FlattenSeq(SubSeq(seqs, 1, n))
            S == {n \in Nat : n <= Len(seqs) => F(n) \in Seq(T)}
<1>1. 0 \in S
  <2>1. SubSeq(seqs, 1, 0) = <<>>
    OBVIOUS
  <2>2. F(0) = <<>>
    BY <2>1, FlattenSeqEmpty
  <2>3. <<>> \in Seq(T)
    OBVIOUS
  <2>. QED
    BY <2>2, <2>3
<1>2. ASSUME NEW n \in Nat, n \in S
      PROVE  n + 1 \in S
  <2>. SUFFICES ASSUME n + 1 <= Len(seqs) PROVE F(n + 1) \in Seq(T)
    OBVIOUS
  <2>1. n + 1 \in 1 .. Len(seqs) /\ (n + 1) - 1 = n /\ seqs[n + 1] \in Seq(T)
    OBVIOUS
  <2>2. F(n) \in Seq(T)
    BY <1>2
  <2>3. F(n + 1) = F(n) \o seqs[n + 1]
    BY <2>1, FlattenSeqNext
  <2>4. \A s, t \in Seq(T) : s \o t \in Seq(T)
    OBVIOUS
  <2>. HIDE DEF S, F
  <2>. QED
    BY <2>1, <2>2, <2>3, <2>4
<1>. HIDE DEF S
<1>3. Nat \subseteq S
  BY <1>1, <1>2, SetInduction
<1>. QED
  BY <1>3 DEF S

LEMMA PrefixTransitive ==
    ASSUME NEW T, NEW r \in Seq(T), NEW s \in Seq(T), NEW t \in Seq(T), IsPrefix(r \o s, t)
    PROVE  IsPrefix(r, t)
<1>1. Len(r) <= Len(r \o s) /\ Len(r \o s) \in Nat /\ Len(r) \in Nat /\ Len(t) \in Nat
  OBVIOUS
<1>2. \A i \in 1 .. Len(r) : (r \o s)[i] = r[i]
  OBVIOUS
<1>. QED
  BY <1>1, <1>2 DEF IsPrefix

\* What the first n make is the beginning of what all make.
LEMMA FlattenSeqPrefix ==
    ASSUME NEW T, NEW seqs \in Seq(Seq(T))
    PROVE  \A n \in 0 .. Len(seqs) : IsPrefix(FlattenSeq(SubSeq(seqs, 1, n)), FlattenSeq(seqs))
<1>. DEFINE N == Len(seqs)
            F(n) == FlattenSeq(SubSeq(seqs, 1, n))
            S == {k \in Nat : k <= N => IsPrefix(F(N - k), F(N))}
<1>1. N \in Nat /\ F(N) = FlattenSeq(seqs)
  <2>1. SubSeq(seqs, 1, N) = seqs /\ N \in Nat
    OBVIOUS
  <2>. HIDE DEF N
  <2>. QED
    BY <2>1, Zenon
<1>2. \A n \in 0 .. N : F(n) \in Seq(T)
  BY FlattenSeqTyped
<1>3. 0 \in S
  <2>1. F(N) \in Seq(T) /\ N - 0 = N
    BY <1>1, <1>2
  <2>. HIDE DEF F, N
  <2>2. IsPrefix(F(N), F(N))
    BY <2>1 DEF IsPrefix
  <2>3. F(N - 0) = F(N)
    BY <2>1
  <2>. QED
    BY <2>2, <2>3
<1>4. ASSUME NEW k \in Nat, k \in S
      PROVE  k + 1 \in S
  <2>. SUFFICES ASSUME k + 1 <= N PROVE IsPrefix(F(N - (k + 1)), F(N))
    OBVIOUS
  <2>1. /\ N - k \in 1 .. N /\ (N - k) - 1 = N - (k + 1)
        /\ N - (k + 1) \in 0 .. N /\ N - k \in 0 .. N
    BY <1>1
  <2>6. F(N - k) = F((N - k) - 1) \o seqs[N - k]
    BY <2>1, FlattenSeqNext
  <2>7. seqs[N - k] \in Seq(T)
    BY <2>1
  <2>2. F(N - k) = F(N - (k + 1)) \o seqs[N - k] /\ seqs[N - k] \in Seq(T)
    BY <2>1, <2>6, <2>7
  <2>3. IsPrefix(F(N - k), F(N))
    BY <1>1, <1>4
  <2>4. F(N - (k + 1)) \in Seq(T) /\ F(N) \in Seq(T)
    BY <1>1, <1>2, <2>1
  <2>. HIDE DEF F, N
  <2>5. IsPrefix(F(N - (k + 1)) \o seqs[N - k], F(N))
    BY <2>2, <2>3
  <2>. QED
    BY <2>2, <2>4, <2>5, PrefixTransitive
<1>. HIDE DEF S
<1>5. Nat \subseteq S
  BY <1>3, <1>4, SetInduction
<1>. SUFFICES ASSUME NEW n \in 0 .. N PROVE IsPrefix(F(n), F(N))
  BY <1>1
<1>6. N - n \in Nat /\ N - n <= N /\ N - (N - n) = n
  BY <1>1
<1>7. N - n \in S
  BY <1>5, <1>6
<1>. QED
  BY <1>6, <1>7 DEF S

-----------------------------------------------------------------------------
(* What is written for a payload.                                          *)

\* All bytes there are in blocks.
AllBytes == UNION {{<<b, i>> : i \in 1 .. Size[b]} : b \in DOMAIN Size}

LEMMA BytesTyped ==
    ASSUME NEW b \in DOMAIN Size
    PROVE  Bytes(b) \in Seq(AllBytes) /\ Len(Bytes(b)) = Size[b] /\ Size[b] \in Nat \ {0}
<1>1. Size[b] \in Nat \ {0}
  BY BundlesAssumption DEF BundlesAssumption
<1>2. \A i \in 1 .. Size[b] : <<b, i>> \in AllBytes
  BY DEF AllBytes
<1>. QED
  BY <1>1, <1>2 DEF Bytes

EachBytes(bs) == [i \in DOMAIN bs |-> Bytes(bs[i])]

LEMMA EachBytesTyped ==
    ASSUME NEW bs \in Seq(DOMAIN Size)
    PROVE  /\ EachBytes(bs) \in Seq(Seq(AllBytes)) /\ Len(EachBytes(bs)) = Len(bs)
           /\ \A i \in 1 .. Len(bs) : EachBytes(bs)[i] = Bytes(bs[i])
           /\ \A n \in 0 .. Len(bs) : EachBytes(SubSeq(bs, 1, n)) = SubSeq(EachBytes(bs), 1, n)
<1>1. EachBytes(bs) \in Seq(Seq(AllBytes)) /\ Len(EachBytes(bs)) = Len(bs)
  BY BytesTyped DEF EachBytes
<1>2. \A i \in 1 .. Len(bs) : EachBytes(bs)[i] = Bytes(bs[i])
  BY DEF EachBytes
<1>3. ASSUME NEW n \in 0 .. Len(bs)
      PROVE  EachBytes(SubSeq(bs, 1, n)) = SubSeq(EachBytes(bs), 1, n)
  <2>. DEFINE a == SubSeq(bs, 1, n)
              c == SubSeq(EachBytes(bs), 1, n)
  <2>1. DOMAIN a = 1 .. n /\ \A i \in 1 .. n : a[i] = bs[i]
    OBVIOUS
  <2>2. c = [i \in 1 .. n |-> c[i]] /\ \A i \in 1 .. n : c[i] = EachBytes(bs)[i]
    BY <1>1
  <2>3. \A i \in 1 .. n : EachBytes(bs)[i] = Bytes(bs[i])
    BY <1>2
  <2>4. EachBytes(a) = [i \in 1 .. n |-> Bytes(a[i])]
    BY <2>1 DEF EachBytes
  <2>. HIDE DEF a, c
  <2>5. \A i \in 1 .. n : Bytes(a[i]) = c[i]
    BY <2>1, <2>2, <2>3
  <2>. QED
    BY <2>2, <2>4, <2>5 DEF a, c
<1>. QED
  BY <1>1, <1>2, <1>3

LEMMA FlattenEmpty == Flatten(<<>>) = <<>>
<1>1. [i \in DOMAIN <<>> |-> Bytes(<<>>[i])] = <<>>
  OBVIOUS
<1>. QED
  BY <1>1 DEF Flatten, FlattenSeq

LEMMA FlattenTyped ==
    ASSUME NEW bs \in Seq(DOMAIN Size)
    PROVE  /\ Flatten(bs) \in Seq(AllBytes)
           /\ \A n \in 0 .. Len(bs) : Flatten(SubSeq(bs, 1, n)) \in Seq(AllBytes)
<1>1. \A n \in 0 .. Len(bs) : Flatten(SubSeq(bs, 1, n)) = FlattenSeq(SubSeq(EachBytes(bs), 1, n))
  BY EachBytesTyped DEF Flatten, EachBytes
<1>2. SubSeq(bs, 1, Len(bs)) = bs /\ Len(bs) \in 0 .. Len(bs)
  OBVIOUS
<1>3. \A n \in 0 .. Len(bs) : Flatten(SubSeq(bs, 1, n)) \in Seq(AllBytes)
  BY <1>1, EachBytesTyped, FlattenSeqTyped
<1>. QED
  BY <1>2, <1>3

LEMMA FlattenNext ==
    ASSUME NEW bs \in Seq(DOMAIN Size), NEW n \in 1 .. Len(bs)
    PROVE  /\ Flatten(SubSeq(bs, 1, n)) = Flatten(SubSeq(bs, 1, n - 1)) \o Bytes(bs[n])
           /\ bs[n] \in DOMAIN Size
<1>1. n \in 0 .. Len(bs) /\ n - 1 \in 0 .. Len(bs)
  OBVIOUS
<1>2. /\ Flatten(SubSeq(bs, 1, n)) = FlattenSeq(SubSeq(EachBytes(bs), 1, n))
      /\ Flatten(SubSeq(bs, 1, n - 1)) = FlattenSeq(SubSeq(EachBytes(bs), 1, n - 1))
  BY <1>1, EachBytesTyped DEF Flatten, EachBytes
<1>3. EachBytes(bs)[n] = Bytes(bs[n]) /\ n \in 1 .. Len(EachBytes(bs))
  BY EachBytesTyped
<1>4. FlattenSeq(SubSeq(EachBytes(bs), 1, n))
        = FlattenSeq(SubSeq(EachBytes(bs), 1, n - 1)) \o EachBytes(bs)[n]
  BY <1>3, EachBytesTyped, FlattenSeqNext
<1>. QED
  BY <1>2, <1>3, <1>4

\* The first blocks make the beginning of what all of them make.
LEMMA FlattenPrefix ==
    ASSUME NEW bs \in Seq(DOMAIN Size)
    PROVE  \A n \in 0 .. Len(bs) : IsPrefix(Flatten(SubSeq(bs, 1, n)), Flatten(bs))
<1>1. \A n \in 0 .. Len(bs) : Flatten(SubSeq(bs, 1, n)) = FlattenSeq(SubSeq(EachBytes(bs), 1, n))
  BY EachBytesTyped DEF Flatten, EachBytes
<1>2. Flatten(bs) = FlattenSeq(EachBytes(bs))
  BY DEF Flatten, EachBytes
<1>. QED
  BY <1>1, <1>2, EachBytesTyped, FlattenSeqPrefix

-----------------------------------------------------------------------------
(* What a payload sends.                                                   *)

IsSent(p, i) == p.encoding # "dedup" \/ IsFresh(p, i)

\* f[i] is what has been sent when the first i blocks have been dealt with.
Sends(f, p) ==
    /\ f \in [0 .. Len(p.blocks) -> Seq(DOMAIN Size)]
    /\ f[0] = <<>>
    /\ \A i \in 1 .. Len(p.blocks) :
          f[i] = IF IsSent(p, i) THEN Append(f[i - 1], p.blocks[i]) ELSE f[i - 1]
    /\ Sent(p) = f[Len(p.blocks)]

SentOf(p) == CHOOSE f : Sends(f, p)

\* The function of Sent for a deduplicated payload.
Dedups(f, p, n) ==
    f = [i \in 0 .. n |->
            IF i = 0 THEN <<>>
            ELSE IF IsFresh(p, i) THEN Append(f[i - 1], p.blocks[i]) ELSE f[i - 1]]

LEMMA DedupsAt ==
    ASSUME NEW f, NEW p, NEW n, Dedups(f, p, n), NEW i \in 0 .. n
    PROVE  f[i] = IF i = 0 THEN <<>>
                  ELSE IF IsFresh(p, i) THEN Append(f[i - 1], p.blocks[i]) ELSE f[i - 1]
BY Zenon DEF Dedups

LEMMA DedupsExists ==
    ASSUME NEW p, NEW N \in Nat
    PROVE  \E f : Dedups(f, p, N)
<1>. DEFINE S == {n \in Nat : \E f : Dedups(f, p, n)}
<1>1. 0 \in S
  <2>. DEFINE f == [i \in 0 .. 0 |-> <<>>]
  <2>1. Dedups(f, p, 0)
    BY DEF Dedups
  <2>. QED
    BY <2>1
<1>2. ASSUME NEW n \in Nat, n \in S
      PROVE  n + 1 \in S
  <2>1. PICK f : Dedups(f, p, n)
    BY <1>2
  <2>. DEFINE next(s, i) == IF IsFresh(p, i) THEN Append(s, p.blocks[i]) ELSE s
              g == [i \in 0 .. n + 1 |->
                      IF i <= n THEN f[i] ELSE next(f[i - 1], i)]
  <2>2. ASSUME NEW i \in 0 .. n + 1
        PROVE  g[i] = IF i = 0 THEN <<>> ELSE next(g[i - 1], i)
    <3>1. i # 0 => i - 1 \in 0 .. n /\ g[i - 1] = f[i - 1]
      OBVIOUS
    <3>2. CASE i <= n
      <4>1. i \in 0 .. n /\ g[i] = f[i]
        BY <3>2
      <4>2. f[i] = IF i = 0 THEN <<>> ELSE next(f[i - 1], i)
        BY <2>1, <4>1, DedupsAt
      <4>. HIDE DEF g, next
      <4>. QED
        BY <3>1, <4>1, <4>2
    <3>3. CASE i = n + 1
      <4>1. i # 0 /\ g[i] = next(f[i - 1], i)
        BY <3>3
      <4>. HIDE DEF g, next
      <4>. QED
        BY <3>1, <4>1
    <3>. QED
      BY <3>2, <3>3
  <2>3. g = [i \in 0 .. n + 1 |-> g[i]]
    OBVIOUS
  <2>4. Dedups(g, p, n + 1)
    <3>. HIDE DEF g
    <3>. QED
      BY <2>2, <2>3 DEF Dedups
  <2>. HIDE DEF g
  <2>. QED
    BY <2>4
<1>. HIDE DEF S
<1>3. Nat \subseteq S
  BY <1>1, <1>2, SetInduction
<1>. QED
  BY <1>3 DEF S

LEMMA DedupsTyped ==
    ASSUME NEW p \in Payloads, NEW f, Dedups(f, p, Len(p.blocks))
    PROVE  f \in [0 .. Len(p.blocks) -> Seq(DOMAIN Size)]
<1>. DEFINE N == Len(p.blocks)
            S == {n \in Nat : n <= N => f[n] \in Seq(DOMAIN Size)}
<1>0. N \in Nat /\ \A i \in 1 .. N : p.blocks[i] \in DOMAIN Size
  BY DEF Payloads
<1>1. 0 \in S
  <2>1. f[0] = <<>>
    BY <1>0, DedupsAt
  <2>2. f[0] \in Seq(DOMAIN Size)
    BY <2>1
  <2>. QED
    BY <2>2
<1>2. ASSUME NEW n \in Nat, n \in S
      PROVE  n + 1 \in S
  <2>. SUFFICES ASSUME n + 1 <= N PROVE f[n + 1] \in Seq(DOMAIN Size)
    OBVIOUS
  <2>1. n + 1 \in 0 .. N /\ n + 1 # 0 /\ (n + 1) - 1 = n /\ n + 1 \in 1 .. N /\ n <= N
    BY <1>0
  <2>2. f[n + 1] = IF IsFresh(p, n + 1) THEN Append(f[(n + 1) - 1], p.blocks[n + 1])
                   ELSE f[(n + 1) - 1]
    BY <2>1, DedupsAt
  <2>3. f[n] \in Seq(DOMAIN Size) /\ p.blocks[n + 1] \in DOMAIN Size
    BY <1>0, <1>2, <2>1
  <2>4. Append(f[n], p.blocks[n + 1]) \in Seq(DOMAIN Size)
    BY <2>3
  <2>. HIDE DEF S, N
  <2>. QED
    BY <2>1, <2>2, <2>3, <2>4
<1>. HIDE DEF S
<1>3. Nat \subseteq S
  BY <1>1, <1>2, SetInduction
<1>4. \A i \in 0 .. N : f[i] \in Seq(DOMAIN Size)
  BY <1>0, <1>3 DEF S
<1>5. DOMAIN f = 0 .. N /\ f = [i \in 0 .. N |-> f[i]]
  <2>1. \E h : f = [i \in 0 .. N |-> h[i]]
    BY Zenon DEF Dedups
  <2>. QED
    BY <2>1
<1>. QED
  BY <1>4, <1>5

LEMMA SendsExists ==
    ASSUME NEW p \in Payloads
    PROVE  Sends(SentOf(p), p)
<1>0. p.blocks \in Seq(DOMAIN Size) /\ Len(p.blocks) \in Nat
  BY DEF Payloads
<1>. SUFFICES \E f : Sends(f, p)
  BY DEF SentOf
<1>1. CASE p.encoding # "dedup"
  <2>. DEFINE f == [i \in 0 .. Len(p.blocks) |-> SubSeq(p.blocks, 1, i)]
  <2>1. \A i \in 0 .. Len(p.blocks) : SubSeq(p.blocks, 1, i) \in Seq(DOMAIN Size)
    BY <1>0
  <2>2. f \in [0 .. Len(p.blocks) -> Seq(DOMAIN Size)] /\ f[0] = <<>>
    BY <1>0, <2>1
  <2>3. ASSUME NEW i \in 1 .. Len(p.blocks)
        PROVE  f[i] = Append(f[i - 1], p.blocks[i])
    <3>1. SubSeq(p.blocks, 1, i) = Append(SubSeq(p.blocks, 1, i - 1), p.blocks[i])
      BY <1>0
    <3>2. f[i] = SubSeq(p.blocks, 1, i) /\ f[i - 1] = SubSeq(p.blocks, 1, i - 1)
      BY <1>0
    <3>. QED
      BY <3>1, <3>2, Zenon
  <2>4. Sent(p) = f[Len(p.blocks)]
    <3>1. Sent(p) = p.blocks
      BY <1>1 DEF Sent
    <3>2. f[Len(p.blocks)] = SubSeq(p.blocks, 1, Len(p.blocks))
      BY <1>0
    <3>3. SubSeq(p.blocks, 1, Len(p.blocks)) = p.blocks
      BY <1>0
    <3>. QED
      BY <3>1, <3>2, <3>3, Zenon
  <2>. HIDE DEF f
  <2>5. Sends(f, p)
    BY <1>1, <2>2, <2>3, <2>4 DEF Sends, IsSent
  <2>. QED
    BY <2>5
<1>2. CASE p.encoding = "dedup"
  <2>. DEFINE f == CHOOSE h : Dedups(h, p, Len(p.blocks))
  <2>1. Dedups(f, p, Len(p.blocks))
    BY <1>0, DedupsExists
  <2>2. Sent(p) = f[Len(p.blocks)]
    BY <1>2, Zenon DEF Sent, Dedups
  <2>. HIDE DEF f
  <2>3. f \in [0 .. Len(p.blocks) -> Seq(DOMAIN Size)]
    BY <2>1, DedupsTyped
  <2>4. f[0] = <<>>
    BY <1>0, <2>1, DedupsAt
  <2>5. \A i \in 1 .. Len(p.blocks) :
          f[i] = IF IsSent(p, i) THEN Append(f[i - 1], p.blocks[i]) ELSE f[i - 1]
    BY <1>0, <1>2, <2>1, DedupsAt DEF IsSent
  <2>6. Sends(f, p)
    BY <2>2, <2>3, <2>4, <2>5 DEF Sends
  <2>. QED
    BY <2>6
<1>. QED
  BY <1>1, <1>2

\* What has been sent before is the beginning of what is sent.
LEMMA SendsPrefix ==
    ASSUME NEW p \in Payloads
    PROVE  LET f == SentOf(p) IN
           \A i \in 0 .. Len(p.blocks) :
              /\ Len(f[i]) <= Len(Sent(p))
              /\ f[i] = SubSeq(Sent(p), 1, Len(f[i]))
<1>. DEFINE f == SentOf(p)
            N == Len(p.blocks)
            Starts(s, t) == Len(s) <= Len(t) /\ s = SubSeq(t, 1, Len(s))
            S == {n \in Nat : n <= N => \A i \in 0 .. n : Starts(f[i], f[n])}
<1>1. Sends(f, p) /\ N \in Nat /\ p.blocks \in Seq(DOMAIN Size)
  BY SendsExists DEF Payloads
<1>2. \A i \in 0 .. N : f[i] \in Seq(DOMAIN Size)
  BY <1>1 DEF Sends
<1>. HIDE DEF f
<1>3. \A s \in Seq(DOMAIN Size) : Starts(s, s)
  OBVIOUS
<1>4. 0 \in S
  BY <1>1, <1>2, <1>3
<1>5. ASSUME NEW n \in Nat, n \in S
      PROVE  n + 1 \in S
  <2>. SUFFICES ASSUME n + 1 <= N, NEW i \in 0 .. n + 1 PROVE Starts(f[i], f[n + 1])
    OBVIOUS
  <2>1. n + 1 \in 1 .. N /\ n \in 0 .. N /\ n + 1 \in 0 .. N /\ (n + 1) - 1 = n
    BY <1>1
  <2>2. f[n + 1] = IF IsSent(p, n + 1) THEN Append(f[n], p.blocks[n + 1]) ELSE f[n]
    BY <1>1, <2>1 DEF Sends
  <2>3. f[n] \in Seq(DOMAIN Size) /\ f[n + 1] \in Seq(DOMAIN Size) /\ f[i] \in Seq(DOMAIN Size)
    BY <1>2, <2>1
  <2>4. CASE i = n + 1
    <3>. HIDE DEF Starts
    <3>. QED
      BY <1>3, <2>3, <2>4
  <2>5. CASE i # n + 1
    <3>1. Starts(f[i], f[n])
      BY <1>5, <2>1, <2>5
    <3>2. \A s, t \in Seq(DOMAIN Size), e \in DOMAIN Size : Starts(s, t) => Starts(s, Append(t, e))
      OBVIOUS
    <3>3. p.blocks[n + 1] \in DOMAIN Size
      BY <1>1, <2>1
    <3>. HIDE DEF Starts
    <3>. QED
      BY <2>2, <2>3, <3>1, <3>2, <3>3
  <2>. QED
    BY <2>4, <2>5
<1>. HIDE DEF S
<1>6. Nat \subseteq S
  BY <1>4, <1>5, SetInduction
<1>7. \A i \in 0 .. N : Starts(f[i], f[N])
  BY <1>1, <1>6 DEF S
<1>8. f[N] = Sent(p)
  BY <1>1 DEF Sends
<1>. QED
  BY <1>7, <1>8 DEF f

\* Bytes sent for the first i blocks of a payload, and for all of them.
Spent(p, i) == Len(Flatten(SentOf(p)[i]))
Total(p) == Len(Flatten(Sent(p)))

LEMMA SentTyped ==
    ASSUME NEW p \in Payloads
    PROVE  /\ Sent(p) \in Seq(DOMAIN Size) /\ Total(p) \in Nat
           /\ SentOf(p)[0] = <<>> /\ SentOf(p)[Len(p.blocks)] = Sent(p)
           /\ Spent(p, 0) = 0 /\ Spent(p, Len(p.blocks)) = Total(p)
<1>1. Sends(SentOf(p), p) /\ Len(p.blocks) \in 0 .. Len(p.blocks)
  BY SendsExists DEF Payloads
<1>2. Sent(p) \in Seq(DOMAIN Size)
  BY <1>1 DEF Sends
<1>3. Flatten(Sent(p)) \in Seq(AllBytes)
  BY <1>2, FlattenTyped
<1>4. SentOf(p)[0] = <<>> /\ SentOf(p)[Len(p.blocks)] = Sent(p)
  BY <1>1 DEF Sends
<1>. QED
  BY <1>2, <1>3, <1>4, FlattenEmpty DEF Spent, Total

LEMMA SpentTyped ==
    ASSUME NEW p \in Payloads, NEW i \in 0 .. Len(p.blocks)
    PROVE  /\ SentOf(p)[i] \in Seq(DOMAIN Size)
           /\ Spent(p, i) \in Nat /\ Spent(p, i) <= Total(p)
<1>. DEFINE s == SentOf(p)[i]
<1>1. s \in Seq(DOMAIN Size) /\ Len(s) <= Len(Sent(p)) /\ s = SubSeq(Sent(p), 1, Len(s))
  BY SendsExists, SendsPrefix DEF Sends
<1>2. Sent(p) \in Seq(DOMAIN Size)
  BY SentTyped
<1>. HIDE DEF s
<1>3. Len(s) \in 0 .. Len(Sent(p))
  BY <1>1, <1>2
<1>4. IsPrefix(Flatten(s), Flatten(Sent(p)))
  BY <1>1, <1>2, <1>3, FlattenPrefix
<1>5. Flatten(s) \in Seq(AllBytes)
  BY <1>1, FlattenTyped
<1>. QED
  BY <1>1, <1>4, <1>5 DEF s, Spent, Total, IsPrefix

\* A block that is sent comes right after what has been sent before.
LEMMA SentNext ==
    ASSUME NEW p \in Payloads, NEW i \in 1 .. Len(p.blocks)
    PROVE  LET f == SentOf(p)
               n == Len(f[i - 1])
           IN  /\ n \in Nat /\ p.blocks[i] \in DOMAIN Size
               /\ ~IsSent(p, i) => f[i] = f[i - 1] /\ Spent(p, i) = Spent(p, i - 1)
               /\ IsSent(p, i) => /\ n + 1 \in 1 .. Len(Sent(p)) /\ Sent(p)[n + 1] = p.blocks[i]
                                  /\ f[i] = Append(f[i - 1], p.blocks[i]) /\ Len(f[i]) = n + 1
                                  /\ Spent(p, i) = Spent(p, i - 1) + Size[p.blocks[i]]
                                  /\ Flatten(f[i]) = Flatten(f[i - 1]) \o Bytes(p.blocks[i])
<1>. DEFINE f == SentOf(p)
            before == f[i - 1]
            n == Len(before)
            b == p.blocks[i]
<1>1. i - 1 \in 0 .. Len(p.blocks) /\ i \in 0 .. Len(p.blocks) /\ b \in DOMAIN Size
  BY DEF Payloads
<1>2. before \in Seq(DOMAIN Size) /\ f[i] \in Seq(DOMAIN Size) /\ Sent(p) \in Seq(DOMAIN Size)
  BY <1>1, SpentTyped, SentTyped
<1>3. f[i] = IF IsSent(p, i) THEN Append(before, b) ELSE before
  BY SendsExists DEF Sends
<1>4. Len(f[i]) <= Len(Sent(p)) /\ f[i] = SubSeq(Sent(p), 1, Len(f[i]))
  BY <1>1, SendsPrefix
<1>5. CASE ~IsSent(p, i)
  BY <1>1, <1>2, <1>3, <1>5 DEF Spent
<1>6. CASE IsSent(p, i)
  <2>. DEFINE s == f[i]
  <2>1. s = Append(before, b) /\ s \in Seq(DOMAIN Size)
    BY <1>2, <1>3, <1>6
  <2>2. Len(s) <= Len(Sent(p)) /\ s = SubSeq(Sent(p), 1, Len(s))
    BY <1>4
  <2>3. \A t \in Seq(DOMAIN Size) :
           Len(s) <= Len(t) /\ s = SubSeq(t, 1, Len(s)) => \A j \in 1 .. Len(s) : s[j] = t[j]
    BY <2>1
  <2>. HIDE DEF s, f, b, before
  <2>4. Len(s) = n + 1 /\ s[n + 1] = b /\ SubSeq(s, 1, n) = before /\ n \in Nat
        /\ n + 1 \in 1 .. Len(s) /\ SubSeq(s, 1, n + 1) = s
    BY <1>1, <1>2, <2>1
  <2>5. n + 1 \in 1 .. Len(Sent(p)) /\ Sent(p)[n + 1] = b
    BY <1>2, <2>2, <2>3, <2>4
  <2>6. Flatten(SubSeq(s, 1, n + 1)) = Flatten(SubSeq(s, 1, (n + 1) - 1)) \o Bytes(s[n + 1])
    BY <2>1, <2>4, FlattenNext
  <2>7. Flatten(s) = Flatten(before) \o Bytes(b)
    <3>1. (n + 1) - 1 = n
      BY <2>4
    <3>. QED
      BY <2>4, <2>6, <3>1
  <2>8. /\ Flatten(before) \in Seq(AllBytes) /\ Bytes(b) \in Seq(AllBytes)
        /\ Len(Bytes(b)) = Size[b]
    BY <1>1, <1>2, FlattenTyped, BytesTyped
  <2>9. Len(Flatten(s)) = Len(Flatten(before)) + Size[b]
    <3>1. \A x, y \in Seq(AllBytes) : Len(x \o y) = Len(x) + Len(y)
      OBVIOUS
    <3>. QED
      BY <2>7, <2>8, <3>1
  <2>. QED
    BY <1>1, <1>6, <2>1, <2>4, <2>5, <2>7, <2>9 DEF s, f, b, before, Spent
<1>. QED
  BY <1>5, <1>6

-----------------------------------------------------------------------------
(* The layout of a bundle.                                                 *)

Cells == AllBytes \cup {Frame(kind, i) : kind \in {"header", "start", "end"}, i \in Nat}
Part(ps, i) ==
    <<Frame("start", i), Frame("header", i)>> \o Flatten(Sent(ps[i])) \o <<Frame("end", i)>>
Parts(ps) == [i \in DOMAIN ps |-> Part(ps, i)]

LEMMA PartsTyped ==
    ASSUME NEW ps \in Seq(Payloads)
    PROVE  /\ Parts(ps) \in Seq(Seq(Cells)) /\ Len(Parts(ps)) = Len(ps)
           /\ \A i \in 1 .. Len(ps) :
                /\ Parts(ps)[i] = Part(ps, i) /\ Part(ps, i) \in Seq(Cells)
                /\ Len(Part(ps, i)) = Total(ps[i]) + 3
                /\ Part(ps, i)[1] = Frame("start", i)
           /\ \A n \in 0 .. Len(ps) : Parts(SubSeq(ps, 1, n)) = SubSeq(Parts(ps), 1, n)
<1>1. ASSUME NEW i \in 1 .. Len(ps)
      PROVE  /\ Part(ps, i) \in Seq(Cells) /\ Len(Part(ps, i)) = Total(ps[i]) + 3
             /\ Part(ps, i)[1] = Frame("start", i)
  <2>. DEFINE bytes == Flatten(Sent(ps[i]))
  <2>1. ps[i] \in Payloads
    OBVIOUS
  <2>2. Sent(ps[i]) \in Seq(DOMAIN Size)
    BY <2>1, SentTyped
  <2>3. bytes \in Seq(AllBytes)
    BY <2>2, FlattenTyped
  <2>4. bytes \in Seq(Cells)
    BY <2>3 DEF Cells
  <2>5. /\ Frame("start", i) \in Cells /\ Frame("header", i) \in Cells /\ Frame("end", i) \in Cells
    BY DEF Cells
  <2>6. \A s \in Seq(Cells), x, y, z \in Cells :
          /\ <<x, y>> \o s \o <<z>> \in Seq(Cells) /\ Len(<<x, y>> \o s \o <<z>>) = Len(s) + 3
          /\ (<<x, y>> \o s \o <<z>>)[1] = x
    OBVIOUS
  <2>. HIDE DEF bytes
  <2>. QED
    BY <2>4, <2>5, <2>6 DEF Part, Total, bytes
<1>2. Parts(ps) \in Seq(Seq(Cells)) /\ Len(Parts(ps)) = Len(ps)
  <2>1. Parts(ps) = [i \in 1 .. Len(ps) |-> Part(ps, i)] /\ Len(ps) \in Nat
    BY DEF Parts
  <2>. QED
    BY <1>1, <2>1
<1>3. \A i \in 1 .. Len(ps) : Parts(ps)[i] = Part(ps, i)
  BY DEF Parts
<1>4. ASSUME NEW n \in 0 .. Len(ps)
      PROVE  Parts(SubSeq(ps, 1, n)) = SubSeq(Parts(ps), 1, n)
  <2>. DEFINE a == SubSeq(ps, 1, n)
              c == SubSeq(Parts(ps), 1, n)
  <2>1. DOMAIN a = 1 .. n /\ \A i \in 1 .. n : a[i] = ps[i]
    OBVIOUS
  <2>2. c = [i \in 1 .. n |-> c[i]] /\ \A i \in 1 .. n : c[i] = Parts(ps)[i]
    BY <1>2
  <2>3. \A i \in 1 .. n : Parts(ps)[i] = Part(ps, i)
    BY <1>3
  <2>4. Parts(a) = [i \in 1 .. n |-> Part(a, i)]
    BY <2>1 DEF Parts
  <2>. HIDE DEF a, c
  <2>5. \A i \in 1 .. n : Part(a, i) = c[i]
    BY <2>1, <2>2, <2>3 DEF Part
  <2>. QED
    BY <2>2, <2>4, <2>5 DEF a, c
<1>. QED
  BY <1>1, <1>2, <1>3, <1>4

\* What comes before the n-th payload's end, and where it ends.
Until(ps, n) == Layout(SubSeq(ps, 1, n))
EndOf(ps, n) == Len(Until(ps, n))

LEMMA LayoutAt ==
    ASSUME NEW ps \in Seq(Payloads)
    PROVE  /\ \A n \in 0 .. Len(ps) :
                Until(ps, n) \in Seq(Cells) /\ EndOf(ps, n) \in Nat /\ IsPrefix(Until(ps, n), Layout(ps))
           /\ EndOf(ps, 0) = 1 /\ Layout(ps) = Until(ps, Len(ps)) /\ Len(ps) \in Nat
           /\ \A n \in 1 .. Len(ps) :
                /\ Until(ps, n) = Until(ps, n - 1) \o Part(ps, n)
                /\ EndOf(ps, n) = EndOf(ps, n - 1) + Total(ps[n]) + 3
<1>. DEFINE head == <<Frame("header", 0)>>
            F(n) == FlattenSeq(SubSeq(Parts(ps), 1, n))
<1>1. /\ Parts(ps) \in Seq(Seq(Cells)) /\ Len(Parts(ps)) = Len(ps) /\ Len(ps) \in Nat
      /\ SubSeq(ps, 1, Len(ps)) = ps
  BY PartsTyped
<1>2. \A n \in 0 .. Len(ps) : F(n) \in Seq(Cells) /\ IsPrefix(F(n), FlattenSeq(Parts(ps)))
  BY <1>1, FlattenSeqTyped, FlattenSeqPrefix
<1>3. head \in Seq(Cells)
  BY DEF Cells
<1>4. ASSUME NEW n \in 0 .. Len(ps) PROVE Until(ps, n) = head \o F(n)
  <2>1. Parts(SubSeq(ps, 1, n)) = SubSeq(Parts(ps), 1, n)
    BY PartsTyped
  <2>. QED
    BY <2>1 DEF Until, Layout, Parts, Part
<1>5. Layout(ps) = head \o FlattenSeq(Parts(ps)) /\ FlattenSeq(Parts(ps)) \in Seq(Cells)
  <2>1. SubSeq(Parts(ps), 1, Len(ps)) = Parts(ps) /\ Len(ps) \in 0 .. Len(ps)
    BY <1>1
  <2>2. FlattenSeq(Parts(ps)) \in Seq(Cells)
    BY <1>2, <2>1
  <2>. QED
    BY <2>2 DEF Layout, Parts, Part
<1>6. ASSUME NEW n \in 1 .. Len(ps) PROVE F(n) = F(n - 1) \o Part(ps, n)
  <2>1. n \in 1 .. Len(Parts(ps)) /\ Parts(ps)[n] = Part(ps, n)
    BY <1>1, PartsTyped
  <2>. QED
    BY <1>1, <2>1, FlattenSeqNext
<1>7. F(0) = <<>>
  <2>1. SubSeq(Parts(ps), 1, 0) = <<>>
    BY <1>1
  <2>. QED
    BY <2>1, FlattenSeqEmpty
<1>. HIDE DEF F, head
<1>8. \A s, t \in Seq(Cells) : IsPrefix(s, t) => IsPrefix(head \o s, head \o t)
  BY <1>3 DEF IsPrefix
<1>9. \A n \in 0 .. Len(ps) :
         Until(ps, n) \in Seq(Cells) /\ EndOf(ps, n) \in Nat /\ IsPrefix(Until(ps, n), Layout(ps))
  <2>. SUFFICES ASSUME NEW n \in 0 .. Len(ps)
                PROVE  /\ Until(ps, n) \in Seq(Cells) /\ EndOf(ps, n) \in Nat
                       /\ IsPrefix(Until(ps, n), Layout(ps))
    OBVIOUS
  <2>1. F(n) \in Seq(Cells) /\ IsPrefix(F(n), FlattenSeq(Parts(ps))) /\ Until(ps, n) = head \o F(n)
    BY <1>2, <1>4
  <2>2. Until(ps, n) \in Seq(Cells)
    BY <1>3, <2>1
  <2>3. IsPrefix(Until(ps, n), Layout(ps))
    BY <1>5, <1>8, <2>1, Zenon
  <2>. QED
    BY <2>2, <2>3 DEF EndOf
<1>10. EndOf(ps, 0) = 1
  <2>1. Until(ps, 0) = head \o <<>> /\ Len(head \o <<>>) = 1
    BY <1>1, <1>4, <1>7 DEF head
  <2>. QED
    BY <2>1 DEF EndOf
<1>11. Layout(ps) = Until(ps, Len(ps))
  BY <1>1 DEF Until
<1>12. ASSUME NEW n \in 1 .. Len(ps)
       PROVE  /\ Until(ps, n) = Until(ps, n - 1) \o Part(ps, n)
              /\ EndOf(ps, n) = EndOf(ps, n - 1) + Total(ps[n]) + 3
  <2>1. n \in 0 .. Len(ps) /\ n - 1 \in 0 .. Len(ps)
    OBVIOUS
  <2>2. F(n - 1) \in Seq(Cells) /\ Part(ps, n) \in Seq(Cells) /\ Len(Part(ps, n)) = Total(ps[n]) + 3
    BY <1>2, <2>1, PartsTyped
  <2>3. \A s, t \in Seq(Cells) : head \o (s \o t) = (head \o s) \o t
    BY <1>3
  <2>4. Until(ps, n) = Until(ps, n - 1) \o Part(ps, n)
    <3>1. Until(ps, n) = head \o F(n) /\ Until(ps, n - 1) = head \o F(n - 1)
      BY <1>4, <2>1
    <3>2. F(n) = F(n - 1) \o Part(ps, n)
      BY <1>6
    <3>. QED
      BY <2>2, <2>3, <3>1, <3>2, Zenon
  <2>5. Until(ps, n - 1) \in Seq(Cells)
    BY <1>9, <2>1
  <2>6. ps[n] \in Payloads /\ Total(ps[n]) \in Nat
    BY SentTyped
  <2>7. \A s, t \in Seq(Cells) : Len(s \o t) = Len(s) + Len(t) /\ Len(s) \in Nat
    OBVIOUS
  <2>8. Len(Until(ps, n)) = Len(Until(ps, n - 1)) + Len(Part(ps, n))
    BY <2>2, <2>4, <2>5, <2>7
  <2>9. Len(Until(ps, n - 1)) \in Nat
    BY <2>5
  <2>. QED
    BY <2>2, <2>4, <2>6, <2>8, <2>9 DEF EndOf
<1>. QED
  BY <1>1, <1>9, <1>10, <1>11, <1>12

\* Where the reader is in the bundle.
ReaderInv ==
    /\ bundle \in Seq(Payloads)
    /\ stage \in {"any", "header", "start", "block", "data", "raw", "end", "done", "failed"}
    /\ stage \in {"start", "block", "data", "raw", "end"} => payload \in 1 .. Len(bundle)
    /\ stage = "header" => payload \in 0 .. Len(bundle)

\* The target has been given the blocks before the one that comes next, whole.
WrittenInv ==
    /\ stage \in {"block", "data"} =>
        /\ block \in 1 .. Len(Payload.blocks) + 1
        /\ target = Flatten(SubSeq(Payload.blocks, 1, block - 1))
    /\ stage = "data" => block <= Len(Payload.blocks)

LEMMA PayloadTyped ==
    ASSUME ReaderInv, payload \in 1 .. Len(bundle)
    PROVE  /\ Payload \in Payloads /\ Payload.blocks \in Seq(DOMAIN Size)
           /\ Len(Payload.blocks) \in Nat
<1>1. Payload \in Payloads
  BY DEF ReaderInv, Payload
<1>. QED
  BY <1>1 DEF Payloads

LEMMA ReaderInit == Init => ReaderInv /\ WrittenInv
<1>. SUFFICES ASSUME Init PROVE ReaderInv /\ WrittenInv
  OBVIOUS
<1>1. bundle \in Seq(Payloads)
  <2>1. CASE bundle \in Bundles
    BY <2>1, BundlesAssumption DEF BundlesAssumption
  <2>2. CASE bundle = <<>>
    BY <2>2
  <2>. QED
    BY <2>1, <2>2 DEF Init, InitReader, InitAny
<1>2. stage \in {"any", "header"} /\ payload = 0
  BY DEF Init, InitReader, InitAny
<1>. QED
  BY <1>1, <1>2 DEF ReaderInv, WrittenInv

LEMMA ReaderStepInv ==
    ASSUME ReaderInv, [Next]_allVars
    PROVE  ReaderInv'
<1>. USE DEF ReaderInv, SameBundle, SamePlace, Stage, Fail, NextPayload, Ready
<1>1. CASE Exact \/ TakeData \/ ReadRaw \/ WriteRaw \/ TakeFailure \/ PayloadStart \/ BadFrame
  BY <1>1 DEF Exact, TakeData, ReadRaw, WriteRaw, TakeFailure, PayloadStart, BadFrame, reader
<1>2. CASE StartBundle \/ SkipPayload \/ StartPayload \/ EndPayload
  BY <1>2 DEF StartBundle, SkipPayload, StartPayload, EndPayload
<1>3. CASE UseStored \/ StoredUnreadable \/ Download \/ Downloaded \/ Again \/ Decoded
  BY <1>3 DEF UseStored, StoredUnreadable, Download, Downloaded, Again, Decoded, Local,
     MoreBlocks
<1>4. CASE UNCHANGED reader
  BY <1>4 DEF reader
<1>. QED
  BY <1>1, <1>2, <1>3, <1>4 DEF Next, ReaderStep, InSource, Anybody, allVars

\* A whole block more is written.
LEMMA WrittenMore ==
    ASSUME ReaderInv, WrittenInv, stage \in {"block", "data"}, stage' = "block",
           block <= Len(Payload.blocks), Put(Bytes(Hash)), UNCHANGED <<bundle, payload>>
    PROVE  WrittenInv'
<1>1. Payload' = Payload /\ Payload.blocks \in Seq(DOMAIN Size) /\ Len(Payload.blocks) \in Nat
  BY PayloadTyped DEF Payload, ReaderInv
<1>2. block \in 1 .. Len(Payload.blocks) /\ block' = block + 1 /\ block' - 1 = block
  BY <1>1 DEF WrittenInv, Put
<1>3. target' = Flatten(SubSeq(Payload.blocks, 1, block))
  BY <1>1, <1>2, FlattenNext DEF WrittenInv, Put, Hash
<1>. QED
  BY <1>1, <1>2, <1>3 DEF WrittenInv

LEMMA WrittenStep ==
    ASSUME ReaderInv, WrittenInv, [Next]_allVars
    PROVE  WrittenInv'
<1>. USE DEF SameBundle, SamePlace, SameTarget, Stage, Ready
<1>1. CASE stage' \notin {"block", "data"}
  BY <1>1 DEF WrittenInv
<1>2. CASE StartPayload /\ stage' = "block"
  <2>1. block' = 1 /\ target' = <<>> /\ payload' = payload /\ bundle' = bundle
        /\ payload \in 1 .. Len(bundle)
    BY <1>2 DEF StartPayload, Fail, ReaderInv
  <2>2. Payload' = Payload /\ Payload.blocks \in Seq(DOMAIN Size) /\ Len(Payload.blocks) \in Nat
    BY <2>1, PayloadTyped DEF Payload
  <2>3. SubSeq(Payload.blocks, 1, 0) = <<>>
    BY <2>2
  <2>4. block' - 1 = 0 /\ block' \in 1 .. Len(Payload'.blocks) + 1
    BY <2>1, <2>2
  <2>5. target' = Flatten(SubSeq(Payload'.blocks, 1, block' - 1))
    BY <2>1, <2>2, <2>3, <2>4, FlattenEmpty
  <2>. QED
    BY <1>2, <2>4, <2>5 DEF WrittenInv
<1>3. CASE UseStored
  BY <1>3, WrittenMore DEF UseStored, Local, MoreBlocks
<1>4. CASE Download
  BY <1>4 DEF Download, MoreBlocks, WrittenInv, Payload
<1>5. CASE Downloaded /\ stage' = "block"
  <2>1. buffer = Bytes(Hash) /\ Put(buffer) /\ stage = "data" /\ UNCHANGED <<bundle, payload>>
    BY <1>5 DEF Downloaded, Fail
  <2>. QED
    BY <1>5, <2>1, WrittenMore DEF WrittenInv
<1>6. CASE Again /\ stage' = "block"
  <2>1. /\ Put(Bytes(Hash)) /\ UNCHANGED <<bundle, payload>>
        /\ stage = "block" /\ block <= Len(Payload.blocks)
    BY <1>6 DEF Again, MoreBlocks, Fail
  <2>. QED
    BY <1>6, <2>1, WrittenMore
<1>7. CASE UNCHANGED <<bundle, payload, block, target, stage>>
  BY <1>7 DEF WrittenInv, Payload
<1>. QED
  BY <1>1, <1>2, <1>3, <1>4, <1>5, <1>6, <1>7 DEF Next, ReaderStep, InSource, Anybody, allVars,
     reader, Exact, TakeData, ReadRaw, WriteRaw, TakeFailure, PayloadStart, BadFrame,
     StartBundle, SkipPayload, StartPayload, EndPayload, StoredUnreadable, Downloaded, Again,
     Decoded, Fail, NextPayload

\* Whatever the slots hold, whatever the server sends and wherever transfers break, the
\* target is never given a byte that is not the payload's at its place.
THEOREM TargetAlwaysPrefix == Spec => []TargetIsPrefix
<1>1. ASSUME ReaderInv, WrittenInv, stage \in {"block", "data"}
      PROVE  IsPrefix(target, Flatten(Payload.blocks))
  <2>1. Payload.blocks \in Seq(DOMAIN Size) /\ Len(Payload.blocks) \in Nat
    BY <1>1, PayloadTyped DEF ReaderInv
  <2>2. block - 1 \in 0 .. Len(Payload.blocks)
    BY <1>1, <2>1 DEF WrittenInv
  <2>. QED
    BY <1>1, <2>1, <2>2, FlattenPrefix DEF WrittenInv
<1>2. ReaderInv /\ WrittenInv => TargetIsPrefix
  BY <1>1 DEF TargetIsPrefix
<1>. QED
  BY <1>2, ReaderInit, ReaderStepInv, WrittenStep, PTL DEF Spec
-----------------------------------------------------------------------------
(* Blocks and their sizes.                                                 *)

\* The reader and the block index of the payload stand at the same block.
AccountInv ==
    /\ stage \in {"block", "data"} =>
        /\ Payload.encoding # "raw"
        /\ remaining_data = Total(Payload) - Spent(Payload, block - 1)
        /\ next_size_idx = Len(SentOf(Payload)[IF stage = "data" THEN block ELSE block - 1]) + 1
    /\ stage = "data" => FromSource

LEMMA BlockSizeIs ==
    ASSUME ReaderInv, WrittenInv, AccountInv, stage = "block", block <= Len(Payload.blocks),
           FromSource
    PROVE  BlockSize = Size[Hash] /\ BlockSize \in Nat \ {0}
<1>1. Payload \in Payloads /\ block \in 1 .. Len(Payload.blocks)
  BY PayloadTyped DEF ReaderInv, WrittenInv
<1>2. IsSent(Payload, block) /\ Hash = Payload.blocks[block]
  BY DEF FromSource, IsSent, AccountInv, Hash
<1>3. block \in 0 .. Len(Payload.blocks) /\ block - 1 \in 0 .. Len(Payload.blocks)
  BY <1>1
<1>4. /\ Hash \in DOMAIN Size /\ Sent(Payload)[next_size_idx] = Hash
      /\ Spent(Payload, block) = Spent(Payload, block - 1) + Size[Hash]
  BY <1>1, <1>2, SentNext DEF AccountInv
<1>5. /\ Spent(Payload, block) <= Total(Payload) /\ Total(Payload) \in Nat
      /\ Spent(Payload, block - 1) \in Nat
  BY <1>1, <1>3, SpentTyped, SentTyped
<1>6. Size[Hash] \in Nat \ {0}
  BY <1>4, BytesTyped
<1>7. Size[Hash] <= remaining_data /\ remaining_data \in Nat
  BY <1>4, <1>5, <1>6 DEF AccountInv
<1>. QED
  BY <1>4, <1>6, <1>7 DEF BlockSize

LEMMA AccountInit == Init => AccountInv
BY DEF Init, InitReader, InitAny, AccountInv

LEMMA AccountStep ==
    ASSUME ReaderInv, WrittenInv, AccountInv, [Next]_allVars
    PROVE  AccountInv'
<1>. USE DEF SameBundle, SamePlace, SameTarget, Stage, Ready
<1>1. CASE stage' \notin {"block", "data"}
  BY <1>1 DEF AccountInv
<1>2. CASE StartPayload /\ stage' = "block"
  <2>1. /\ block' = 1 /\ next_size_idx' = 1 /\ payload' = payload /\ bundle' = bundle
        /\ payload \in 1 .. Len(bundle) /\ Payload.encoding # "raw"
        /\ remaining_data' = Len(Flatten(Sent(Payload)))
    BY <1>2 DEF StartPayload, Fail, ReaderInv
  <2>2. Payload' = Payload /\ Payload \in Payloads
    BY <2>1, PayloadTyped DEF Payload
  <2>3. Spent(Payload, 0) = 0 /\ Len(SentOf(Payload)[0]) = 0 /\ Total(Payload) \in Nat
    BY <2>2, SentTyped
  <2>4. block' - 1 = 0
    BY <2>1
  <2>. QED
    BY <1>2, <2>1, <2>2, <2>3, <2>4 DEF AccountInv, Total
<1>3. ASSUME stage \in {"block", "data"}, block <= Len(Payload.blocks)
      PROVE  /\ Payload \in Payloads /\ block \in 1 .. Len(Payload.blocks)
             /\ Payload.encoding # "raw" /\ (FromSource <=> IsSent(Payload, block))
             /\ Hash = Payload.blocks[block] /\ Size[Hash] \in Nat
             /\ Len(Bytes(Hash)) = Size[Hash]
             /\ Total(Payload) \in Nat /\ Spent(Payload, block - 1) \in Nat
             /\ Len(SentOf(Payload)[block - 1]) \in Nat
  <2>1. Payload \in Payloads /\ block \in 1 .. Len(Payload.blocks)
    BY <1>3, PayloadTyped DEF ReaderInv, WrittenInv
  <2>2. Payload.encoding # "raw" /\ Payload.encoding \in {"raw", "blocks", "dedup"}
    BY <1>3, <2>1 DEF AccountInv, Payloads
  <2>3. block - 1 \in 0 .. Len(Payload.blocks)
    BY <2>1
  <2>. QED
    BY <2>1, <2>2, <2>3, SentNext, SentTyped, SpentTyped, BytesTyped DEF FromSource, IsSent, Hash
<1>4. CASE UseStored
  <2>1. /\ stage = "block" /\ block <= Len(Payload.blocks) /\ FromSource /\ stage' = "block"
        /\ remaining_data' = remaining_data - BlockSize /\ next_size_idx' = next_size_idx + 1
        /\ block' = block + 1 /\ UNCHANGED <<bundle, payload>>
    BY <1>4 DEF UseStored, Local, MoreBlocks, Put
  <2>2. Payload' = Payload /\ block' - 1 = block
    BY <1>3, <2>1 DEF Payload
  <2>3. BlockSize = Size[Hash]
    BY <2>1, BlockSizeIs
  <2>4. /\ Spent(Payload, block) = Spent(Payload, block - 1) + Size[Hash]
        /\ Len(SentOf(Payload)[block]) = Len(SentOf(Payload)[block - 1]) + 1
    BY <1>3, <2>1, SentNext, ZenonT(30)
  <2>5. /\ Total(Payload) \in Nat /\ Spent(Payload, block - 1) \in Nat /\ Size[Hash] \in Nat
        /\ Payload.encoding # "raw"
    BY <1>3, <2>1
  <2>6. /\ remaining_data = Total(Payload) - Spent(Payload, block - 1)
        /\ next_size_idx = Len(SentOf(Payload)[block - 1]) + 1
    BY <2>1 DEF AccountInv
  <2>7. remaining_data' = Total(Payload) - Spent(Payload, block)
    BY <2>1, <2>3, <2>4, <2>5, <2>6
  <2>. QED
    BY <2>1, <2>2, <2>4, <2>5, <2>6, <2>7 DEF AccountInv
<1>5. CASE Download
  <2>1. /\ stage = "block" /\ block <= Len(Payload.blocks) /\ FromSource /\ stage' = "data"
        /\ next_size_idx' = next_size_idx + 1
        /\ UNCHANGED <<bundle, payload, block, remaining_data>>
    BY <1>5 DEF Download, MoreBlocks
  <2>2. Payload' = Payload /\ FromSource'
    BY <2>1 DEF Payload, FromSource, IsFresh
  <2>3. Len(SentOf(Payload)[block]) = Len(SentOf(Payload)[block - 1]) + 1
    BY <1>3, <2>1, SentNext
  <2>. QED
    BY <1>3, <2>1, <2>2, <2>3 DEF AccountInv
<1>6. CASE Downloaded /\ stage' = "block"
  <2>1. /\ buffer = Bytes(Hash) /\ stage = "data" /\ remaining_data' = remaining_data - Len(buffer)
        /\ block' = block + 1 /\ UNCHANGED <<bundle, payload, next_size_idx>>
    BY <1>6 DEF Downloaded, Fail, Put
  <2>2. block <= Len(Payload.blocks)
    BY <2>1 DEF WrittenInv
  <2>3. Payload' = Payload /\ block' - 1 = block /\ FromSource
    BY <1>3, <2>1, <2>2 DEF Payload, AccountInv
  <2>4. Spent(Payload, block) = Spent(Payload, block - 1) + Size[Hash] /\ Len(buffer) = Size[Hash]
    BY <1>3, <2>1, <2>2, <2>3, SentNext, ZenonT(30)
  <2>. QED
    BY <1>3, <1>6, <2>1, <2>2, <2>3, <2>4 DEF AccountInv
<1>7. CASE Again /\ stage' = "block"
  <2>1. /\ stage = "block" /\ block <= Len(Payload.blocks) /\ ~FromSource
        /\ block' = block + 1 /\ UNCHANGED <<bundle, payload, next_size_idx, remaining_data>>
    BY <1>7 DEF Again, MoreBlocks, Fail, Put
  <2>2. Payload' = Payload /\ block' - 1 = block
    BY <1>3, <2>1 DEF Payload
  <2>3. /\ Spent(Payload, block) = Spent(Payload, block - 1)
        /\ SentOf(Payload)[block] = SentOf(Payload)[block - 1]
    BY <1>3, <2>1, SentNext
  <2>. QED
    BY <1>3, <1>7, <2>1, <2>2, <2>3 DEF AccountInv
<1>8. CASE UNCHANGED <<bundle, payload, block, remaining_data, next_size_idx, stage>>
  BY <1>8 DEF AccountInv, Payload, FromSource, IsFresh
<1>. QED
  BY <1>1, <1>2, <1>4, <1>5, <1>6, <1>7, <1>8 DEF Next, ReaderStep, InSource, Anybody, allVars,
     reader, Exact, TakeData, ReadRaw, WriteRaw, TakeFailure, PayloadStart, BadFrame,
     StartBundle, SkipPayload, StartPayload, EndPayload, StoredUnreadable, Downloaded, Again,
     Decoded, Fail, NextPayload
-----------------------------------------------------------------------------
(* The source as the reader uses it.  The reader does not look at the      *)
(* result of the read of a start frame: it goes on after a failure, which  *)
(* the trait promises nothing about.  Nothing has been skipped then, so    *)
(* that what a failed read leaves is still in place.                       *)

\* What is left of Placed after such a failure.
Near ==
    /\ bytes_read + bytes_skipped = current_position
    /\ response # NoResponse =>
        /\ response.of # "none"
        /\ response.at = current_position /\ response.at <= response.end
        /\ current_end # NoEnd => current_end = response.end
    /\ current_skipped > 0 => response # NoResponse

\* Where the reader may skip.
AtHand == stage \in {"any", "block", "data"} \/ (stage = "header" /\ want = 0)

UsedInv ==
    /\ HttpTypeOK
    /\ slice > 0 => result = Trait!NoResult
    /\ result.kind # "failed" \/ stage = "start" => Near
    /\ slice = 0 /\ (result.kind = "data" \/ (result.kind = "none" /\ AtHand))
        => response # NoResponse
    /\ stage = "start" => current_skipped = 0
    /\ stage \in {"header", "end"} /\ want = 0 => current_skipped = 0
    /\ stage # "any" /\ result.kind = "data" => current_skipped = 0

LEMMA ReadingIsInv == UsedInv /\ slice > 0 => SourceInv
BY ResultTypes DEF UsedInv, SourceInv, Placed, Near

LEMMA AnybodyIsInv ==
    UsedInv /\ stage = "any" /\ slice = 0 /\ result.kind \in {"none", "data"} => SourceInv
BY DEF UsedInv, SourceInv, Placed, Near, AtHand

\* A read that fails without skipping leaves everything in place.
LEMMA FailsNear ==
    ASSUME SourceInv, SourceStep, current_skipped = 0, result'.kind = "failed"
    PROVE  Near'
<1>1. slice > 0
  BY DEF SourceStep, SkipAhead, SkipThrough, SkipFails, SkipBroken, CannotFetch, EndOfBundle,
     Fetch, FetchRetry, FetchFails, Receive, BodyEnds, BodyBreaks, BodyFails, Skipping, Fetching,
     Receiving
<1>2. result.kind # "failed" /\ Near
  BY <1>1, ResultTypes DEF SourceInv, Placed, Near
<1>3. CannotFetch \/ FetchFails \/ BodyFails
  <2>1. ~ \E n \in 1 .. slice : Receive(n)
    <3>1. response.at \in Nat /\ \A n \in 1 .. slice : n \in Nat
      BY DEF SourceInv, HttpTypeOK
    <3>. QED
      BY <3>1, ResultTypes DEF Receive, Return
  <2>2. ~EndOfBundle
    BY ResultTypes DEF EndOfBundle, Return
  <2>3. ~SkipAhead /\ ~SkipThrough /\ ~SkipFails /\ ~ \E k \in 0 .. current_skipped : SkipBroken(k)
    BY DEF SkipAhead, SkipThrough, SkipFails, SkipBroken, Skipping
  <2>4. ~Fetch /\ ~FetchRetry /\ ~BodyEnds /\ ~BodyBreaks
    BY <1>2 DEF Fetch, FetchRetry, BodyEnds, BodyBreaks, KeepReading
  <2>. QED
    BY <2>1, <2>2, <2>3, <2>4 DEF SourceStep
<1>. QED
  BY <1>2, <1>3 DEF CannotFetch, FetchFails, BodyFails, chunk, place, stats, Near

LEMMA SourceStepInv ==
    ASSUME SourceInv, SourceStep
    PROVE  /\ SourceInv' /\ slice > 0 /\ current_skipped' \in {0, current_skipped}
           /\ result'.kind = "data" => current_skipped' = 0
           /\ slice' = 0 => result'.kind # "none"
<1>1. slice > 0
  BY DEF SourceStep, SkipAhead, SkipThrough, SkipFails, SkipBroken, CannotFetch, EndOfBundle,
     Fetch, FetchRetry, FetchFails, Receive, BodyEnds, BodyBreaks, BodyFails, Skipping, Fetching,
     Receiving
<1>2. SourceInv'
  BY <1>1, Reading, Requesting, Returning DEF SourceStep
<1>3. current_skipped' \in {0, current_skipped}
  BY DEF SourceStep, SkipAhead, SkipThrough, SkipFails, SkipBroken, CannotFetch, EndOfBundle,
     Fetch, FetchRetry, FetchFails, Receive, BodyEnds, BodyBreaks, BodyFails, Skipped, place
<1>4. result.kind = "none"
  BY <1>1, ResultTypes DEF SourceInv
<1>5. CASE \E n \in 1 .. slice : Receive(n)
  <2>1. response.at \in Nat /\ \A n \in 1 .. slice : n \in Nat
    BY DEF SourceInv, HttpTypeOK
  <2>. QED
    BY <1>1, <1>2, <1>3, <1>5, <2>1, ResultTypes DEF Receive, Receiving, Return
<1>6. CASE SkipFails \/ CannotFetch \/ EndOfBundle \/ FetchFails \/ BodyFails
  BY <1>1, <1>2, <1>3, <1>6, ResultTypes
  DEF SkipFails, CannotFetch, EndOfBundle, FetchFails, BodyFails, Return
<1>7. CASE SkipAhead \/ SkipThrough \/ (\E k \in 0 .. current_skipped : SkipBroken(k))
            \/ Fetch \/ FetchRetry \/ BodyEnds \/ BodyBreaks
  BY <1>1, <1>2, <1>3, <1>4, <1>7
  DEF SkipAhead, SkipThrough, SkipBroken, Fetch, FetchRetry, BodyEnds, BodyBreaks, KeepReading
<1>. QED
  BY <1>5, <1>6, <1>7 DEF SourceStep

LEMMA UsedSourceStep ==
    ASSUME UsedInv, SourceStep, UNCHANGED <<stage, want>>
    PROVE  UsedInv'
<1>1. slice > 0
  BY DEF SourceStep, SkipAhead, SkipThrough, SkipFails, SkipBroken, CannotFetch, EndOfBundle,
     Fetch, FetchRetry, FetchFails, Receive, BodyEnds, BodyBreaks, BodyFails, Skipping, Fetching,
     Receiving
<1>2. SourceInv
  BY <1>1, ReadingIsInv
<1>3. /\ SourceInv' /\ current_skipped' \in {0, current_skipped}
      /\ result'.kind = "data" => current_skipped' = 0
      /\ slice' = 0 => result'.kind # "none"
  BY <1>2, SourceStepInv
<1>4. stage = "start" /\ result'.kind = "failed" => Near'
  BY <1>2, FailsNear DEF UsedInv
<1>5. result'.kind # "failed" => Near'
  BY <1>3 DEF SourceInv, Placed, Near
<1>6. slice' = 0 /\ result'.kind = "data" => response' # NoResponse
  BY <1>3 DEF SourceInv, Placed
<1>7. HttpTypeOK' /\ (slice' > 0 => result' = Trait!NoResult)
  BY <1>3 DEF SourceInv
<1>. QED
  BY <1>3, <1>4, <1>5, <1>6, <1>7 DEF UsedInv

LEMMA UsedInit == Init => UsedInv
<1>. SUFFICES ASSUME Init PROVE UsedInv
  OBVIOUS
<1>1. PICK length \in Nat : SourceInit(length)
  <2>1. AnyLength \in Nat
    BY BoundsAssumption DEF BoundsAssumption
  <2>2. CASE InitReader
    <3>1. bundle \in Seq(Payloads) /\ \E t \in Nat : content = SubSeq(Layout(bundle), 1, Len(Layout(bundle)) - t)
      BY <2>2, BundlesAssumption, BoundsAssumption
      DEF InitReader, BundlesAssumption, BoundsAssumption
    <3>2. Layout(bundle) \in Seq(Cells)
      BY <3>1, LayoutAt
    <3>3. Len(content) \in Nat
      BY <3>1, <3>2
    <3>. QED
      BY <2>2, <3>3 DEF InitReader
  <2>. QED
    BY <2>1, <2>2 DEF Init, InitAny
<1>2. SourceInv
  BY <1>1, InitInv
<1>3. slice = 0 /\ current_skipped = 0 /\ result.kind = "none"
  BY <1>1, ResultTypes DEF SourceInit
<1>. QED
  BY <1>2, <1>3 DEF UsedInv, SourceInv, Placed, Near
Bits == Cells \cup {<<"other", i>> : i \in Nat}

\* What reads deliver, and what the reader has taken of it.
ReadsInv ==
    /\ want \in Nat /\ buffer \in Seq(Bits)
    /\ stage # "any" =>
        /\ content \in Seq(Cells) /\ IsPrefix(content, Layout(bundle))
        /\ content_length = Len(content)
    /\ response # NoResponse => response.end <= content_length
    /\ result.kind = "data" => 1 <= result.n /\ result.from + result.n <= content_length
    /\ stage \in {"header", "start", "data", "end"} =>
        slice <= want /\ (result.kind = "data" => result.n <= want)
    /\ stage \in {"header", "start", "end"} => want \in {0, 1} /\ (want = 1 => buffer = <<>>)
    /\ stage = "raw" =>
        /\ remaining_data \in Nat /\ slice <= remaining_data
        /\ result.kind = "data" => result.n <= remaining_data
    /\ stage = "block" => slice = 0 /\ result.kind = "none"
    /\ stage \in {"block", "raw"} => want = 0 /\ buffer = <<>>

LEMMA SkipsNat ==
    ASSUME ReaderInv, WrittenInv, AccountInv, SkipPayload \/ UseStored
    PROVE  \E n \in Nat : SkipCall(n)
<1>1. CASE SkipPayload
  <2>1. Total(Payload) \in Nat
    BY <1>1, PayloadTyped, SentTyped DEF SkipPayload, Ready, ReaderInv
  <2>. QED
    BY <1>1, <2>1 DEF SkipPayload, Total
<1>2. CASE UseStored
  BY <1>2, BlockSizeIs DEF UseStored, Local, MoreBlocks, Ready
<1>. QED
  BY <1>1, <1>2

\* What the reader does, beside the steps of the source.
LEMMA UsedReaderStep ==
    ASSUME ReaderInv, WrittenInv, AccountInv, ReadsInv, UsedInv, ReaderStep
    PROVE  UsedInv'
<1>. USE DEF SameBundle, SamePlace, SameTarget, Stage, Ready, Await, Idle
<1>1. CASE Exact \/ ReadRaw
  <2>1. PICK n \in Nat : ReadCall(n)
    <3>1. CASE Exact
      BY <3>1 DEF Exact, ReadsInv
    <3>2. CASE ReadRaw
      BY <3>2, BoundsAssumption DEF ReadRaw, ReadsInv, Least, BoundsAssumption
    <3>. QED
      BY <1>1, <3>1, <3>2
  <2>2. result.kind = "none" /\ UNCHANGED <<stage, want>> /\ slice = 0
    BY <1>1 DEF Exact, ReadRaw, reader
  <2>3. HttpTypeOK'
    BY <2>1, ResultTypes DEF UsedInv, HttpTypeOK, ReadCall, network, chunk, place, stats, Results
  <2>. QED
    BY <2>1, <2>2, <2>3, ResultTypes
    DEF UsedInv, ReadCall, network, chunk, place, stats, Near, AtHand
<1>2. CASE TakeData \/ WriteRaw \/ PayloadStart
  <2>1. Consume /\ slice = 0
    BY <1>2 DEF TakeData, WriteRaw, PayloadStart
  <2>2. HttpTypeOK'
    BY <2>1, ResultTypes DEF UsedInv, HttpTypeOK, Consume, network, chunk, place, stats, Results
  <2>3. Near' <=> Near
    BY <2>1 DEF Consume, Near, chunk, place, stats
  <2>4. response' = response /\ current_skipped' = current_skipped /\ slice' = 0
        /\ result' = Trait!NoResult
    BY <2>1 DEF Consume, chunk, place
  <2>5. CASE TakeData \/ WriteRaw
    BY <2>2, <2>3, <2>4, <2>5, ResultTypes DEF UsedInv, TakeData, WriteRaw, Running
  <2>6. CASE PayloadStart
    BY <2>2, <2>3, <2>4, <2>6, ResultTypes DEF UsedInv, PayloadStart, AtHand
  <2>. QED
    BY <1>2, <2>5, <2>6
<1>3. CASE SkipPayload \/ UseStored
  <2>1. PICK n \in Nat : SkipCall(n)
    BY <1>3, SkipsNat
  <2>2. /\ stage \in {"header", "block"} /\ (stage = "header" => want = 0) /\ result.kind = "none"
        /\ slice = 0
        /\ (stage' = "end" /\ want' = 1) \/ stage' = "block"
    BY <1>3 DEF SkipPayload, UseStored, Local, MoreBlocks
  <2>3. response # NoResponse /\ Near
    BY <2>2 DEF UsedInv, AtHand
  <2>4. HttpTypeOK'
    BY <2>1 DEF UsedInv, HttpTypeOK, SkipCall, network, chunk, stats
  <2>. QED
    BY <2>1, <2>2, <2>3, <2>4 DEF UsedInv, SkipCall, network, chunk, stats, Near
<1>4. CASE UNCHANGED source
  <2>1. /\ HttpTypeOK' /\ (Near' <=> Near)
        /\ UNCHANGED <<slice, result, response, current_skipped>>
    BY <1>4 DEF source, UsedInv, HttpTypeOK, Near, network, chunk, place, stats
  <2>2. CASE TakeFailure
    BY <2>1, <2>2 DEF TakeFailure, Fail, UsedInv, AtHand
  <2>3. CASE BadFrame \/ StoredUnreadable
    BY <2>1, <2>3 DEF BadFrame, StoredUnreadable, Local, MoreBlocks, Fail, UsedInv, AtHand
  <2>4. CASE StartBundle \/ EndPayload
    BY <2>1, <2>4 DEF StartBundle, EndPayload, NextPayload, UsedInv, AtHand
  <2>5. CASE StartPayload
    BY <2>1, <2>5 DEF StartPayload, Fail, UsedInv, AtHand
  <2>6. CASE Download \/ Downloaded \/ Again
    BY <2>1, <2>6 DEF Download, Downloaded, Again, MoreBlocks, Fail, UsedInv, AtHand
  <2>7. CASE Decoded
    BY <2>1, <2>7 DEF Decoded, Fail, UsedInv, AtHand
  <2>8. CASE UNCHANGED <<stage, want>>
    BY <2>1, <2>8 DEF UsedInv, AtHand
  <2>9. ASSUME ReaderStep, UNCHANGED source
        PROVE  \/ TakeFailure \/ BadFrame \/ StoredUnreadable \/ StartBundle \/ EndPayload
               \/ StartPayload \/ Download \/ Downloaded \/ Again \/ Decoded
               \/ UNCHANGED <<stage, want>> \/ PayloadStart \/ SkipPayload \/ UseStored
               \/ Exact \/ TakeData \/ ReadRaw \/ WriteRaw
    BY <2>9 DEF ReaderStep
  <2>. QED
    BY <1>1, <1>2, <1>3, <1>4, <2>2, <2>3, <2>4, <2>5, <2>6, <2>7, <2>8, <2>9
<1>. QED
  BY <1>1, <1>2, <1>3, <1>4 DEF ReaderStep, TakeFailure, BadFrame, StoredUnreadable, StartBundle,
     EndPayload, StartPayload, Download, Downloaded, Again, Decoded, StayInSource

LEMMA UsedStep ==
    ASSUME ReaderInv, WrittenInv, AccountInv, ReadsInv, UsedInv, [Next]_allVars
    PROVE  UsedInv'
<1>1. CASE ReaderStep
  BY <1>1, UsedReaderStep
<1>2. CASE InSource
  BY <1>2, UsedSourceStep DEF InSource, reader
<1>3. CASE Anybody
  <2>1. PICK n \in 1 .. BufferSize : AnyCall(n)
    BY <1>3 DEF Anybody
  <2>2. n \in Nat /\ n > 0
    BY BoundsAssumption DEF BoundsAssumption
  <2>3. stage = "any" /\ UNCHANGED <<stage, want>> /\ result.kind \in {"none", "data"} /\ slice = 0
    BY <1>3, <2>1 DEF Anybody, reader, AnyCall, ReadCall, SkipCall, Hint
  <2>4. SourceInv
    BY <2>3, AnybodyIsInv
  <2>5. SourceInv'
    BY <2>1, <2>2, <2>4, Calling
  <2>6. result'.kind \in {"none", "data"}
    BY <2>1, <2>3, ResultTypes DEF AnyCall, ReadCall, SkipCall, Hint
  <2>. QED
    BY <2>3, <2>5, <2>6 DEF UsedInv, SourceInv, Placed, Near
<1>4. CASE Replace /\ UNCHANGED reader
  BY <1>4 DEF Replace, reader, UsedInv, HttpTypeOK, Near, AtHand, chunk, place, stats, Versions
<1>5. CASE UNCHANGED allVars
  BY <1>5 DEF allVars, source, reader, UsedInv, HttpTypeOK, Near, AtHand, network, chunk, place,
     stats
<1>. QED
  BY <1>1, <1>2, <1>3, <1>4, <1>5 DEF Next

LEMMA ReadsInit == Init => ReadsInv
<1>. SUFFICES ASSUME Init PROVE ReadsInv
  OBVIOUS
<1>1. /\ slice = 0 /\ result.kind = "none" /\ buffer = <<>> /\ response # NoResponse
      /\ (stage = "header" /\ want = 1) \/ (stage = "any" /\ want = 0)
  BY ResultTypes DEF Init, InitReader, InitAny, SourceInit, NoResponse
<1>2. stage # "any" => /\ content \in Seq(Cells) /\ IsPrefix(content, Layout(bundle))
                       /\ content_length = Len(content)
  <2>. SUFFICES ASSUME InitReader
                PROVE  /\ content \in Seq(Cells) /\ IsPrefix(content, Layout(bundle))
                       /\ content_length = Len(content)
    BY DEF Init, InitAny
  <2>1. PICK t \in Nat : content = SubSeq(Layout(bundle), 1, Len(Layout(bundle)) - t)
    BY BoundsAssumption DEF InitReader, BoundsAssumption
  <2>2. Layout(bundle) \in Seq(Cells)
    BY BundlesAssumption, LayoutAt DEF InitReader, BundlesAssumption
  <2>3. \A s \in Seq(Cells) : /\ SubSeq(s, 1, Len(s) - t) \in Seq(Cells)
                              /\ IsPrefix(SubSeq(s, 1, Len(s) - t), s)
    BY DEF IsPrefix
  <2>. QED
    BY <2>1, <2>2, <2>3 DEF InitReader, SourceInit
<1>3. response.end <= content_length
  <2>1. PICK length : SourceInit(length) /\ length \in Nat
    <3>1. AnyLength \in Nat
      BY BoundsAssumption DEF BoundsAssumption
    <3>. QED
      BY <1>2, <3>1 DEF Init, InitReader, InitAny, SourceInit
  <2>2. current_end = NoEnd \/ current_end <= length
    BY <2>1 DEF SourceInit
  <2>. QED
    BY <2>1, <2>2 DEF SourceInit, NoEnd
<1>4. <<>> \in Seq(Bits)
  OBVIOUS
<1>. QED
  BY <1>1, <1>2, <1>3, <1>4 DEF ReadsInv

\* What a read delivers are the next bytes of the content, or of what has replaced it.
LEMMA DeliveredIs ==
    ASSUME ReadsInv, UsedInv, stage # "any", result.kind = "data"
    PROVE  /\ Delivered \in Seq(Bits) /\ Len(Delivered) = result.n /\ result.n \in Nat \ {0}
           /\ result.from \in Nat
           /\ \A i \in 1 .. result.n :
                /\ result.from + i \in 1 .. Len(content)
                /\ Delivered[i] = IF of = "bundle" THEN content[result.from + i] ELSE <<"other", i>>
<1>1. result.from \in Nat /\ result.n \in Nat \ {0} /\ result.from + result.n <= Len(content)
  BY DEF ReadsInv, UsedInv, HttpTypeOK
<1>2. content \in Seq(Cells)
  BY DEF ReadsInv
<1>3. \A i \in 1 .. result.n : result.from + i \in 1 .. Len(content)
  BY <1>1, <1>2
<1>4. \A i \in 1 .. result.n :
         (IF of = "bundle" THEN content[result.from + i] ELSE <<"other", i>>) \in Bits
  BY <1>2, <1>3 DEF Bits
<1>. DEFINE cell(i) == IF of = "bundle" THEN content[result.from + i] ELSE <<"other", i>>
<1>5. Delivered = [i \in 1 .. result.n |-> cell(i)]
  BY DEF Delivered
<1>6. \A i \in 1 .. result.n : cell(i) \in Bits
  BY <1>4
<1>. HIDE DEF cell
<1>7. Delivered \in Seq(Bits) /\ Len(Delivered) = result.n
  BY <1>1, <1>5, <1>6
<1>8. \A i \in 1 .. result.n : Delivered[i] = cell(i)
  BY <1>5
<1>. QED
  BY <1>1, <1>3, <1>7, <1>8 DEF cell

LEMMA ReadsSourceStep ==
    ASSUME UsedInv, ReadsInv, SourceStep, UNCHANGED reader
    PROVE  ReadsInv'
<1>. USE DEF UsedInv, HttpTypeOK
<1>1. SourceInv /\ slice > 0 /\ current_skipped' \in {0, current_skipped}
  <2>1. slice > 0
    BY DEF SourceStep, SkipAhead, SkipThrough, SkipFails, SkipBroken, CannotFetch, EndOfBundle,
       Fetch, FetchRetry, FetchFails, Receive, BodyEnds, BodyBreaks, BodyFails, Skipping,
       Fetching, Receiving
  <2>2. SourceInv
    BY <2>1, ReadingIsInv
  <2>. QED
    BY <2>1, <2>2, SourceStepInv
<1>2. content_length' = content_length /\ slice' \in {0, slice}
  BY DEF SourceStep, SkipAhead, SkipThrough, SkipFails, SkipBroken, CannotFetch, EndOfBundle,
     Fetch, FetchRetry, FetchFails, Receive, BodyEnds, BodyBreaks, BodyFails, Return, KeepReading
<1>3. response' # NoResponse => response'.end <= content_length
  <2>1. CASE SkipThrough
    BY <2>1, BodyTypes DEF SkipThrough, ReadsInv, Bodies
  <2>2. CASE \E n \in 1 .. slice : Receive(n)
    BY <2>2, BodyTypes DEF Receive, Receiving, ReadsInv, Bodies
  <2>3. CASE Fetch
    <3>1. NextEnd <= content_length
      BY <2>3 DEF NextEnd, Least, Greatest, Fetch, Fetching
    <3>. QED
      BY <2>3, <3>1 DEF Fetch
  <2>4. CASE response' \in {response, NoResponse}
    BY <2>4 DEF ReadsInv
  <2>. QED
    BY <2>1, <2>2, <2>3, <2>4 DEF SourceStep, SkipAhead, SkipFails, SkipBroken, CannotFetch,
       EndOfBundle, FetchRetry, FetchFails, BodyEnds, BodyBreaks, BodyFails, chunk
<1>4. result'.kind = "data" =>
        1 <= result'.n /\ result'.n <= slice /\ result'.from + result'.n <= content_length /\ slice' = 0
  <2>1. CASE \E n \in 1 .. slice : Receive(n)
    <3>1. PICK n \in 1 .. slice : Receive(n)
      BY <2>1
    <3>2. /\ n \in Nat /\ 1 <= n /\ n <= slice /\ response.at \in Nat /\ response.end \in Nat
          /\ response # NoResponse /\ n <= response.end - response.at
      BY <3>1 DEF Receive, Receiving
    <3>3. result' = Trait!Data(response.at, n) /\ slice' = 0
      BY <3>1 DEF Receive, Return
    <3>4. result'.n = n /\ result'.from = response.at
      BY <3>3 DEF Trait!Data
    <3>. QED
      BY <3>2, <3>3, <3>4 DEF ReadsInv
  <2>2. CASE result'.kind # "data"
    BY <2>2
  <2>3. result.kind = "none"
    BY <1>1, ResultTypes
  <2>4. CASE SkipFails \/ CannotFetch \/ EndOfBundle \/ FetchFails \/ BodyFails
    BY <2>4, ResultTypes DEF SkipFails, CannotFetch, EndOfBundle, FetchFails, BodyFails, Return
  <2>5. CASE result' = result
    BY <2>3, <2>5
  <2>. QED
    BY <2>1, <2>4, <2>5 DEF SourceStep, SkipAhead, SkipThrough, SkipBroken, Fetch, FetchRetry,
       BodyEnds, BodyBreaks, KeepReading
<1>5. stage # "block"
  BY <1>1 DEF ReadsInv
<1>6. /\ UNCHANGED <<bundle, content, stage, want, buffer, remaining_data>>
      /\ slice' <= slice /\ slice \in Nat /\ want \in Nat
  BY <1>1, <1>2 DEF reader, ReadsInv
<1>7. stage \in {"header", "start", "data", "end"} =>
        slice' <= want /\ (result'.kind = "data" => result'.n <= want)
  <2>1. ASSUME result'.kind = "data" PROVE result'.n \in Int
    <3>1. SourceInv'
      BY <1>1, SourceStepInv
    <3>. QED
      BY <3>1 DEF SourceInv
  <2>. QED
    BY <1>2, <1>4, <1>6, <2>1 DEF ReadsInv
<1>8. stage = "raw" => slice' <= remaining_data /\ (result'.kind = "data" => result'.n <= remaining_data)
  <2>1. ASSUME result'.kind = "data" PROVE result'.n \in Int
    <3>1. SourceInv'
      BY <1>1, SourceStepInv
    <3>. QED
      BY <3>1 DEF SourceInv
  <2>. QED
    BY <1>2, <1>4, <1>6, <2>1 DEF ReadsInv
<1>. QED
  BY <1>2, <1>3, <1>4, <1>5, <1>6, <1>7, <1>8 DEF ReadsInv

LEMMA ReadsReaderStep ==
    ASSUME ReaderInv, WrittenInv, AccountInv, ReadsInv, UsedInv, ReaderStep
    PROVE  ReadsInv'
<1>. USE DEF SameBundle, SamePlace, SameTarget, Stage, Ready, Await, Idle
<1>0. stage # "any" /\ UNCHANGED <<bundle, content>> /\ <<>> \in Seq(Bits)
      /\ (stage' # "any")
  <2>1. stage # "any"
    BY DEF ReaderStep, Exact, TakeData, TakeFailure, PayloadStart, BadFrame, StartBundle,
       SkipPayload, StartPayload, EndPayload, UseStored, StoredUnreadable, Download, Downloaded,
       Again, ReadRaw, WriteRaw, Decoded, Local, MoreBlocks, Running
  <2>2. UNCHANGED <<bundle, content>>
    BY DEF ReaderStep, Exact, TakeData, TakeFailure, PayloadStart, BadFrame, StartBundle,
       SkipPayload, StartPayload, EndPayload, UseStored, StoredUnreadable, Download, Downloaded,
       Again, ReadRaw, WriteRaw, Decoded, reader, Fail
  <2>3. stage' # "any"
    BY <2>1 DEF ReaderStep, Exact, TakeData, TakeFailure, PayloadStart, BadFrame, StartBundle,
       SkipPayload, StartPayload, EndPayload, UseStored, StoredUnreadable, Download, Downloaded,
       Again, ReadRaw, WriteRaw, Decoded, reader, Fail, NextPayload
  <2>. QED
    BY <2>1, <2>2, <2>3
<1>1. ASSUME UNCHANGED <<response, content_length>>
      PROVE  /\ response' # NoResponse => response'.end <= content_length'
             /\ content' \in Seq(Cells) /\ IsPrefix(content', Layout(bundle'))
             /\ content_length' = Len(content')
  BY <1>0, <1>1 DEF ReadsInv
<1>2. CASE Exact
  <2>1. /\ slice' = want /\ result' = Trait!NoResult /\ stage \in {"header", "start", "data", "end"}
        /\ UNCHANGED <<reader, response, content_length>>
    BY <1>2 DEF Exact, ReadCall, chunk, Running, ReaderInv, ReadsInv
  <2>. QED
    BY <1>0, <1>1, <2>1, ResultTypes DEF ReadsInv, reader
<1>3. CASE ReadRaw
  <2>1. /\ slice' = Least(BufferSize, remaining_data) /\ result' = Trait!NoResult /\ stage = "raw"
        /\ UNCHANGED <<reader, response, content_length>>
    BY <1>3 DEF ReadRaw, ReadCall, chunk
  <2>2. slice' <= remaining_data
    BY <2>1, BoundsAssumption DEF Least, ReadsInv, BoundsAssumption
  <2>. QED
    BY <1>0, <1>1, <2>1, <2>2, ResultTypes DEF ReadsInv, reader
<1>4. CASE TakeData
  <2>1. /\ result.kind = "data" /\ stage \in {"header", "start", "data", "end"} /\ stage' = stage
        /\ want' = want - result.n /\ buffer' = buffer \o Delivered /\ result' = Trait!NoResult
        /\ slice' = 0 /\ UNCHANGED <<response, content_length>>
    BY <1>4 DEF TakeData, Consume, chunk, Running, ReaderInv, ReadsInv
  <2>2. /\ Delivered \in Seq(Bits) /\ result.n \in Nat \ {0} /\ result.n <= want
        /\ buffer \in Seq(Bits) /\ want \in Nat
    BY <1>0, <2>1, DeliveredIs DEF ReadsInv
  <2>3. buffer' \in Seq(Bits) /\ want' \in Nat /\ want' < want
    BY <2>1, <2>2
  <2>4. stage \in {"header", "start", "end"} => want' = 0
    BY <2>2, <2>3 DEF ReadsInv
  <2>. QED
    BY <1>0, <1>1, <2>1, <2>3, <2>4, ResultTypes DEF ReadsInv
<1>5. CASE WriteRaw
  <2>1. /\ result.kind = "data" /\ stage = "raw" /\ stage' = "raw"
        /\ UNCHANGED <<response, content_length, want, buffer>>
        /\ remaining_data' = remaining_data - result.n /\ result' = Trait!NoResult /\ slice' = 0
    BY <1>5 DEF WriteRaw, Consume, chunk
  <2>2. remaining_data' \in Nat
    BY <1>0, <2>1, DeliveredIs DEF ReadsInv
  <2>. QED
    BY <1>0, <1>1, <2>1, <2>2, ResultTypes DEF ReadsInv
<1>6. CASE PayloadStart
  BY <1>0, <1>1, <1>6, ResultTypes DEF ReadsInv, PayloadStart, Consume, chunk
<1>7. CASE SkipPayload \/ UseStored
  <2>1. UNCHANGED <<response, content_length, result, slice>>
    BY <1>7 DEF SkipPayload, UseStored, SkipCall, chunk
  <2>2. /\ result.kind = "none" /\ slice = 0 /\ buffer' = <<>>
        /\ (stage' = "end" /\ want' = 1) \/ (stage' = "block" /\ want' = 0)
    <3>1. CASE SkipPayload
      BY <3>1 DEF SkipPayload
    <3>2. CASE UseStored
      BY <3>2 DEF UseStored, Local, MoreBlocks
    <3>. QED
      BY <1>7, <3>1, <3>2
  <2>. QED
    BY <1>0, <1>1, <2>1, <2>2 DEF ReadsInv
<1>8. CASE StayInSource
  <2>1. UNCHANGED <<response, content_length, result, slice>>
    BY <1>8 DEF StayInSource, source, chunk
  <2>2. CASE TakeFailure
    BY <1>0, <1>1, <2>1, <2>2 DEF ReadsInv, TakeFailure, Fail
  <2>3. CASE BadFrame \/ StoredUnreadable
    BY <1>0, <1>1, <2>1, <2>3 DEF ReadsInv, BadFrame, StoredUnreadable, Local, MoreBlocks, Fail
  <2>4. CASE StartBundle \/ EndPayload
    <3>1. /\ result.kind = "none" /\ slice = 0 /\ buffer' = <<>>
          /\ (stage' = "start" /\ want' = 1) \/ (stage' = "done" /\ want' = 0)
      <4>1. CASE StartBundle
        BY <4>1 DEF StartBundle, NextPayload
      <4>2. CASE EndPayload
        BY <4>2 DEF EndPayload, NextPayload
      <4>. QED
        BY <2>4, <4>1, <4>2
    <3>. QED
      BY <1>0, <1>1, <2>1, <3>1 DEF ReadsInv
  <2>5. CASE StartPayload
    <3>1. Total(Payload) \in Nat
      BY <2>5, PayloadTyped, SentTyped DEF StartPayload, ReaderInv
    <3>2. /\ result.kind = "none" /\ slice = 0 /\ want' = 0 /\ buffer' = <<>>
          /\ (stage' = "raw" /\ remaining_data' = Total(Payload)) \/ stage' \in {"block", "failed"}
      BY <2>5 DEF StartPayload, Fail, Total
    <3>. QED
      BY <1>0, <1>1, <2>1, <3>1, <3>2 DEF ReadsInv
  <2>6. CASE Download
    <3>1. BlockSize \in Nat
      BY <2>6, BlockSizeIs DEF Download, MoreBlocks
    <3>2. result.kind = "none" /\ slice = 0 /\ want' = BlockSize /\ buffer' = <<>> /\ stage' = "data"
      BY <2>6 DEF Download, MoreBlocks
    <3>. QED
      BY <1>0, <1>1, <2>1, <3>1, <3>2 DEF ReadsInv
  <2>7. CASE Downloaded \/ Again
    BY <1>0, <1>1, <2>1, <2>7 DEF ReadsInv, Downloaded, Again, MoreBlocks, Fail
  <2>8. CASE Decoded
    BY <1>0, <1>1, <2>1, <2>8 DEF ReadsInv, Decoded, Fail
  <2>9. ASSUME ReaderStep
        PROVE  \/ TakeFailure \/ BadFrame \/ StoredUnreadable \/ StartBundle \/ EndPayload
               \/ StartPayload \/ Download \/ Downloaded \/ Again \/ Decoded
               \/ Exact \/ TakeData \/ ReadRaw \/ WriteRaw \/ PayloadStart \/ SkipPayload
               \/ UseStored
    BY <2>9 DEF ReaderStep
  <2>. QED
    BY <1>2, <1>3, <1>4, <1>5, <1>6, <1>7, <2>2, <2>3, <2>4, <2>5, <2>6, <2>7, <2>8, <2>9
<1>. QED
  BY <1>2, <1>3, <1>4, <1>5, <1>6, <1>7, <1>8 DEF ReaderStep, TakeFailure, BadFrame,
     StoredUnreadable, StartBundle, EndPayload, StartPayload, Download, Downloaded, Again, Decoded

LEMMA ReadsStep ==
    ASSUME ReaderInv, WrittenInv, AccountInv, ReadsInv, UsedInv, [Next]_allVars
    PROVE  ReadsInv'
<1>1. CASE ReaderStep
  BY <1>1, ReadsReaderStep
<1>2. CASE InSource
  BY <1>2, ReadsSourceStep DEF InSource
<1>3. CASE Anybody
  <2>1. PICK n \in 1 .. BufferSize : AnyCall(n)
    BY <1>3 DEF Anybody
  <2>2. /\ stage = "any" /\ stage' = "any" /\ UNCHANGED <<want, buffer, response, content_length>>
        /\ result' \in {result, Trait!NoResult}
    BY <1>3, <2>1 DEF Anybody, reader, AnyCall, ReadCall, SkipCall, Hint, chunk
  <2>. QED
    BY <2>2, ResultTypes DEF ReadsInv
<1>4. CASE Replace /\ UNCHANGED reader
  BY <1>4 DEF Replace, reader, ReadsInv, chunk
<1>5. CASE UNCHANGED allVars
  BY <1>5 DEF allVars, source, reader, ReadsInv, chunk
<1>. QED
  BY <1>1, <1>2, <1>3, <1>4, <1>5 DEF Next
\* The reader, its place in the bundle and the source beneath it, before and after every step.
InstallInv == ReaderInv /\ WrittenInv /\ AccountInv /\ ReadsInv /\ UsedInv

LEMMA InstallStep == InstallInv /\ [Next]_allVars => InstallInv'
BY ReaderStepInv, WrittenStep, AccountStep, ReadsStep, UsedStep DEF InstallInv

\* For every bundle, however the network behaves and whatever slots hold: the source
\* still has its response in place when the reader uses it, even where the reader goes on
\* after a failure.
THEOREM InstallInvariant == Spec => []InstallInv
<1>1. Init => InstallInv
  BY ReaderInit, AccountInit, ReadsInit, UsedInit DEF InstallInv
<1>. QED
  BY <1>1, InstallStep, PTL DEF Spec

\* Under the reader, too, every byte up to the position is counted once, as read or as
\* skipped.
THEOREM ReaderAccountsBytes == Spec => []BytesAccounted
<1>1. InstallInv => BytesAccounted
  BY DEF InstallInv, UsedInv, Near, BytesAccounted
<1>. QED
  BY <1>1, InstallInvariant, PTL

LEMMA ReaderPromised ==
    ASSUME InstallInv, InstallInv', ReaderStep
    PROVE  Promised
<1>. USE DEF Idle, Ready
<1>0. /\ slice' \in Nat /\ content_length' = content_length
      /\ current_position \in Nat /\ current_skipped \in Nat
      /\ current_position' \in Nat /\ current_skipped' \in Nat
  <2>1. content_length' = content_length
    BY DEF ReaderStep, Exact, TakeData, TakeFailure, PayloadStart, BadFrame, StartBundle,
       SkipPayload, StartPayload, EndPayload, UseStored, StoredUnreadable, Download, Downloaded,
       Again, ReadRaw, WriteRaw, Decoded, StayInSource, source, Consume, ReadCall, SkipCall
  <2>. QED
    BY <2>1 DEF InstallInv, UsedInv, HttpTypeOK
<1>1. CASE Exact \/ ReadRaw
  <2>1. PICK n : ReadCall(n)
    BY <1>1 DEF Exact, ReadRaw
  <2>2. Trait!Call
    <3>1. slice = 0 /\ slice' = n /\ n > 0 /\ result' = Trait!NoResult
          /\ UNCHANGED <<content_length, current_position, current_skipped>>
      BY <2>1 DEF ReadCall, place
    <3>. QED
      BY <1>0, <3>1 DEF Trait!Call
  <2>. QED
    BY <2>2 DEF Promised, Trait!Next
<1>2. CASE TakeData \/ WriteRaw \/ PayloadStart
  <2>1. Consume
    BY <1>2 DEF TakeData, WriteRaw, PayloadStart
  <2>2. /\ result' = Trait!NoResult
        /\ UNCHANGED <<content_length, current_position, current_skipped, slice>>
    BY <2>1 DEF Consume, place
  <2>3. CASE result = Trait!NoResult
    BY <2>2, <2>3 DEF Promised, Trait!vars
  <2>4. CASE result # Trait!NoResult
    <3>1. Trait!Take
      BY <2>2, <2>4 DEF Trait!Take
    <3>. QED
      BY <3>1 DEF Promised, Trait!Next
  <2>. QED
    BY <2>3, <2>4
<1>3. CASE SkipPayload \/ UseStored
  <2>1. PICK n \in Nat : SkipCall(n)
    BY <1>3, SkipsNat DEF InstallInv
  <2>2. slice = 0
    BY <2>1 DEF SkipCall
  <2>3. Trait!Skip
    BY <1>0, <2>1, <2>2 DEF SkipCall, Trait!Skip
  <2>. QED
    BY <2>3 DEF Promised, Trait!Next
<1>4. CASE StayInSource
  BY <1>4 DEF StayInSource, source, place, Promised, Trait!vars
<1>. QED
  BY <1>1, <1>2, <1>3, <1>4 DEF ReaderStep, TakeFailure, BadFrame, StoredUnreadable, StartBundle,
     EndPayload, StartPayload, Download, Downloaded, Again, Decoded

LEMMA InstallPromised == InstallInv /\ InstallInv' /\ [Next]_allVars => Promised
<1>. SUFFICES ASSUME InstallInv, InstallInv', [Next]_allVars PROVE Promised
  OBVIOUS
<1>1. CASE ReaderStep
  BY <1>1, ReaderPromised
<1>2. CASE InSource
  <2>1. SourceInv /\ SourceInv'
    <3>1. slice > 0
      BY <1>2 DEF InSource, SourceStep, SkipAhead, SkipThrough, SkipFails, SkipBroken, CannotFetch,
         EndOfBundle, Fetch, FetchRetry, FetchFails, Receive, BodyEnds, BodyBreaks, BodyFails,
         Skipping, Fetching, Receiving
    <3>2. SourceInv
      BY <3>1, ReadingIsInv DEF InstallInv
    <3>. QED
      BY <1>2, <3>2, SourceStepInv DEF InSource
  <2>. QED
    BY <1>2, <2>1, StepPromised DEF InSource, SourceNext
<1>3. CASE Anybody
  <2>1. PICK n \in 1 .. BufferSize : AnyCall(n)
    BY <1>3 DEF Anybody
  <2>2. n \in Nat
    BY BoundsAssumption DEF BoundsAssumption
  <2>3. stage = "any" /\ result.kind \in {"none", "data"} /\ slice = 0
    BY <1>3, <2>1 DEF Anybody, AnyCall, ReadCall, SkipCall, Hint
  <2>4. SourceInv
    BY <2>3, AnybodyIsInv DEF InstallInv
  <2>5. SourceInv'
    BY <2>1, <2>2, <2>4, Calling
  <2>. QED
    BY <2>1, <2>2, <2>4, <2>5, StepPromised DEF SourceNext
<1>4. CASE Replace /\ UNCHANGED reader
  BY <1>4 DEF Replace, place, Promised, Trait!vars
<1>5. CASE UNCHANGED allVars
  BY <1>5 DEF allVars, source, place, Promised, Trait!vars
<1>. QED
  BY <1>1, <1>2, <1>3, <1>4, <1>5 DEF Next

\* What the reader of bundles is delivered, too, are the next bytes of the bundle: however
\* blocks that are read, that are skipped and that come from slots alternate, every step of
\* reader and source is one of the trait.
THEOREM ReaderKeepsPromise == Spec => KeepsPromise
<1>1. Init => Trait!Init
  <2>1. InstallInv => content_length \in Nat
    BY DEF InstallInv, UsedInv, HttpTypeOK
  <2>2. Init => InstallInv
    BY ReaderInit, AccountInit, ReadsInit, UsedInit DEF InstallInv
  <2>. QED
    BY <2>1, <2>2 DEF Init, InitReader, InitAny, SourceInit, Trait!Init
<1>2. InstallInv /\ InstallInv' /\ [Next]_allVars => [Trait!Next]_(Trait!vars)
  BY InstallPromised DEF Promised
<1>. QED
  BY <1>1, <1>2, InstallInvariant, PTL DEF Spec, KeepsPromise, Trait!Spec
-----------------------------------------------------------------------------
(* Where the reader and the source stand.                                  *)

Took == IF result.kind = "data" THEN result.n ELSE 0

\* The byte of the bundle that the reader takes next.
Here == current_position + current_skipped - Took
End(n) == EndOf(bundle, n)

\* A reader that could not read a start frame is one frame behind, reads that frame as a
\* header and gives up.
HeaderPlace ==
    IF payload = 0 THEN Here = 1 - want
    ELSE \/ Here = End(payload - 1) + 2 - want
         \/ /\ Here = End(payload - 1) + 1 - want
            /\ want = 0 => buffer # <<Frame("header", payload)>>
            /\ result.kind = "data" => Delivered # <<Frame("header", payload)>>

PlaceInv ==
    /\ stage = "start" => Here = End(payload - 1) + 1 - want
    /\ result.kind # "failed" =>
        /\ stage = "header" => HeaderPlace
        /\ stage \in {"block", "data", "raw"} =>
            Here = End(payload) - 1 - remaining_data + Len(buffer)
        /\ stage = "end" => Here = End(payload) - want

LEMMA PrefixAt ==
    ASSUME NEW T, NEW a \in Seq(T), NEW b \in Seq(T), IsPrefix(a, b)
    PROVE  /\ Len(a) <= Len(b) /\ Len(a) \in Nat /\ Len(b) \in Nat
           /\ \A i \in 1 .. Len(a) : a[i] = b[i]
<1>1. ASSUME NEW i \in 1 .. Len(a) PROVE a[i] = b[i]
  <2>1. SubSeq(a, 1, Len(a))[i] = a[i] /\ SubSeq(b, 1, Len(a))[i] = b[i]
    BY DEF IsPrefix
  <2>. QED
    BY <2>1 DEF IsPrefix
<1>. QED
  BY <1>1 DEF IsPrefix

\* What a part adds is found at its place in the whole.
LEMMA ConcatAt ==
    ASSUME NEW T, NEW a \in Seq(T), NEW b \in Seq(T), NEW t \in Seq(T), IsPrefix(a \o b, t)
    PROVE  /\ Len(a) + Len(b) <= Len(t)
           /\ \A k \in 1 .. Len(b) : t[Len(a) + k] = b[k]
           /\ SubSeq(t, Len(a) + 1, Len(a) + Len(b)) = b
<1>1. a \o b \in Seq(T) /\ Len(a \o b) = Len(a) + Len(b)
  OBVIOUS
<1>2. /\ Len(a) + Len(b) <= Len(t)
      /\ \A i \in 1 .. Len(a) + Len(b) : (a \o b)[i] = t[i]
  BY <1>1, PrefixAt, ZenonT(30)
<1>3. ASSUME NEW k \in 1 .. Len(b)
      PROVE  t[Len(a) + k] = b[k]
  <2>1. Len(a) + k \in 1 .. Len(a) + Len(b) /\ (a \o b)[Len(a) + k] = b[k]
    OBVIOUS
  <2>. QED
    BY <1>2, <2>1
<1>4. SubSeq(t, Len(a) + 1, Len(a) + Len(b)) = b
  <2>. DEFINE s == SubSeq(t, Len(a) + 1, Len(a) + Len(b))
  <2>1. s \in Seq(T) /\ Len(s) = Len(b) /\ Len(b) \in Nat
    BY <1>2
  <2>2. \A k \in 1 .. Len(b) : s[k] = t[Len(a) + k]
    BY <1>2
  <2>3. \A k \in 1 .. Len(b) : s[k] = b[k]
    BY <1>3, <2>2
  <2>. HIDE DEF s
  <2>4. /\ s = [k \in 1 .. Len(b) |-> s[k]]
        /\ b = [k \in 1 .. Len(b) |-> b[k]]
    BY <2>1
  <2>. QED
    BY <2>3, <2>4 DEF s
<1>. QED
  BY <1>2, <1>3, <1>4

LEMMA LayoutCells ==
    ASSUME NEW ps \in Seq(Payloads), NEW n \in 1 .. Len(ps)
    PROVE  LET L == Layout(ps)
               at == EndOf(ps, n - 1)
               bytes == Flatten(Sent(ps[n]))
           IN  /\ L \in Seq(Cells) /\ EndOf(ps, n) <= Len(L)
               /\ L[at + 1] = Frame("start", n) /\ L[at + 2] = Frame("header", n)
               /\ \A k \in 1 .. Total(ps[n]) : L[at + 2 + k] = bytes[k]
               /\ L[at + 3 + Total(ps[n])] = Frame("end", n)
<1>. DEFINE L == Layout(ps)
            before == Until(ps, n - 1)
            bytes == Flatten(Sent(ps[n]))
            part == Part(ps, n)
            total == Total(ps[n])
<1>1. n \in 0 .. Len(ps) /\ n - 1 \in 0 .. Len(ps) /\ Len(ps) \in 0 .. Len(ps)
  OBVIOUS
<1>2. /\ before \in Seq(Cells) /\ L \in Seq(Cells)
      /\ IsPrefix(before \o part, L) /\ EndOf(ps, n) = EndOf(ps, n - 1) + total + 3
  BY <1>1, LayoutAt
<1>3. part \in Seq(Cells) /\ Len(part) = total + 3
  BY PartsTyped
<1>4. /\ bytes \in Seq(Cells) /\ Len(bytes) = total /\ total \in Nat
  <2>1. ps[n] \in Payloads
    OBVIOUS
  <2>2. Sent(ps[n]) \in Seq(DOMAIN Size)
    BY <2>1, SentTyped
  <2>3. bytes \in Seq(AllBytes)
    BY <2>2, FlattenTyped
  <2>4. bytes \in Seq(Cells)
    BY <2>3 DEF Cells
  <2>. QED
    BY <2>3, <2>4 DEF Total
<1>5. /\ Frame("start", n) \in Cells /\ Frame("header", n) \in Cells /\ Frame("end", n) \in Cells
  BY DEF Cells
<1>6. /\ part[1] = Frame("start", n) /\ part[2] = Frame("header", n)
      /\ \A k \in 1 .. total : part[2 + k] = bytes[k]
      /\ part[3 + total] = Frame("end", n)
  <2>1. \A s \in Seq(Cells), x, y, z \in Cells :
          LET t == <<x, y>> \o s \o <<z>>
          IN  /\ t[1] = x /\ t[2] = y /\ t[3 + Len(s)] = z
              /\ \A k \in 1 .. Len(s) : t[2 + k] = s[k]
    OBVIOUS
  <2>. HIDE DEF bytes, total
  <2>. QED
    BY <1>4, <1>5, <2>1 DEF Part, bytes, part
<1>. HIDE DEF part, bytes, total, before, L
<1>7. /\ Len(before) + total + 3 <= Len(L) /\ Len(before) \in Nat
      /\ \A k \in 1 .. total + 3 : L[Len(before) + k] = part[k]
  BY <1>2, <1>3, <1>4, ConcatAt
<1>8. L[Len(before) + 1] = part[1] /\ L[Len(before) + 2] = part[2]
      /\ L[Len(before) + (3 + total)] = part[3 + total]
  BY <1>4, <1>7
<1>9. ASSUME NEW k \in 1 .. total PROVE L[Len(before) + 2 + k] = bytes[k]
  <2>1. 2 + k \in 1 .. total + 3 /\ Len(before) + (2 + k) = Len(before) + 2 + k
    BY <1>4, <1>7
  <2>. QED
    BY <1>6, <1>7, <2>1
<1>10. Len(before) + (3 + total) = Len(before) + 3 + total
  BY <1>4, <1>7
<1>. QED
  BY <1>2, <1>4, <1>6, <1>7, <1>8, <1>9, <1>10 DEF EndOf, L, before, bytes, total

LEMMA LayoutStart ==
    ASSUME NEW ps \in Seq(Payloads), NEW n \in 1 .. Len(ps), NEW s \in Seq(Cells),
           IsPrefix(s, Layout(ps)), EndOf(ps, n - 1) + 1 \in 1 .. Len(s)
    PROVE  s[EndOf(ps, n - 1) + 1] = Frame("start", n)
<1>1. Layout(ps) \in Seq(Cells) /\ Layout(ps)[EndOf(ps, n - 1) + 1] = Frame("start", n)
  BY LayoutCells
<1>2. \A i \in 1 .. Len(s) : s[i] = Layout(ps)[i]
  BY <1>1, PrefixAt
<1>. QED
  BY <1>1, <1>2

LEMMA PlaceInit == Init => PlaceInv
<1>. SUFFICES ASSUME Init PROVE PlaceInv
  OBVIOUS
<1>1. current_position = 0 /\ current_skipped = 0 /\ result.kind = "none"
  BY ResultTypes DEF Init, InitReader, InitAny, SourceInit
<1>2. payload = 0 /\ ((stage = "header" /\ want = 1) \/ stage = "any")
  BY DEF Init, InitReader, InitAny
<1>. QED
  BY <1>1, <1>2 DEF PlaceInv, HeaderPlace, Here, Took

LEMMA PlaceTypes ==
    ASSUME InstallInv
    PROVE  /\ current_position \in Nat /\ current_skipped \in Nat /\ result.n \in Nat
           /\ want \in Nat /\ Len(buffer) \in Nat /\ Took \in Nat /\ Here \in Int
           /\ stage \in {"block", "data", "raw"} => remaining_data \in Int
           /\ stage \in {"start", "block", "data", "raw", "end"} =>
                payload \in 1 .. Len(bundle)
           /\ bundle \in Seq(Payloads) /\ Len(bundle) \in Nat
           /\ \A n \in 0 .. Len(bundle) : End(n) \in Nat
           /\ \A n \in 1 .. Len(bundle) :
                End(n) = End(n - 1) + Total(bundle[n]) + 3 /\ Total(bundle[n]) \in Nat
           /\ End(0) = 1
<1>1. /\ current_position \in Nat /\ current_skipped \in Nat /\ result.n \in Nat
      /\ want \in Nat /\ Len(buffer) \in Nat
  BY DEF InstallInv, UsedInv, HttpTypeOK, ReadsInv
<1>2. bundle \in Seq(Payloads) /\ Len(bundle) \in Nat
  BY DEF InstallInv, ReaderInv
<1>3. stage \in {"block", "data", "raw"} => remaining_data \in Int
  <2>1. CASE stage = "raw"
    BY <2>1 DEF InstallInv, ReadsInv
  <2>2. CASE stage \in {"block", "data"}
    <3>1. Payload \in Payloads /\ block - 1 \in 0 .. Len(Payload.blocks)
      BY <2>2, PayloadTyped DEF InstallInv, ReaderInv, WrittenInv
    <3>. QED
      BY <2>2, <3>1, SpentTyped, SentTyped DEF InstallInv, AccountInv
  <2>. QED
    BY <2>1, <2>2
<1>4. stage \in {"start", "block", "data", "raw", "end"} => payload \in 1 .. Len(bundle)
  BY DEF InstallInv, ReaderInv
<1>5. /\ \A n \in 0 .. Len(bundle) : End(n) \in Nat
      /\ \A n \in 1 .. Len(bundle) : End(n) = End(n - 1) + Total(bundle[n]) + 3
      /\ End(0) = 1
  BY <1>2, LayoutAt DEF End
<1>6. \A n \in 1 .. Len(bundle) : Total(bundle[n]) \in Nat
  BY <1>2, SentTyped
<1>7. Took \in Nat
  BY <1>1 DEF Took
<1>. QED
  BY <1>1, <1>2, <1>3, <1>4, <1>5, <1>6, <1>7 DEF Here

LEMMA PlaceIsInStep == InstallInv /\ PlaceInv => InStep
<1>. SUFFICES ASSUME InstallInv, PlaceInv,
                     stage \in {"block", "data", "raw", "end"}, result.kind = "none"
              PROVE  LET rest == IF stage = "end" THEN want ELSE remaining_data - Len(buffer) + 1
                     IN  current_position + current_skipped = End(payload) - rest
  BY DEF InStep, End, EndOf, Until
<1>1. Here = current_position + current_skipped
  BY PlaceTypes DEF Here, Took
<1>2. /\ End(payload) \in Nat /\ Here \in Int /\ Len(buffer) \in Nat /\ want \in Nat
      /\ stage # "end" => remaining_data \in Int
  BY PlaceTypes
<1>3. /\ stage # "end" => Here = End(payload) - 1 - remaining_data + Len(buffer)
      /\ stage = "end" => Here = End(payload) - want
  BY DEF PlaceInv
<1>. QED
  BY <1>1, <1>2, <1>3

\* No step of the source moves the reader on: a skip that is applied leaves the sum alone,
\* and what is delivered has not been taken yet.
LEMMA SourcePlace ==
    ASSUME SourceInv, SourceStep, result'.kind # "failed" \/ current_skipped = 0
    PROVE  Here' = Here
<1>1. slice > 0 /\ result.kind = "none" /\ SourceInv'
  BY SourceStepInv, ResultTypes DEF SourceInv
<1>2. Took = 0 /\ Here = current_position + current_skipped
  BY <1>1 DEF Took, Here, SourceInv, HttpTypeOK
<1>3. /\ current_position \in Nat /\ current_skipped \in Nat
      /\ current_position' \in Nat /\ current_skipped' \in Nat
  BY <1>1 DEF SourceInv, HttpTypeOK
<1>4. CASE SkipAhead \/ SkipThrough \/ \E k \in 0 .. current_skipped : SkipBroken(k)
  <2>1. Skipped /\ result' = result
    BY <1>4 DEF SkipAhead, SkipThrough, SkipBroken, KeepReading
  <2>. QED
    BY <1>1, <1>2, <1>3, <2>1 DEF Skipped, Here, Took
<1>5. CASE Fetch \/ FetchRetry \/ BodyEnds \/ BodyBreaks
  <2>1. UNCHANGED <<current_position, current_skipped, result>>
    BY <1>5 DEF Fetch, FetchRetry, BodyEnds, BodyBreaks, place, KeepReading
  <2>. QED
    BY <1>1, <1>2, <1>3, <2>1 DEF Here, Took
<1>6. CASE CannotFetch \/ EndOfBundle \/ FetchFails \/ BodyFails
  <2>1. UNCHANGED <<current_position, current_skipped>> /\ result'.kind # "data"
    BY <1>6, ResultTypes DEF CannotFetch, EndOfBundle, FetchFails, BodyFails, place, Return
  <2>. QED
    BY <1>1, <1>2, <1>3, <2>1 DEF Here, Took
<1>7. ~SkipFails
  BY <1>1, ResultTypes DEF SkipFails, Skipping, Return
<1>8. ASSUME NEW n \in 1 .. slice, Receive(n)
      PROVE  Here' = Here
  <2>1. /\ n \in Nat /\ response.at \in Nat /\ current_skipped = 0 /\ current_skipped' = 0
        /\ current_position' = current_position + n /\ result' = Trait!Data(response.at, n)
    BY <1>8 DEF Receive, Receiving, Return, SourceInv, HttpTypeOK
  <2>2. Took' = n
    BY <2>1 DEF Took, Trait!Data
  <2>. QED
    BY <1>2, <1>3, <2>1, <2>2 DEF Here
<1>. QED
  BY <1>4, <1>5, <1>6, <1>7, <1>8 DEF SourceStep

\* Where a start frame is read as a header it is seen not to be one.
LEMMA SlippedStep ==
    ASSUME InstallInv, SourceInv, SourceStep, UNCHANGED reader, stage = "header",
           payload \in 1 .. Len(bundle), Here = End(payload - 1) + 1 - want,
           result'.kind = "data"
    PROVE  Delivered' # <<Frame("header", payload)>>
<1>1. slice > 0 /\ result.kind = "none" /\ SourceInv'
  BY SourceStepInv, ResultTypes DEF SourceInv
<1>2. PICK n \in 1 .. slice : Receive(n)
  <2>1. ~SkipFails /\ ~CannotFetch /\ ~EndOfBundle /\ ~FetchFails /\ ~BodyFails
    BY ResultTypes DEF SkipFails, CannotFetch, EndOfBundle, FetchFails, BodyFails, Return
  <2>2. /\ ~SkipAhead /\ ~SkipThrough /\ ~ \E k \in 0 .. current_skipped : SkipBroken(k)
        /\ ~Fetch /\ ~FetchRetry /\ ~BodyEnds /\ ~BodyBreaks
    BY <1>1 DEF SkipAhead, SkipThrough, SkipBroken, Fetch, FetchRetry, BodyEnds, BodyBreaks,
       KeepReading
  <2>. QED
    BY <2>1, <2>2 DEF SourceStep
<1>3. want = 1 /\ n = 1
  <2>1. slice \in Nat /\ slice <= want /\ want \in {0, 1}
    BY DEF InstallInv, ReadsInv, UsedInv, HttpTypeOK
  <2>. QED
    BY <1>1, <2>1
<1>4. /\ response # NoResponse /\ response.at = current_position /\ current_skipped = 0
      /\ response.at \in Nat /\ response.end \in Nat /\ 1 <= response.end - response.at
      /\ current_position \in Nat
  BY <1>1, <1>2, <1>3 DEF Receive, Receiving, SourceInv, Placed, HttpTypeOK
<1>5. result' = Trait!Data(current_position, 1) /\ of' = response.of
  BY <1>2, <1>3, <1>4 DEF Receive, Return
<1>6. current_position = End(payload - 1)
  <2>1. payload - 1 \in 0 .. Len(bundle) /\ End(payload - 1) \in Nat
    BY PlaceTypes, SMTT(30)
  <2>2. Here = current_position
    BY <1>1, <1>4 DEF Here, Took
  <2>. QED
    BY <1>3, <1>4, <2>1, <2>2
<1>7. /\ content \in Seq(Cells) /\ IsPrefix(content, Layout(bundle))
      /\ content_length = Len(content) /\ response.end <= content_length
  BY <1>4 DEF InstallInv, ReadsInv
<1>8. content[End(payload - 1) + 1] = Frame("start", payload)
  <2>1. End(payload - 1) + 1 \in 1 .. Len(content)
    BY <1>4, <1>6, <1>7
  <2>. QED
    BY <1>7, <2>1, LayoutStart, PlaceTypes DEF End
<1>9. Delivered'[1] = IF of' = "bundle" THEN content[End(payload - 1) + 1] ELSE <<"other", 1>>
  <2>1. result'.n = 1 /\ result'.from = current_position /\ content' = content
    BY <1>5 DEF Trait!Data, reader
  <2>2. Delivered' =
          [i \in 1 .. 1 |-> IF of' = "bundle" THEN content[current_position + i] ELSE <<"other", i>>]
    BY <2>1 DEF Delivered
  <2>. QED
    BY <1>6, <2>2
<1>10. Frame("start", payload) # Frame("header", payload) /\ <<"other", 1>> # Frame("header", payload)
  BY DEF Frame
<1>11. <<Frame("header", payload)>>[1] = Frame("header", payload)
  OBVIOUS
<1>. QED
  BY <1>8, <1>9, <1>10, <1>11

LEMMA PlaceSourceStep ==
    ASSUME InstallInv, PlaceInv, SourceStep, UNCHANGED reader
    PROVE  PlaceInv'
<1>1. SourceInv /\ slice > 0 /\ result.kind = "none"
  <2>1. slice > 0
    BY DEF SourceStep, SkipAhead, SkipThrough, SkipFails, SkipBroken, CannotFetch,
       EndOfBundle, Fetch, FetchRetry, FetchFails, Receive, BodyEnds, BodyBreaks, BodyFails,
       Skipping, Fetching, Receiving
  <2>. QED
    BY <2>1, ReadingIsInv, ResultTypes DEF InstallInv, UsedInv
<1>2. result'.kind # "failed" \/ stage = "start" => Here' = Here
  BY <1>1, SourcePlace DEF InstallInv, UsedInv
<1>3. UNCHANGED <<stage, want, payload, bundle, remaining_data, buffer>> /\ \A n : End(n)' = End(n)
  BY DEF reader, End
<1>4. stage = "header" /\ payload # 0 /\ Here = End(payload - 1) + 1 - want
        /\ result'.kind = "data" => Delivered' # <<Frame("header", payload)>>
  <2>1. stage = "header" /\ payload # 0 => payload \in 1 .. Len(bundle)
    BY PlaceTypes DEF InstallInv, ReaderInv
  <2>. QED
    BY <1>1, <2>1, SlippedStep
<1>5. stage = "header" => want # 0
  BY <1>1 DEF InstallInv, ReadsInv, UsedInv, HttpTypeOK
<1>6. stage = "header" /\ result'.kind # "failed" => HeaderPlace'
  BY <1>1, <1>2, <1>3, <1>4, <1>5 DEF PlaceInv, HeaderPlace, End
<1>. QED
  BY <1>1, <1>2, <1>3, <1>6 DEF PlaceInv, End

LEMMA PlaceReads ==
    ASSUME InstallInv, PlaceInv, Exact \/ ReadRaw
    PROVE  PlaceInv'
<1>1. /\ UNCHANGED <<current_position, current_skipped, reader>> /\ result' = Trait!NoResult
      /\ result.kind = "none"
  BY DEF Exact, ReadRaw, Ready, ReadCall, place
<1>2. Here' = Here /\ \A n : End(n)' = End(n)
  BY <1>1, ResultTypes DEF Here, Took, End, reader
<1>3. UNCHANGED <<stage, want, payload, remaining_data, buffer>>
  BY <1>1 DEF reader
<1>. QED
  BY <1>1, <1>2, <1>3, ResultTypes DEF PlaceInv, HeaderPlace, End

LEMMA PlaceTaken ==
    ASSUME InstallInv, PlaceInv, TakeData
    PROVE  PlaceInv'
<1>1. /\ UNCHANGED <<current_position, current_skipped, bundle, payload, stage, remaining_data>>
      /\ result' = Trait!NoResult /\ result.kind = "data" /\ stage # "any" /\ want > 0
      /\ want' = want - result.n /\ buffer' = buffer \o Delivered
  BY DEF TakeData, Consume, place, SameBundle, SamePlace, Running
<1>2. Delivered \in Seq(Bits) /\ Len(Delivered) = result.n /\ result.n \in Nat \ {0}
      /\ buffer \in Seq(Bits)
  BY <1>1, DeliveredIs DEF InstallInv, ReadsInv
<1>3. Here' = Here + result.n /\ result.n \in Nat /\ Here \in Int /\ want \in Nat
  BY <1>1, PlaceTypes, ResultTypes, SMTT(30) DEF Here, Took
<1>4. Len(buffer') = Len(buffer) + result.n /\ Len(buffer) \in Nat
  BY <1>1, <1>2, SMTT(30)
<1>5. \A n : End(n)' = End(n)
  BY <1>1 DEF End
<1>6. CASE stage = "header"
  <2>1. want = 1 /\ buffer = <<>>
    BY <1>1, <1>6 DEF InstallInv, ReadsInv
  <2>2. result.n = 1
    BY <1>1, <1>2, <1>6, <2>1 DEF InstallInv, ReadsInv
  <2>3. buffer' = Delivered /\ want' = 0
    BY <1>1, <1>2, <2>1, <2>2
  <2>4. payload \in 0 .. Len(bundle)
    BY <1>6 DEF InstallInv, ReaderInv
  <2>5. payload # 0 => End(payload - 1) \in Nat
    BY <2>4, PlaceTypes
  <2>6. HeaderPlace
    BY <1>1, <1>6 DEF PlaceInv
  <2>7. HeaderPlace'
    BY <1>1, <1>3, <1>5, <2>1, <2>2, <2>3, <2>4, <2>5, <2>6, ResultTypes DEF HeaderPlace, End
  <2>. QED
    BY <1>1, <1>6, <2>7 DEF PlaceInv
<1>7. CASE stage = "start"
  <2>1. End(payload - 1) \in Nat
    BY <1>7, PlaceTypes
  <2>. QED
    BY <1>1, <1>3, <1>5, <1>7, <2>1, SMTT(30) DEF PlaceInv, End
<1>8. CASE stage \in {"data", "block", "raw"}
  <2>1. End(payload) \in Nat /\ remaining_data \in Int
    BY <1>8, PlaceTypes
  <2>2. Here = End(payload) - 1 - remaining_data + Len(buffer)
    BY <1>1, <1>8 DEF PlaceInv
  <2>3. Here' = End(payload) - 1 - remaining_data + Len(buffer')
    BY <1>3, <1>4, <2>1, <2>2
  <2>. QED
    BY <1>1, <1>5, <1>8, <2>3 DEF PlaceInv, End
<1>9. CASE stage = "end"
  <2>1. End(payload) \in Nat
    BY <1>9, PlaceTypes
  <2>. QED
    BY <1>1, <1>3, <1>5, <1>9, <2>1 DEF PlaceInv, End
<1>10. CASE stage \notin {"header", "start", "data", "block", "raw", "end"}
  BY <1>1, <1>10 DEF PlaceInv
<1>. QED
  BY <1>6, <1>7, <1>8, <1>9, <1>10

LEMMA PlaceWritten ==
    ASSUME InstallInv, PlaceInv, WriteRaw
    PROVE  PlaceInv'
<1>1. /\ UNCHANGED <<current_position, current_skipped, bundle, payload, stage, want, buffer>>
      /\ result' = Trait!NoResult /\ result.kind = "data" /\ stage = "raw"
      /\ remaining_data' = remaining_data - result.n
  BY DEF WriteRaw, Consume, place, SameBundle
<1>2. Here' = Here + result.n /\ result.n \in Nat /\ Here \in Int
  <2>1. Took = result.n /\ Took' = 0
    BY <1>1, ResultTypes DEF Took
  <2>2. result.n \in Nat /\ Here \in Int /\ current_position \in Nat /\ current_skipped \in Nat
    BY PlaceTypes
  <2>. QED
    BY <1>1, <2>1, <2>2 DEF Here
<1>3. End(payload)' = End(payload) /\ End(payload) \in Nat /\ remaining_data \in Int
      /\ Len(buffer) \in Nat
  BY <1>1, PlaceTypes DEF End
<1>. QED
  BY <1>1, <1>2, <1>3, SMTT(30) DEF PlaceInv

LEMMA PlaceStarted ==
    ASSUME InstallInv, PlaceInv, PayloadStart
    PROVE  PlaceInv'
<1>1. /\ UNCHANGED <<current_position, current_skipped, bundle, payload>> /\ result' = Trait!NoResult
      /\ stage = "start" /\ stage' = "header" /\ want' = 1 /\ buffer' = <<>>
      /\ want = 0 \/ result.kind # "data"
  BY DEF PayloadStart, Consume, place, SameBundle, SamePlace, Stage, Await
<1>2. result.kind # "data"
  BY <1>1 DEF InstallInv, ReadsInv, UsedInv, HttpTypeOK
<1>3. Here' = Here /\ \A n : End(n)' = End(n)
  BY <1>1, <1>2, ResultTypes DEF Here, Took, End
<1>4. want \in {0, 1} /\ payload \in 1 .. Len(bundle) /\ End(payload - 1) \in Nat
  BY <1>1, PlaceTypes, SMTT(30) DEF InstallInv, ReadsInv
<1>5. Here = End(payload - 1) + 1 - want
  BY <1>1 DEF PlaceInv
<1>6. HeaderPlace'
  BY <1>1, <1>3, <1>4, <1>5, ResultTypes DEF HeaderPlace, End
<1>. QED
  BY <1>1, <1>6 DEF PlaceInv

\* The frames around a payload.
LEMMA PlaceFrames ==
    ASSUME InstallInv, PlaceInv, StartBundle \/ EndPayload \/ SkipPayload \/ StartPayload
    PROVE  PlaceInv'
<1>. USE DEF Stage, Await, SameBundle, SamePlace, Ready
<1>0. result.kind = "none" /\ want = 0 /\ bundle' = bundle /\ (\A n : End(n)' = End(n))
      /\ Here = current_position + current_skipped
  <2>1. result.kind = "none" /\ want = 0 /\ bundle' = bundle
    BY DEF StartBundle, EndPayload, SkipPayload, StartPayload, Fail
  <2>. QED
    BY <2>1, PlaceTypes DEF End, Here, Took
<1>1. CASE StartBundle
  <2>1. /\ UNCHANGED source /\ payload = 0 /\ payload' = 1 /\ stage = "header"
        /\ stage' = "done" \/ (stage' = "start" /\ want' = 1)
    BY <1>1 DEF StartBundle, NextPayload, StayInSource
  <2>2. Here' = Here /\ Here = 1
    BY <1>0, <2>1 DEF source, place, Here, Took, PlaceInv, HeaderPlace
  <2>3. End(0) = 1 /\ payload' - 1 = 0
    BY <2>1, PlaceTypes
  <2>. QED
    BY <1>0, <2>1, <2>2, <2>3 DEF PlaceInv, End
<1>2. CASE EndPayload
  <2>1. /\ UNCHANGED source /\ payload' = payload + 1 /\ stage = "end"
        /\ stage' = "done" \/ (stage' = "start" /\ want' = 1)
    BY <1>2 DEF EndPayload, NextPayload, StayInSource
  <2>2. Here' = Here /\ Here = End(payload) - 0
    BY <1>0, <2>1 DEF source, place, Here, Took, PlaceInv
  <2>3. payload' - 1 = payload /\ End(payload) \in Nat
    BY <2>1, PlaceTypes, SMTT(30)
  <2>. QED
    BY <1>0, <2>1, <2>2, <2>3 DEF PlaceInv, End
<1>3. ASSUME stage = "header", payload > 0, buffer = <<Frame("header", payload)>>
      PROVE  /\ Here = End(payload) - 1 - Total(Payload) /\ Total(Payload) \in Nat
             /\ End(payload) \in Nat
  <2>1. payload \in 1 .. Len(bundle) /\ Payload = bundle[payload]
    BY <1>3, PlaceTypes DEF InstallInv, ReaderInv, Payload
  <2>2. End(payload) = End(payload - 1) + Total(Payload) + 3 /\ Total(Payload) \in Nat
        /\ End(payload - 1) \in Nat /\ payload # 0
    BY <2>1, PlaceTypes
  <2>3. Here = End(payload - 1) + 2 - 0
    BY <1>0, <1>3, <2>2 DEF PlaceInv, HeaderPlace
  <2>. QED
    BY <2>2, <2>3
<1>4. CASE SkipPayload
  <2>1. /\ SkipCall(Total(Payload)) /\ stage = "header" /\ payload > 0
        /\ buffer = <<Frame("header", payload)>> /\ stage' = "end" /\ want' = 1 /\ payload' = payload
    BY <1>4 DEF SkipPayload, Total
  <2>2. Here' = Here + Total(Payload)
    BY <1>0, <1>3, <2>1, PlaceTypes, SMTT(30) DEF SkipCall, Here, Took
  <2>3. Here' = End(payload) - 1
    BY <1>3, <2>1, <2>2
  <2>. QED
    BY <1>0, <2>1, <2>3 DEF PlaceInv, End
<1>5. CASE StartPayload
  <2>1. /\ UNCHANGED source /\ stage = "header" /\ payload > 0
        /\ buffer = <<Frame("header", payload)>>
    BY <1>5 DEF StartPayload, StayInSource
  <2>2. CASE stage' = "failed"
    BY <2>2 DEF PlaceInv
  <2>3. CASE stage' # "failed"
    <3>1. /\ stage' \in {"raw", "block"} /\ payload' = payload /\ buffer' = <<>>
          /\ remaining_data' = Total(Payload)
      BY <1>5, <2>3 DEF StartPayload, Fail, Total
    <3>2. Here' = Here /\ Len(buffer') = 0
      BY <1>0, <2>1, <3>1 DEF source, place, Here, Took
    <3>3. Here' = End(payload) - 1 - Total(Payload) + 0
      BY <1>3, <2>1, <3>2
    <3>. QED
      BY <1>0, <3>1, <3>2, <3>3 DEF PlaceInv, End
  <2>. QED
    BY <2>2, <2>3
<1>. QED
  BY <1>1, <1>2, <1>4, <1>5

\* The blocks of a payload.
LEMMA PlaceBlocks ==
    ASSUME InstallInv, PlaceInv, UseStored \/ Download \/ Downloaded \/ Again \/ Decoded
    PROVE  PlaceInv'
<1>. USE DEF Stage, Await, SameBundle, SamePlace, Ready, MoreBlocks
<1>0. /\ result.kind = "none" /\ want = 0 /\ bundle' = bundle /\ payload' = payload
      /\ stage \in {"block", "data", "raw"} /\ End(payload)' = End(payload)
      /\ Here = current_position + current_skipped
      /\ Here = End(payload) - 1 - remaining_data + Len(buffer)
      /\ End(payload) \in Nat /\ remaining_data \in Int /\ Len(buffer) \in Nat
  <2>1. result.kind = "none" /\ want = 0 /\ bundle' = bundle /\ payload' = payload
        /\ stage \in {"block", "data", "raw"}
    BY DEF UseStored, Download, Downloaded, Again, Decoded, Local, Fail
  <2>2. /\ End(payload) \in Nat /\ remaining_data \in Int /\ Len(buffer) \in Nat
        /\ current_position \in Nat /\ current_skipped \in Nat
    BY <2>1, PlaceTypes
  <2>3. End(payload)' = End(payload)
    BY <2>1 DEF End
  <2>4. Here = current_position + current_skipped
    BY <2>1, <2>2 DEF Here, Took
  <2>5. Here = End(payload) - 1 - remaining_data + Len(buffer)
    BY <2>1 DEF PlaceInv
  <2>. QED
    BY <2>1, <2>2, <2>3, <2>4, <2>5
<1>1. stage \in {"block", "raw"} => Len(buffer) = 0
  BY DEF InstallInv, ReadsInv
<1>2. CASE stage' = "failed"
  BY <1>2 DEF PlaceInv
<1>3. CASE UseStored
  <2>1. /\ SkipCall(BlockSize) /\ stage = "block" /\ stage' = "block" /\ buffer' = <<>>
        /\ remaining_data' = remaining_data - BlockSize
    BY <1>3 DEF UseStored, Local
  <2>2. BlockSize \in Nat
    BY <1>3, BlockSizeIs DEF UseStored, Local, InstallInv
  <2>3. Here' = Here + BlockSize /\ Len(buffer') = 0
    <3>1. /\ current_position' = current_position /\ result' = result
          /\ current_skipped' = current_skipped + BlockSize
      BY <2>1 DEF SkipCall
    <3>2. current_position \in Nat /\ current_skipped \in Nat
      BY PlaceTypes
    <3>. QED
      BY <1>0, <2>1, <2>2, <3>1, <3>2 DEF Here, Took
  <2>4. Here' = End(payload) - 1 - remaining_data' + Len(buffer')
    BY <1>0, <1>1, <2>1, <2>2, <2>3
  <2>. QED
    BY <1>0, <2>1, <2>4 DEF PlaceInv
<1>4. ASSUME UNCHANGED source
      PROVE  Here' = Here
  BY <1>4 DEF source, place, Here, Took
<1>5. CASE Download
  <2>1. /\ UNCHANGED source /\ stage = "block" /\ stage' = "data" /\ buffer' = <<>>
        /\ remaining_data' = remaining_data
    BY <1>5 DEF Download, StayInSource
  <2>2. Here' = End(payload) - 1 - remaining_data' + Len(buffer')
    BY <1>0, <1>1, <1>4, <2>1
  <2>. QED
    BY <1>0, <2>1, <2>2 DEF PlaceInv
<1>6. CASE Downloaded /\ stage' # "failed"
  <2>1. /\ UNCHANGED source /\ stage' = "block" /\ buffer' = <<>>
        /\ remaining_data' = remaining_data - Len(buffer)
    BY <1>6 DEF Downloaded, StayInSource, Fail
  <2>2. Here' = End(payload) - 1 - remaining_data' + Len(buffer')
    <3>1. Len(buffer') = 0
      BY <2>1
    <3>. QED
      BY <1>0, <1>4, <2>1, <3>1
  <2>. QED
    BY <1>0, <2>1, <2>2 DEF PlaceInv
<1>7. CASE Again /\ stage' # "failed"
  <2>1. /\ UNCHANGED source /\ stage = "block" /\ stage' = "block" /\ buffer' = <<>>
        /\ remaining_data' = remaining_data
    BY <1>7 DEF Again, StayInSource, Fail
  <2>2. Here' = End(payload) - 1 - remaining_data' + Len(buffer')
    BY <1>0, <1>1, <1>4, <2>1
  <2>. QED
    BY <1>0, <2>1, <2>2 DEF PlaceInv
<1>8. CASE Decoded /\ stage' # "failed"
  <2>1. /\ UNCHANGED source /\ stage' = "end" /\ want' = 1
        /\ (stage = "block" /\ block > Len(Payload.blocks)) \/ (stage = "raw" /\ remaining_data = 0)
    BY <1>8 DEF Decoded, StayInSource, Fail
  <2>2. remaining_data = 0
    <3>. SUFFICES ASSUME stage = "block", block > Len(Payload.blocks)
                  PROVE  remaining_data = 0
      BY <2>1
    <3>1. Payload \in Payloads /\ block \in 1 .. Len(Payload.blocks) + 1
          /\ Len(Payload.blocks) \in Nat
      BY PayloadTyped DEF InstallInv, ReaderInv, WrittenInv
    <3>2. block - 1 = Len(Payload.blocks)
      BY <3>1
    <3>3. remaining_data = Total(Payload) - Spent(Payload, block - 1)
      BY DEF InstallInv, AccountInv
    <3>. QED
      BY <3>1, <3>2, <3>3, SentTyped
  <2>3. Here' = End(payload) - want'
    BY <1>0, <1>1, <1>4, <2>1, <2>2
  <2>. QED
    BY <1>0, <2>1, <2>3 DEF PlaceInv
<1>. QED
  BY <1>2, <1>3, <1>5, <1>6, <1>7, <1>8

LEMMA PlaceStep ==
    ASSUME InstallInv, PlaceInv, [Next]_allVars
    PROVE  PlaceInv'
<1>1. CASE ReaderStep
  <2>1. CASE TakeFailure \/ BadFrame \/ StoredUnreadable
    BY <2>1 DEF TakeFailure, BadFrame, StoredUnreadable, Fail, Stage, PlaceInv
  <2>. QED
    BY <1>1, <2>1, PlaceReads, PlaceTaken, PlaceWritten, PlaceStarted, PlaceFrames, PlaceBlocks
    DEF ReaderStep
<1>2. CASE InSource
  BY <1>2, PlaceSourceStep DEF InSource
<1>3. CASE Anybody
  BY <1>3 DEF Anybody, reader, PlaceInv
<1>4. CASE Replace /\ UNCHANGED reader
  BY <1>4 DEF Replace, reader, place, PlaceInv, HeaderPlace, Here, Took, End, Delivered
<1>5. CASE UNCHANGED allVars
  BY <1>5 DEF allVars, source, reader, place, PlaceInv, HeaderPlace, Here, Took, End, Delivered
<1>. QED
  BY <1>1, <1>2, <1>3, <1>4, <1>5 DEF Next

\* For every bundle, every block size and every device: the source stands where the rest
\* of the payload is left to read, whichever blocks were skipped, stored, repeated or
\* downloaded.
THEOREM AlwaysInStep == Spec => []InStep
<1>1. InstallInv /\ PlaceInv => InStep
  BY PlaceIsInStep
<1>2. InstallInv /\ PlaceInv /\ [Next]_allVars => PlaceInv'
  BY PlaceStep
<1>. QED
  BY <1>1, <1>2, PlaceInit, InstallInvariant, PTL DEF Spec
-----------------------------------------------------------------------------
(* An installation that nothing speaks against.                            *)

\* Nothing has happened that an installation may be refused for.
Spared ==
    /\ faults <= (IF use_range_queries THEN MaxRetries ELSE 0) /\ ~refused
    /\ served = "bundle" /\ Len(content) >= Len(Layout(bundle))
    /\ \A i \in DOMAIN bundle : ~Unsuited(bundle[i])
    /\ use_indices => ~ProviderFails /\ \A s \in DOMAIN slots : ~ShortSlot(slots[s])

Slots == [index : Seq(DOMAIN Size) \cup {Missing, Torn}, data : Seq(STRING \X Nat)]

\* The blocks that have been written, where they can be read back.
Written(j) ==
    [offset |-> Len(Flatten(SubSeq(Payload.blocks, 1, j - 1))), size |-> Size[Payload.blocks[j]]]
BlocksInv ==
    /\ slots \in Seq(Slots)
    /\ stage \in {"block", "data"} =>
        /\ target_blocks \in Seq([offset : Nat, size : Nat]) /\ Len(target_blocks) = block - 1
        /\ \A j \in 1 .. block - 1 : target_blocks[j] = Written(j)

\* The source has reconnected as often as it had to.
SourceSound ==
    /\ result.kind \in {"none", "data"}
    /\ consecutive_retries <= faults
    /\ response # NoResponse => response.of = "bundle"
    /\ ~use_range_queries =>
        response # NoResponse /\ response.end = content_length /\ current_end = NoEnd
    /\ result.kind = "data" => of = "bundle" /\ result.from = Here

\* What the reader holds is what the bundle has in this place.
ReaderSound ==
    /\ stage # "failed" /\ (stage = "done" => slice = 0)
    /\ stage = "header" => Here = (IF payload = 0 THEN 1 ELSE End(payload - 1) + 2) - want
    /\ stage \in {"header", "end"} /\ want = 0 => buffer = <<content[Here]>>
    /\ stage \in {"block", "data", "raw"} => Payload.target # "none"
    /\ stage = "data" =>
        /\ want + Len(buffer) = Size[Hash]
        /\ \A i \in 1 .. Len(buffer) : buffer[i] = content[Here - Len(buffer) + i]
    /\ stage = "raw" =>
        /\ Payload.encoding = "raw" /\ target \in Seq(Bits)
        /\ Len(target) = Total(Payload) - remaining_data
        /\ \A i \in 1 .. Len(target) : target[i] = Flatten(Payload.blocks)[i]

SoundInv == BlocksInv /\ (Spared /\ stage # "any" => SourceSound /\ ReaderSound)

LEMMA LayoutHead ==
    ASSUME NEW ps \in Seq(Payloads)
    PROVE  Layout(ps)[1] = Frame("header", 0) /\ Len(Layout(ps)) \in Nat /\ 1 <= Len(Layout(ps))
<1>1. FlattenSeq(Parts(ps)) \in Seq(Cells)
  <2>1. Parts(ps) \in Seq(Seq(Cells)) /\ SubSeq(Parts(ps), 1, Len(Parts(ps))) = Parts(ps)
        /\ Len(Parts(ps)) \in 0 .. Len(Parts(ps))
    BY PartsTyped
  <2>. QED
    BY <2>1, FlattenSeqTyped
<1>2. Layout(ps) = <<Frame("header", 0)>> \o FlattenSeq(Parts(ps))
  BY DEF Layout, Parts, Part
<1>3. \A s \in Seq(Cells) : \A x : (<<x>> \o s)[1] = x /\ Len(<<x>> \o s) \in Nat /\ 1 <= Len(<<x>> \o s)
  OBVIOUS
<1>. QED
  BY <1>1, <1>2, <1>3

\* Where a block that is sent is found among the bytes of the payload.
LEMMA SentCells ==
    ASSUME NEW p \in Payloads, NEW i \in 1 .. Len(p.blocks), IsSent(p, i)
    PROVE  /\ Spent(p, i - 1) + Size[p.blocks[i]] <= Total(p)
           /\ \A k \in 1 .. Size[p.blocks[i]] :
                Flatten(Sent(p))[Spent(p, i - 1) + k] = Bytes(p.blocks[i])[k]
<1>. DEFINE f == SentOf(p)
            b == p.blocks[i]
<1>1. i \in 0 .. Len(p.blocks) /\ i - 1 \in 0 .. Len(p.blocks)
  OBVIOUS
<1>2. /\ f[i] \in Seq(DOMAIN Size) /\ f[i - 1] \in Seq(DOMAIN Size)
      /\ Sent(p) \in Seq(DOMAIN Size) /\ b \in DOMAIN Size
      /\ Flatten(f[i]) = Flatten(f[i - 1]) \o Bytes(b)
  BY <1>1, SpentTyped, SentTyped, SentNext
<1>3. Len(f[i]) <= Len(Sent(p)) /\ f[i] = SubSeq(Sent(p), 1, Len(f[i]))
  BY <1>1, SendsPrefix
<1>. HIDE DEF f, b
<1>4. IsPrefix(Flatten(f[i]), Flatten(Sent(p)))
  <2>1. Len(f[i]) \in 0 .. Len(Sent(p))
    BY <1>2, <1>3
  <2>. QED
    BY <1>2, <1>3, <2>1, FlattenPrefix
<1>5. /\ Flatten(f[i - 1]) \in Seq(AllBytes) /\ Flatten(Sent(p)) \in Seq(AllBytes)
      /\ Bytes(b) \in Seq(AllBytes) /\ Len(Bytes(b)) = Size[b]
  BY <1>2, FlattenTyped, BytesTyped
<1>6. /\ Len(Flatten(f[i - 1])) + Size[b] <= Len(Flatten(Sent(p)))
      /\ \A k \in 1 .. Size[b] : Flatten(Sent(p))[Len(Flatten(f[i - 1])) + k] = Bytes(b)[k]
  BY <1>2, <1>4, <1>5, ConcatAt
<1>. QED
  BY <1>6 DEF f, b, Spent, Total

\* Where a block is found among all blocks up to the n-th.
LEMMA BlockCells ==
    ASSUME NEW bs \in Seq(DOMAIN Size), NEW n \in 0 .. Len(bs), NEW j \in 1 .. n
    PROVE  LET at == Len(Flatten(SubSeq(bs, 1, j - 1)))
               all == Flatten(SubSeq(bs, 1, n))
           IN  /\ at + Size[bs[j]] <= Len(all) /\ at \in Nat /\ Len(all) \in Nat
               /\ bs[j] \in DOMAIN Size
               /\ SubSeq(all, at + 1, at + Size[bs[j]]) = Bytes(bs[j])
<1>. DEFINE cs == SubSeq(bs, 1, n)
<1>1. /\ cs \in Seq(DOMAIN Size) /\ Len(cs) = n /\ j \in 0 .. n /\ j - 1 \in 0 .. n /\ j \in 1 .. n
      /\ SubSeq(cs, 1, j) = SubSeq(bs, 1, j) /\ SubSeq(cs, 1, j - 1) = SubSeq(bs, 1, j - 1)
      /\ cs[j] = bs[j] /\ bs[j] \in DOMAIN Size
  OBVIOUS
<1>. DEFINE before == Flatten(SubSeq(bs, 1, j - 1))
<1>2. IsPrefix(Flatten(SubSeq(cs, 1, j)), Flatten(cs))
  BY <1>1, FlattenPrefix
<1>3. Flatten(SubSeq(cs, 1, j)) = before \o Bytes(bs[j])
  BY <1>1, FlattenNext
<1>4. before \in Seq(AllBytes) /\ Flatten(cs) \in Seq(AllBytes)
  BY <1>1, FlattenTyped
<1>5. Bytes(bs[j]) \in Seq(AllBytes) /\ Len(Bytes(bs[j])) = Size[bs[j]]
  BY <1>1, BytesTyped
<1>. HIDE DEF cs, before
<1>6. IsPrefix(before \o Bytes(bs[j]), Flatten(cs))
  BY <1>2, <1>3
<1>7. /\ Len(before) + Len(Bytes(bs[j])) <= Len(Flatten(cs))
      /\ SubSeq(Flatten(cs), Len(before) + 1, Len(before) + Len(Bytes(bs[j]))) = Bytes(bs[j])
  BY <1>4, <1>5, <1>6, ConcatAt
<1>8. Len(before) \in Nat /\ Len(Flatten(cs)) \in Nat
  BY <1>4
<1>. QED
  BY <1>1, <1>5, <1>7, <1>8 DEF cs, before

\* The least of some positions, and the first place of a block.
LEMMA LeastPlace ==
    ASSUME NEW n \in Nat, NEW I \in SUBSET (1 .. n), I # {}
    PROVE  Min(I) \in I /\ \A i \in I : Min(I) <= i
<1>. DEFINE S == {k \in Nat : \A i \in I : k < i}
<1>1. \E m \in I : \A i \in I : m <= i
  <2>. SUFFICES ASSUME \A m \in I : \E i \in I : i < m
                PROVE  FALSE
    OBVIOUS
  <2>1. 0 \in S
    OBVIOUS
  <2>2. ASSUME NEW k \in Nat, k \in S PROVE k + 1 \in S
    BY <2>2
  <2>. HIDE DEF S
  <2>3. Nat \subseteq S
    BY <2>1, <2>2, SetInduction
  <2>4. n \in S
    BY <2>3
  <2>5. PICK i \in I : TRUE
    OBVIOUS
  <2>. QED
    BY <2>4, <2>5 DEF S
<1>. QED
  BY <1>1 DEF Min

LEMMA FirstOf ==
    ASSUME NEW bs, Len(bs) \in Nat, NEW c, NEW i \in 1 .. Len(bs), bs[i] = c
    PROVE  LET I == {k \in 1 .. Len(bs) : bs[k] = c}
           IN  I # {} /\ Min(I) \in 1 .. i /\ bs[Min(I)] = c
<1>. DEFINE I == {k \in 1 .. Len(bs) : bs[k] = c}
<1>1. I \in SUBSET (1 .. Len(bs)) /\ i \in I /\ Len(bs) \in Nat
  OBVIOUS
<1>2. Min(I) \in I /\ Min(I) <= i
  BY <1>1, LeastPlace
<1>. QED
  BY <1>1, <1>2

LEMMA BlocksStep ==
    ASSUME InstallInv, BlocksInv, [Next]_allVars
    PROVE  BlocksInv'
<1>. USE DEF SameBundle, SamePlace, SameTarget, Stage, Ready
<1>0. slots' = slots
  BY DEF Next, ReaderStep, InSource, Anybody, allVars, reader, Exact, TakeData, TakeFailure,
     PayloadStart, BadFrame, StartBundle, SkipPayload, StartPayload, EndPayload, UseStored,
     StoredUnreadable, Download, Downloaded, Again, ReadRaw, WriteRaw, Decoded, Fail
<1>1. CASE stage' \notin {"block", "data"}
  BY <1>0, <1>1 DEF BlocksInv
<1>2. CASE StartPayload /\ stage' = "block"
  <2>1. block' = 1 /\ target_blocks' = <<>>
    BY <1>2 DEF StartPayload, Fail
  <2>2. 1 .. block' - 1 = {} /\ Len(target_blocks') = block' - 1
    BY <2>1
  <2>. QED
    BY <1>0, <2>1, <2>2 DEF BlocksInv
<1>3. ASSUME stage \in {"block", "data"}, block <= Len(Payload.blocks), Put(Bytes(Hash)),
             UNCHANGED <<bundle, payload>>
      PROVE  BlocksInv'
  <2>1. /\ Payload \in Payloads /\ Payload.blocks \in Seq(DOMAIN Size)
        /\ block \in 1 .. Len(Payload.blocks) /\ target = Flatten(SubSeq(Payload.blocks, 1, block - 1))
        /\ Hash = Payload.blocks[block] /\ Hash \in DOMAIN Size
    BY <1>3, PayloadTyped DEF InstallInv, ReaderInv, WrittenInv, Hash
  <2>2. Payload' = Payload /\ block' = block + 1 /\ block' - 1 = block
    BY <1>3, <2>1 DEF Payload, Put
  <2>3. Len(Bytes(Hash)) = Size[Hash] /\ Size[Hash] \in Nat
    BY <2>1, BytesTyped
  <2>4. Len(target) \in Nat
    <3>1. block - 1 \in 0 .. Len(Payload.blocks)
      BY <2>1
    <3>2. target \in Seq(AllBytes)
      BY <2>1, <3>1, FlattenTyped
    <3>. QED
      BY <3>2
  <2>5. target_blocks' = Append(target_blocks, Written(block))
        /\ Written(block) \in [offset : Nat, size : Nat]
    BY <1>3, <2>1, <2>3, <2>4 DEF Put, Written
  <2>6. /\ target_blocks \in Seq([offset : Nat, size : Nat]) /\ Len(target_blocks) = block - 1
        /\ \A j \in 1 .. block - 1 : target_blocks[j] = Written(j)
    BY <1>3 DEF BlocksInv
  <2>7. \A j : Written(j)' = Written(j)
    BY <2>2 DEF Written
  <2>8. /\ target_blocks' \in Seq([offset : Nat, size : Nat]) /\ Len(target_blocks') = block
        /\ \A j \in 1 .. block : target_blocks'[j] = Written(j)
    <3>. HIDE DEF Written
    <3>1. block \in Nat /\ block >= 1
      BY <2>1
    <3>. QED
      BY <2>5, <2>6, <3>1
  <2>. QED
    BY <1>0, <2>2, <2>7, <2>8 DEF BlocksInv
<1>4. CASE UseStored
  BY <1>3, <1>4 DEF UseStored, Local, MoreBlocks
<1>5. CASE Downloaded /\ stage' = "block"
  <2>1. buffer = Bytes(Hash) /\ Put(buffer) /\ stage = "data" /\ UNCHANGED <<bundle, payload>>
    BY <1>5 DEF Downloaded, Fail
  <2>2. block <= Len(Payload.blocks)
    BY <2>1 DEF InstallInv, WrittenInv
  <2>. QED
    BY <1>3, <2>1, <2>2
<1>6. CASE Again /\ stage' = "block"
  <2>1. /\ Put(Bytes(Hash)) /\ UNCHANGED <<bundle, payload>>
        /\ stage = "block" /\ block <= Len(Payload.blocks)
    BY <1>6 DEF Again, MoreBlocks, Fail
  <2>. QED
    BY <1>3, <2>1
<1>7. CASE Download
  BY <1>0, <1>7 DEF Download, MoreBlocks, BlocksInv, Written, Payload
<1>8. CASE UNCHANGED <<bundle, payload, block, target_blocks, stage>>
  BY <1>0, <1>8 DEF BlocksInv, Written, Payload
<1>. QED
  BY <1>1, <1>2, <1>4, <1>5, <1>6, <1>7, <1>8 DEF Next, ReaderStep, InSource, Anybody, allVars,
     reader, Exact, TakeData, ReadRaw, WriteRaw, TakeFailure, PayloadStart, BadFrame,
     StartBundle, SkipPayload, StartPayload, EndPayload, StoredUnreadable, Downloaded, Again,
     Decoded, Fail, NextPayload

\* A slot that is not shorter than what its index lists has every block of it.
LEMMA ListedReadable ==
    ASSUME slots \in Seq(Slots), \A s \in DOMAIN slots : ~ShortSlot(slots[s]),
           NEW b \in DOMAIN Size, Query(b) > 0
    PROVE  Readable(b)
<1>. DEFINE each == [s \in DOMAIN slots |-> s]
            I == {i \in 1 .. Len(each) : Lists(each[i], b)}
            q == Query(b)
<1>1. Len(each) = Len(slots) /\ Len(slots) \in Nat /\ \A i \in 1 .. Len(slots) : each[i] = i
  OBVIOUS
<1>2. q = IF I # {} THEN Min(I) ELSE 0
  BY DEF Query, SelectInSeq
<1>3. q \in I
  <2>1. I # {} /\ I \in SUBSET (1 .. Len(slots))
    BY <1>1, <1>2
  <2>. QED
    BY <1>1, <1>2, <2>1, LeastPlace
<1>4. q \in 1 .. Len(slots) /\ Lists(q, b)
  BY <1>1, <1>3
<1>. HIDE DEF q, I
<1>. DEFINE index == slots[q].index
            at == SelectInSeq(index, LAMBDA c : c = b)
<1>5. index \in Seq(DOMAIN Size) /\ slots[q].data \in Seq(STRING \X Nat) /\ index # Missing
      /\ ~ShortSlot(slots[q])
  <2>1. slots[q] \in Slots /\ q \in DOMAIN slots
    BY <1>4
  <2>2. index \notin {Missing, Torn}
    BY <1>4 DEF Lists
  <2>. QED
    BY <2>1, <2>2 DEF Slots
<1>6. PICK i \in 1 .. Len(index) : index[i] = b
  BY <1>4 DEF Lists, Contains
<1>7. at \in 1 .. i /\ index[at] = b
  <2>. DEFINE J == {k \in 1 .. Len(index) : index[k] = b}
  <2>1. at = IF J # {} THEN Min(J) ELSE 0
    BY DEF SelectInSeq
  <2>. HIDE DEF at, index
  <2>2. J # {} /\ Min(J) \in 1 .. i /\ index[Min(J)] = b
    <3>1. Len(index) \in Nat
      BY <1>5
    <3>. QED
      BY <1>6, <3>1, FirstOf
  <2>. HIDE DEF J
  <2>. QED
    BY <2>1, <2>2
<1>8. Len(Flatten(index)) <= Len(slots[q].data)
  <2>1. Len(Flatten(index)) \in Nat /\ Len(slots[q].data) \in Nat
    BY <1>5, FlattenTyped
  <2>. QED
    BY <1>5, <2>1 DEF ShortSlot
<1>9. StoredAt(b) = Len(Flatten(SubSeq(index, 1, at - 1)))
  BY DEF StoredAt, q
<1>. HIDE DEF index, at
<1>10. /\ Len(index) \in 0 .. Len(index) /\ at \in 1 .. Len(index) /\ SubSeq(index, 1, Len(index)) = index
  BY <1>5, <1>6, <1>7
<1>11. Len(Flatten(SubSeq(index, 1, at - 1))) + Size[b] <= Len(Flatten(index))
       /\ Len(Flatten(SubSeq(index, 1, at - 1))) \in Nat /\ Len(Flatten(index)) \in Nat
  BY <1>5, <1>7, <1>10, BlockCells
<1>12. Size[b] \in Nat /\ Len(slots[q].data) \in Nat
  BY <1>5, BytesTyped
<1>. QED
  BY <1>8, <1>9, <1>11, <1>12 DEF Readable, q

\* A block that has been written before is read back as it was.
LEMMA AgainIs ==
    ASSUME InstallInv, BlocksInv, Payload.target # "none", ~Unsuited(Payload), Again
    PROVE  stage' = "block"
<1>1. /\ stage = "block" /\ block <= Len(Payload.blocks) /\ ~FromSource
  BY DEF Again, MoreBlocks, Ready
<1>2. /\ Payload \in Payloads /\ Payload.blocks \in Seq(DOMAIN Size) /\ block \in 1 .. Len(Payload.blocks)
      /\ target = Flatten(SubSeq(Payload.blocks, 1, block - 1)) /\ Hash = Payload.blocks[block]
      /\ Len(Payload.blocks) \in Nat
  BY <1>1, PayloadTyped DEF InstallInv, ReaderInv, WrittenInv, Hash
<1>3. Payload.encoding = "dedup" /\ ~IsFresh(Payload, block)
  BY <1>1, <1>2 DEF FromSource, InstallInv, AccountInv, Payloads
<1>4. Payload.target = "slot"
  BY <1>2, <1>3 DEF Unsuited, Payloads
<1>5. PICK j \in 1 .. block - 1 : Payload.blocks[j] = Hash
  BY <1>2, <1>3 DEF IsFresh
<1>. DEFINE bs == Payload.blocks
            at == SelectInSeq(bs, LAMBDA b : b = Hash)
            first == target_blocks[at]
<1>6. at \in 1 .. j /\ bs[at] = Hash
  <2>. DEFINE I == {k \in 1 .. Len(bs) : bs[k] = Hash}
  <2>1. at = IF I # {} THEN Min(I) ELSE 0
    BY DEF SelectInSeq
  <2>. HIDE DEF at, bs
  <2>2. I # {} /\ Min(I) \in 1 .. j /\ bs[Min(I)] = Hash
    <3>1. Len(bs) \in Nat /\ j \in 1 .. Len(bs) /\ bs[j] = Hash
      BY <1>2, <1>5 DEF bs
    <3>. QED
      BY <3>1, FirstOf
  <2>. HIDE DEF I
  <2>. QED
    BY <2>1, <2>2
<1>. HIDE DEF at
<1>7. at \in 1 .. block - 1 /\ block - 1 \in 0 .. Len(bs)
  BY <1>2, <1>5, <1>6
<1>8. first = [offset |-> Len(Flatten(SubSeq(bs, 1, at - 1))), size |-> Size[bs[at]]]
  BY <1>1, <1>7 DEF BlocksInv, Written
<1>9. SubSeq(target, first.offset + 1, first.offset + first.size) = Bytes(Hash)
  <2>1. SubSeq(target, Len(Flatten(SubSeq(bs, 1, at - 1))) + 1,
               Len(Flatten(SubSeq(bs, 1, at - 1))) + Size[bs[at]]) = Bytes(bs[at])
    BY <1>2, <1>7, BlockCells
  <2>2. first.offset = Len(Flatten(SubSeq(bs, 1, at - 1))) /\ first.size = Size[bs[at]]
    BY <1>8
  <2>. QED
    BY <1>6, <2>1, <2>2
<1>. QED
  BY <1>4, <1>9 DEF Again, Stage, at

\* The block that is downloaded, and where it is in the payload.
LEMMA DataLeft ==
    ASSUME InstallInv, stage = "data"
    PROVE  /\ Payload \in Payloads /\ block \in 1 .. Len(Payload.blocks) /\ Hash \in DOMAIN Size
           /\ Hash = Payload.blocks[block] /\ IsSent(Payload, block)
           /\ Spent(Payload, block - 1) \in Nat
           /\ remaining_data = Total(Payload) - Spent(Payload, block - 1)
           /\ Size[Hash] \in Nat /\ Size[Hash] <= remaining_data /\ remaining_data \in Int
           /\ remaining_data <= Total(Payload)
<1>1. Payload \in Payloads /\ block \in 1 .. Len(Payload.blocks) /\ Len(Payload.blocks) \in Nat
  <2>1. payload \in 1 .. Len(bundle) /\ block \in 1 .. Len(Payload.blocks) + 1
        /\ block <= Len(Payload.blocks)
    BY DEF InstallInv, ReaderInv, WrittenInv
  <2>2. Payload \in Payloads /\ Len(Payload.blocks) \in Nat
    BY <2>1, PayloadTyped DEF InstallInv
  <2>. QED
    BY <2>1, <2>2
<1>2. IsSent(Payload, block) /\ Hash = Payload.blocks[block]
  BY <1>1 DEF InstallInv, AccountInv, FromSource, IsSent, Hash
<1>3. block \in 0 .. Len(Payload.blocks) /\ block - 1 \in 0 .. Len(Payload.blocks)
  BY <1>1
<1>4. /\ Hash \in DOMAIN Size
      /\ Spent(Payload, block) = Spent(Payload, block - 1) + Size[Hash]
  BY <1>1, <1>2, SentNext
<1>5. /\ Spent(Payload, block) <= Total(Payload) /\ Total(Payload) \in Nat
      /\ Spent(Payload, block - 1) \in Nat
  BY <1>1, <1>3, SpentTyped, SentTyped
<1>6. Size[Hash] \in Nat
  BY <1>4, BytesTyped
<1>7. remaining_data = Total(Payload) - Spent(Payload, block - 1)
  BY DEF InstallInv, AccountInv
<1>. QED
  BY <1>1, <1>2, <1>4, <1>5, <1>6, <1>7

\* What an installation is refused for does not go away again.
LEMMA SparedBefore ==
    ASSUME InstallInv, [Next]_allVars, Spared'
    PROVE  Spared /\ served' = served /\ UNCHANGED <<bundle, slots, use_indices, content>>
<1>1. UNCHANGED <<bundle, slots, use_indices, content>>
  BY DEF Next, ReaderStep, InSource, Anybody, allVars, reader, SameBundle, Exact, TakeData,
     TakeFailure, PayloadStart, BadFrame, StartBundle, SkipPayload, StartPayload, EndPayload,
     UseStored, StoredUnreadable, Download, Downloaded, Again, ReadRaw, WriteRaw, Decoded, Fail
<1>2. CASE UNCHANGED <<network, use_range_queries>>
  BY <1>1, <1>2 DEF Spared, network, Unsuited, ProviderFails, ShortSlot
<1>3. CASE SourceStep
  <2>1. /\ use_range_queries' = use_range_queries /\ served' = served
        /\ faults' = faults \/ CountFault
        /\ refused' \in {refused, TRUE}
    BY <1>3 DEF SourceStep, SkipAhead, SkipThrough, SkipFails, SkipBroken, CannotFetch,
       EndOfBundle, Fetch, FetchRetry, FetchFails, Receive, BodyEnds, BodyBreaks, BodyFails,
       Fault, network
  <2>2. faults \in Nat /\ MaxRetries \in Nat
    BY HttpAssumption DEF HttpAssumption, InstallInv, UsedInv, HttpTypeOK
  <2>3. faults <= (IF use_range_queries THEN MaxRetries ELSE 0) /\ ~refused
    <3>1. faults' <= (IF use_range_queries THEN MaxRetries ELSE 0) /\ ~refused'
      BY <2>1 DEF Spared
    <3>2. ~refused
      BY <2>1, <3>1, Zenon
    <3>3. faults' = faults \/ faults' = faults + 1
      BY <2>1, <2>2, <3>1, FaultIs DEF InstallInv, UsedInv, HttpTypeOK
    <3>. QED
      BY <2>1, <2>2, <3>1, <3>2, <3>3
  <2>. QED
    BY <1>1, <2>1, <2>3 DEF Spared, Unsuited, ProviderFails, ShortSlot
<1>4. CASE Replace
  BY <1>4 DEF Replace, Spared
<1>. QED
  BY <1>2, <1>3, <1>4 DEF Next, ReaderStep, InSource, Anybody, allVars, source, AnyCall, ReadCall,
     SkipCall, Hint, StayInSource, Consume, Exact, TakeData, TakeFailure, PayloadStart, BadFrame,
     StartBundle, SkipPayload, StartPayload, EndPayload, UseStored, StoredUnreadable, Download,
     Downloaded, Again, ReadRaw, WriteRaw, Decoded

\* The server has all of the bundle.
LEMMA SparedContent ==
    ASSUME InstallInv, Spared, stage # "any"
    PROVE  content = Layout(bundle) /\ content_length = Len(content) /\ content \in Seq(Cells)
<1>1. Layout(bundle) \in Seq(Cells) /\ content \in Seq(Cells) /\ IsPrefix(content, Layout(bundle))
      /\ content_length = Len(content)
  BY LayoutAt DEF InstallInv, ReaderInv, ReadsInv
<1>2. Len(content) = Len(Layout(bundle)) /\ \A i \in 1 .. Len(content) : content[i] = Layout(bundle)[i]
  BY <1>1, PrefixAt DEF Spared
<1>3. /\ content = [k \in 1 .. Len(content) |-> content[k]]
      /\ Layout(bundle) = [k \in 1 .. Len(Layout(bundle)) |-> Layout(bundle)[k]]
  BY <1>1
<1>. QED
  BY <1>1, <1>2, <1>3

\* What is still to be read is there.
LEMMA RoomIs ==
    ASSUME InstallInv, PlaceInv, Spared, SourceSound, ReaderSound, stage # "any", slice > 0
    PROVE  Here \in Nat /\ Here < content_length
<1>. DEFINE length == Len(Layout(bundle))
<1>1. content_length = length /\ length \in Nat /\ 1 <= length
  BY SparedContent, LayoutHead DEF InstallInv, ReaderInv
<1>2. \A n \in 1 .. Len(bundle) : End(n) <= length
  BY LayoutCells DEF InstallInv, ReaderInv, End
<1>. HIDE DEF length
<1>3. \A n \in 1 .. Len(bundle) :
        /\ End(n) \in Nat /\ End(n - 1) \in Nat /\ Total(bundle[n]) \in Nat
        /\ End(n) = End(n - 1) + Total(bundle[n]) + 3
  <2>1. \A n \in 1 .. Len(bundle) : n \in 0 .. Len(bundle) /\ n - 1 \in 0 .. Len(bundle)
    BY PlaceTypes
  <2>. QED
    BY <2>1, PlaceTypes
<1>4. result.kind # "failed" /\ stage \in {"header", "start", "block", "data", "raw", "end"}
  <2>1. stage # "done"
    BY DEF ReaderSound
  <2>. QED
    BY <2>1 DEF SourceSound, ReaderSound, InstallInv, ReaderInv
<1>5. stage # "block" /\ slice \in Nat
  BY DEF InstallInv, ReadsInv, UsedInv, HttpTypeOK
<1>6. CASE stage \in {"header", "start", "end"}
  <2>1. want = 1
    BY <1>5, <1>6 DEF InstallInv, ReadsInv
  <2>2. CASE stage = "header" /\ payload = 0
    BY <1>1, <2>1, <2>2 DEF ReaderSound
  <2>3. CASE stage = "header" /\ payload # 0
    <3>1. Here = (IF payload = 0 THEN 1 ELSE End(payload - 1) + 2) - want
      BY <2>3 DEF ReaderSound
    <3>2. payload \in 1 .. Len(bundle)
      BY <2>3, PlaceTypes DEF InstallInv, ReaderInv
    <3>3. Here = End(payload - 1) + 2 - 1
      BY <1>3, <2>1, <2>3, <3>1, <3>2
    <3>. QED
      BY <1>1, <1>2, <1>3, <3>2, <3>3
  <2>4. CASE stage = "start"
    <3>1. payload \in 1 .. Len(bundle) /\ Here = End(payload - 1) + 1 - 1
      BY <2>1, <2>4 DEF PlaceInv, InstallInv, ReaderInv
    <3>. QED
      BY <1>1, <1>2, <1>3, <3>1
  <2>5. CASE stage = "end"
    <3>1. payload \in 1 .. Len(bundle) /\ Here = End(payload) - 1
      BY <1>4, <2>1, <2>5 DEF PlaceInv, InstallInv, ReaderInv
    <3>. QED
      BY <1>1, <1>2, <1>3, <3>1
  <2>. QED
    BY <1>6, <2>2, <2>3, <2>4, <2>5
<1>7. CASE stage \in {"data", "raw"}
  <2>1. /\ payload \in 1 .. Len(bundle) /\ Here = End(payload) - 1 - remaining_data + Len(buffer)
        /\ Payload = bundle[payload]
    BY <1>4, <1>7 DEF PlaceInv, InstallInv, ReaderInv, Payload
  <2>2. /\ remaining_data \in Int /\ Len(buffer) \in Nat /\ remaining_data <= Total(Payload)
        /\ Len(buffer) < remaining_data
    <3>1. CASE stage = "raw"
      <4>1. Len(buffer) = 0 /\ remaining_data \in Nat /\ slice <= remaining_data
        BY <3>1 DEF InstallInv, ReadsInv
      <4>2. Len(target) = Total(Payload) - remaining_data /\ Len(target) \in Nat
        BY <3>1 DEF ReaderSound
      <4>3. Total(Payload) \in Nat
        BY <1>3, <2>1
      <4>. QED
        BY <1>5, <4>1, <4>2, <4>3
    <3>2. CASE stage = "data"
      <4>1. want + Len(buffer) = Size[Hash] /\ slice <= want /\ want \in Nat /\ Len(buffer) \in Nat
        BY <3>2, PlaceTypes DEF ReaderSound, InstallInv, ReadsInv
      <4>2. Size[Hash] \in Nat /\ Size[Hash] <= remaining_data /\ remaining_data \in Int
            /\ remaining_data <= Total(Payload)
        BY <3>2, <2>1, DataLeft
      <4>. QED
        BY <1>5, <4>1, <4>2
    <3>. QED
      BY <1>7, <3>1, <3>2
  <2>3. /\ End(payload) \in Nat /\ End(payload - 1) \in Nat /\ Total(Payload) \in Nat
        /\ End(payload) = End(payload - 1) + Total(Payload) + 3 /\ End(payload) <= length
    BY <1>2, <1>3, <2>1
  <2>. QED
    BY <1>1, <2>1, <2>2, <2>3, SMTT(30)
<1>. QED
  BY <1>4, <1>5, <1>6, <1>7

\* A transfer that breaks once too often.
LEMMA TooOften ==
    ASSUME HttpTypeOK, consecutive_retries <= faults, Fault, ~MayReconnect,
           use_range_queries' = use_range_queries
    PROVE  ~Spared'
<1>1. faults \in Nat /\ consecutive_retries \in 0 .. MaxRetries /\ MaxRetries \in Nat
  BY HttpAssumption DEF HttpAssumption, HttpTypeOK
<1>2. /\ faults' \in Nat /\ (faults' = faults + 1 \/ faults' > MaxRetries)
      /\ ~use_range_queries \/ consecutive_retries >= MaxRetries
  BY <1>1, FaultIs, HttpAssumption DEF Fault, MayReconnect, HttpTypeOK
<1>3. ~(faults' <= (IF use_range_queries' THEN MaxRetries ELSE 0))
  BY <1>1, <1>2
<1>. QED
  BY <1>3 DEF Spared

\* The source goes on, and with bytes of the bundle.
LEMMA SoundSource ==
    ASSUME InstallInv, PlaceInv, Spared, Spared', SourceSound, ReaderSound, stage # "any",
           SourceStep
    PROVE  SourceSound'
<1>1. slice > 0
  BY DEF SourceStep, SkipAhead, SkipThrough, SkipFails, SkipBroken, CannotFetch, EndOfBundle,
     Fetch, FetchRetry, FetchFails, Receive, BodyEnds, BodyBreaks, BodyFails, Skipping, Fetching,
     Receiving
<1>2. SourceInv /\ SourceInv' /\ result.kind = "none" /\ HttpTypeOK
  <2>1. SourceInv
    BY <1>1, ReadingIsInv DEF InstallInv
  <2>. QED
    BY <1>1, <2>1, SourceStepInv, ResultTypes DEF SourceInv
<1>3. Here \in Nat /\ Here < content_length /\ Here = current_position + current_skipped
  <2>1. Here \in Nat /\ Here < content_length
    BY <1>1, RoomIs
  <2>2. Here = current_position + current_skipped
    BY <1>2 DEF Here, Took, HttpTypeOK
  <2>. QED
    BY <2>1, <2>2
<1>4. /\ current_position \in Nat /\ current_skipped \in Nat /\ content_length \in Nat
      /\ faults \in Nat /\ consecutive_retries \in Nat /\ response \in Bodies
      /\ response.at \in Nat /\ response.end \in Nat
  BY <1>2 DEF HttpTypeOK, Bodies
<1>5. /\ response # NoResponse => response.at = current_position /\ response.of = "bundle"
      /\ current_skipped > 0 => response # NoResponse
      /\ ~use_range_queries =>
            response # NoResponse /\ response.end = content_length /\ current_end = NoEnd
      /\ consecutive_retries <= faults
  BY <1>2 DEF SourceInv, Placed, SourceSound
<1>6. UNCHANGED <<use_range_queries, content_length>>
  BY DEF SourceStep, SkipAhead, SkipThrough, SkipFails, SkipBroken, CannotFetch, EndOfBundle,
     Fetch, FetchRetry, FetchFails, Receive, BodyEnds, BodyBreaks, BodyFails
<1>f. Fault => faults' = faults + 1
  <2>1. faults' <= MaxRetries \/ faults' <= 0
    BY DEF Spared
  <2>. QED
    BY <2>1, FaultIs, HttpAssumption DEF Fault, InstallInv, UsedInv, HttpTypeOK
<1>7. ~(Fault /\ ~MayReconnect)
  BY <1>2, <1>5, <1>6, TooOften
<1>8. ASSUME consecutive_retries' <= faults', UNCHANGED result,
             \/ use_range_queries /\ (response' = NoResponse \/ response'.of = "bundle")
             \/ response' # NoResponse /\ response'.of = "bundle" /\ response'.end = response.end
                /\ current_end' = current_end
      PROVE  SourceSound'
  BY <1>2, <1>5, <1>6, <1>8 DEF SourceSound
<1>9. ASSUME NEW n \in Nat, response # NoResponse
      PROVE  LET m == [response EXCEPT !.at = @ + n]
             IN  m # NoResponse /\ m.of = "bundle" /\ m.end = response.end
  <2>1. response.at + n \in Nat
    BY <1>4
  <2>2. LET m == [response EXCEPT !.at = @ + n]
        IN  m \in Bodies /\ m.end = response.end /\ m.of = response.of
    BY <1>4, <2>1, BodyTypes
  <2>. QED
    BY <1>5, <1>9, <2>2, BodyTypes
<1>10. CASE SkipAhead
  <2>1. use_range_queries /\ response' = NoResponse /\ UNCHANGED <<faults, consecutive_retries, result>>
    BY <1>5, <1>10 DEF SkipAhead, ChunkExceeded, network, KeepReading
  <2>. QED
    BY <1>5, <1>8, <2>1
<1>11. CASE SkipThrough
  <2>1. /\ response # NoResponse /\ response' = [response EXCEPT !.at = @ + current_skipped]
        /\ UNCHANGED <<faults, consecutive_retries, result, current_end>>
    BY <1>11 DEF SkipThrough, network, KeepReading
  <2>. QED
    BY <1>4, <1>5, <1>8, <1>9, <2>1
<1>12. ~SkipFails
  BY <1>7 DEF SkipFails
<1>13. ASSUME NEW k \in 0 .. current_skipped, SkipBroken(k)
       PROVE  SourceSound'
  <2>1. /\ response' = NoResponse /\ UNCHANGED result /\ k \in Nat /\ k < current_skipped
        /\ \/ k = response.end - response.at /\ UNCHANGED <<faults, consecutive_retries>>
           \/ Fault /\ consecutive_retries' \in {consecutive_retries, consecutive_retries + 1}
    BY <1>4, <1>13 DEF SkipBroken, network, KeepReading
  <2>2. consecutive_retries' <= faults'
    BY <1>f, <1>4, <1>5, <2>1
  <2>3. use_range_queries
    <3>. SUFFICES ASSUME ~use_range_queries PROVE FALSE
      OBVIOUS
    <3>1. ~Fault
      BY <1>7 DEF MayReconnect
    <3>2. k = response.end - response.at /\ response.at = current_position
          /\ response.end = content_length
      BY <1>5, <2>1, <3>1
    <3>. QED
      BY <1>3, <1>4, <2>1, <3>2
  <2>. QED
    BY <1>8, <2>1, <2>2, <2>3
<1>14. ~CannotFetch /\ ~EndOfBundle
  BY <1>3, <1>4, <1>5 DEF CannotFetch, EndOfBundle, Fetching
<1>15. CASE Fetch
  <2>1. /\ use_range_queries /\ response' = [at |-> current_position, end |-> NextEnd, of |-> served]
        /\ consecutive_retries' = 0 /\ UNCHANGED <<faults, result>>
    BY <1>15 DEF Fetch, network, KeepReading
  <2>2. response'.of = "bundle"
    BY <2>1 DEF Spared
  <2>. QED
    BY <1>4, <1>8, <2>1, <2>2
<1>16. CASE FetchRetry \/ BodyBreaks
  <2>1. /\ use_range_queries /\ response' \in {response, NoResponse} /\ UNCHANGED result
        /\ faults' = faults + 1 /\ consecutive_retries' = consecutive_retries + 1
    BY <1>f, <1>16 DEF FetchRetry, BodyBreaks, MayReconnect, KeepReading, chunk
  <2>2. response' = NoResponse \/ response'.of = "bundle"
    BY <1>5, <2>1
  <2>3. consecutive_retries' <= faults'
    BY <1>4, <1>5, <2>1
  <2>. QED
    BY <1>8, <2>1, <2>2, <2>3
<1>17. ~FetchFails /\ ~BodyFails
  BY <1>7 DEF FetchFails, BodyFails, Spared
<1>18. CASE BodyEnds
  <2>1. /\ response' = NoResponse /\ UNCHANGED <<result, consecutive_retries>>
        /\ \/ response.at = response.end /\ UNCHANGED faults
           \/ Fault
    BY <1>18 DEF BodyEnds, network, KeepReading
  <2>2. use_range_queries
    <3>. SUFFICES ASSUME ~use_range_queries PROVE FALSE
      OBVIOUS
    <3>1. ~Fault
      BY <1>7 DEF MayReconnect
    <3>2. response.at = response.end /\ response.at = current_position
          /\ response.end = content_length /\ current_skipped = 0
      BY <1>5, <1>18, <2>1, <3>1 DEF BodyEnds, Receiving
    <3>3. current_position = content_length /\ current_skipped = 0
      BY <3>2, Zenon
    <3>. QED
      BY <1>3, <1>4, <3>3
  <2>3. consecutive_retries' <= faults'
    BY <1>f, <1>4, <1>5, <2>1
  <2>. QED
    BY <1>8, <2>1, <2>2, <2>3
<1>19. ASSUME NEW n \in 1 .. slice, Receive(n)
       PROVE  SourceSound'
  <2>1. /\ response # NoResponse /\ current_skipped = 0 /\ n \in Nat
        /\ response' = [response EXCEPT !.at = @ + n] /\ UNCHANGED <<faults, current_end>>
        /\ consecutive_retries' = 0 /\ result' = Trait!Data(response.at, n) /\ of' = response.of
    BY <1>2, <1>19 DEF Receive, Receiving, Return, network, HttpTypeOK
  <2>2. result'.kind = "data" /\ result'.from = response.at
    BY <2>1 DEF Trait!Data
  <2>3. Here' = Here
    BY <1>2, <2>1, SourcePlace
  <2>4. result'.from = Here' /\ of' = "bundle"
    BY <1>3, <1>4, <1>5, <2>1, <2>2, <2>3
  <2>5. response' # NoResponse /\ response'.of = "bundle" /\ response'.end = response.end
    BY <1>9, <2>1
  <2>6. consecutive_retries' <= faults'
    BY <1>4, <2>1
  <2>. QED
    BY <1>5, <1>6, <2>1, <2>2, <2>4, <2>5, <2>6 DEF SourceSound
<1>. QED
  BY <1>10, <1>11, <1>12, <1>13, <1>14, <1>15, <1>16, <1>17, <1>18, <1>19 DEF SourceStep

\* The reader where nothing speaks against the installation.
Fine == InstallInv /\ PlaceInv /\ BlocksInv /\ Spared /\ SourceSound /\ ReaderSound /\ stage # "any"

LEMMA SparedCells ==
    ASSUME InstallInv, Spared, stage # "any"
    PROVE  /\ content[1] = Frame("header", 0)
           /\ \A n \in 1 .. Len(bundle) :
                /\ content[End(n - 1) + 2] = Frame("header", n) /\ content[End(n)] = Frame("end", n)
                /\ \A k \in 1 .. Total(bundle[n]) :
                     content[End(n - 1) + 2 + k] = Flatten(Sent(bundle[n]))[k]
<1>1. content = Layout(bundle) /\ bundle \in Seq(Payloads)
  BY SparedContent DEF InstallInv, ReaderInv
<1>2. content[1] = Frame("header", 0)
  BY <1>1, LayoutHead
<1>3. ASSUME NEW n \in 1 .. Len(bundle)
      PROVE  /\ content[End(n - 1) + 2] = Frame("header", n) /\ content[End(n)] = Frame("end", n)
             /\ \A k \in 1 .. Total(bundle[n]) :
                  content[End(n - 1) + 2 + k] = Flatten(Sent(bundle[n]))[k]
  <2>1. /\ content[End(n - 1) + 2] = Frame("header", n)
        /\ content[End(n - 1) + 3 + Total(bundle[n])] = Frame("end", n)
        /\ \A k \in 1 .. Total(bundle[n]) :
             content[End(n - 1) + 2 + k] = Flatten(Sent(bundle[n]))[k]
    BY <1>1, LayoutCells DEF End
  <2>2. End(n) = End(n - 1) + 3 + Total(bundle[n])
    <3>1. /\ End(n) = End(n - 1) + Total(bundle[n]) + 3 /\ Total(bundle[n]) \in Nat
          /\ n - 1 \in 0 .. Len(bundle)
      BY PlaceTypes
    <3>2. End(n - 1) \in Nat
      BY <3>1, PlaceTypes
    <3>. QED
      BY <3>1, <3>2
  <2>. QED
    BY <2>1, <2>2
<1>. QED
  BY <1>2, <1>3

\* A failure has a reason.
LEMMA NoFailure ==
    ASSUME Fine
    PROVE  ~TakeFailure /\ ~BadFrame /\ ~StoredUnreadable
<1>1. ~TakeFailure
  BY DEF Fine, SourceSound, TakeFailure
<1>2. ~BadFrame
  <2>1. CASE Ready("header")
    <3>1. /\ stage = "header" /\ want = 0 /\ buffer = <<content[Here]>> /\ Here \in Int
          /\ Here = (IF payload = 0 THEN 1 ELSE End(payload - 1) + 2) - want
          /\ payload \in 0 .. Len(bundle)
      BY <2>1, PlaceTypes DEF Ready, Fine, ReaderSound, InstallInv, ReaderInv
    <3>2. CASE payload = 0
      BY <2>1, <3>1, <3>2, SparedCells DEF Fine, BadFrame, Ready
    <3>3. CASE payload # 0
      <4>1. payload \in 1 .. Len(bundle) /\ payload - 1 \in 0 .. Len(bundle) /\ Len(bundle) \in Nat
        BY <3>1, <3>3, PlaceTypes DEF Fine
      <4>2. End(payload - 1) \in Nat
        BY <4>1, PlaceTypes DEF Fine
      <4>3. Here = End(payload - 1) + 2
        BY <3>1, <3>3, <4>2
      <4>4. content[End(payload - 1) + 2] = Frame("header", payload)
        BY <4>1, SparedCells DEF Fine
      <4>. QED
        BY <2>1, <3>1, <4>3, <4>4 DEF BadFrame, Ready
    <3>. QED
      BY <3>2, <3>3
  <2>2. CASE Ready("end")
    <3>1. stage = "end" /\ want = 0 /\ buffer = <<content[Here]>> /\ Here = End(payload) - want
          /\ result.kind # "failed" /\ payload \in 1 .. Len(bundle)
      BY <2>2, PlaceTypes DEF Ready, Fine, ReaderSound, PlaceInv, SourceSound
    <3>2. End(payload) \in Nat
      <4>1. payload \in 0 .. Len(bundle)
        BY <3>1, PlaceTypes DEF Fine
      <4>. QED
        BY <4>1, PlaceTypes DEF Fine
    <3>3. Here = End(payload) /\ content[End(payload)] = Frame("end", payload)
      BY <3>1, <3>2, SparedCells DEF Fine
    <3>. QED
      BY <2>2, <3>1, <3>3 DEF BadFrame, Ready
  <2>. QED
    BY <2>1, <2>2 DEF BadFrame
<1>3. ~StoredUnreadable
  <2>. SUFFICES ASSUME StoredUnreadable PROVE FALSE
    OBVIOUS
  <2>1. /\ use_indices /\ Query(Hash) > 0 /\ ~Readable(Hash)
        /\ stage = "block" /\ block <= Len(Payload.blocks)
    BY DEF StoredUnreadable, Local, UsesProvider, MoreBlocks, Ready
  <2>2. Hash \in DOMAIN Size
    <3>1. /\ Payload.blocks \in Seq(DOMAIN Size) /\ block \in 1 .. Len(Payload.blocks) + 1
      BY <2>1, PayloadTyped DEF Fine, InstallInv, ReaderInv, WrittenInv
    <3>2. block \in 1 .. Len(Payload.blocks)
      BY <2>1, <3>1
    <3>. QED
      BY <3>1, <3>2 DEF Hash
  <2>3. slots \in Seq(Slots) /\ \A s \in DOMAIN slots : ~ShortSlot(slots[s])
    BY <2>1 DEF Fine, BlocksInv, Spared
  <2>. QED
    BY <2>1, <2>2, <2>3, ListedReadable
<1>. QED
  BY <1>1, <1>2, <1>3

LEMMA SoundSourceKept ==
    ASSUME SourceSound, ReaderStep
    PROVE  SourceSound'
<1>1. CASE UNCHANGED source /\ result.kind # "data"
  BY <1>1 DEF SourceSound, source, network, chunk
<1>2. CASE /\ UNCHANGED <<network, use_range_queries, content_length, chunk, consecutive_retries>>
           /\ result'.kind = "none"
  BY <1>2 DEF SourceSound, network, chunk
<1>3. ~TakeFailure
  BY DEF SourceSound, TakeFailure
<1>4. CASE Exact \/ TakeData \/ PayloadStart \/ SkipPayload \/ UseStored \/ ReadRaw \/ WriteRaw
  BY <1>2, <1>4, ResultTypes DEF Exact, TakeData, PayloadStart, SkipPayload, UseStored, ReadRaw,
     WriteRaw, Consume, ReadCall, SkipCall, Ready, Local, MoreBlocks
<1>5. CASE BadFrame \/ StartBundle \/ StartPayload \/ EndPayload \/ StoredUnreadable \/ Download
           \/ Downloaded \/ Again \/ Decoded
  BY <1>1, <1>5 DEF BadFrame, StartBundle, StartPayload, EndPayload, StoredUnreadable, Download,
     Downloaded, Again, Decoded, StayInSource, Ready, Local, MoreBlocks
<1>. QED
  BY <1>3, <1>4, <1>5 DEF ReaderStep

LEMMA SoundReaderKept ==
    ASSUME ReaderSound, UNCHANGED reader, Here' = Here, stage = "done" => slice' = slice
    PROVE  ReaderSound'
<1>1. \A n : End(n)' = End(n)
  BY DEF End, reader
<1>. QED
  BY <1>1 DEF ReaderSound, reader, Hash, Payload, Total, End

\* What is delivered is what comes next in the bundle.
LEMMA TakenIs ==
    ASSUME Fine, result.kind = "data"
    PROVE  /\ Delivered \in Seq(Bits) /\ Len(Delivered) = result.n /\ result.n \in Nat \ {0}
           /\ Here \in Nat /\ \A i \in 1 .. result.n : Delivered[i] = content[Here + i]
<1>1. of = "bundle" /\ result.from = Here
  BY DEF Fine, SourceSound
<1>. QED
  BY <1>1, DeliveredIs DEF Fine, InstallInv

LEMMA SoundTaken ==
    ASSUME Fine, TakeData
    PROVE  ReaderSound'
<1>1. /\ UNCHANGED <<current_position, current_skipped, bundle, content, payload, block, stage>>
      /\ result' = Trait!NoResult /\ result.kind = "data" /\ want > 0
      /\ want' = want - result.n /\ buffer' = buffer \o Delivered
  BY DEF TakeData, Consume, place, SameBundle, SamePlace
<1>2. /\ Delivered \in Seq(Bits) /\ Len(Delivered) = result.n /\ result.n \in Nat \ {0}
      /\ Here \in Nat /\ \A i \in 1 .. result.n : Delivered[i] = content[Here + i]
      /\ buffer \in Seq(Bits) /\ want \in Nat
  BY <1>1, TakenIs DEF Fine, InstallInv, ReadsInv
<1>3. Here' = Here + result.n
  BY <1>1, <1>2, PlaceTypes, ResultTypes, SMTT(30) DEF Here, Took, Fine
<1>4. (\A n : End(n)' = End(n)) /\ Payload' = Payload /\ Hash' = Hash
  BY <1>1 DEF End, Payload, Hash
<1>5. stage \notin {"any", "block", "raw", "done", "failed"}
  BY <1>1 DEF TakeData, Running, Fine, InstallInv, ReadsInv
<1>6. ASSUME stage \in {"header", "end"}
      PROVE  want = 1 /\ want' = 0 /\ Here' = Here + 1 /\ buffer' = <<content[Here']>>
  <2>1. want = 1 /\ buffer = <<>> /\ result.n <= want
    BY <1>1, <1>6 DEF Fine, InstallInv, ReadsInv
  <2>2. result.n = 1 /\ buffer' = Delivered /\ Delivered = <<Delivered[1]>>
    <3>1. result.n = 1
      BY <1>2, <2>1
    <3>. QED
      BY <1>1, <1>2, <2>1, <3>1
  <2>3. Delivered[1] = content[Here + 1]
    BY <1>2, <2>2
  <2>. QED
    BY <1>1, <1>3, <2>1, <2>2, <2>3
<1>7. CASE stage = "header"
  <2>. DEFINE at == IF payload = 0 THEN 1 ELSE End(payload - 1) + 2
  <2>1. at \in Nat
    <3>1. payload # 0 => payload - 1 \in 0 .. Len(bundle)
      BY <1>7, PlaceTypes DEF Fine, InstallInv, ReaderInv
    <3>2. payload # 0 => End(payload - 1) \in Nat
      BY <3>1, PlaceTypes DEF Fine
    <3>. QED
      BY <3>2
  <2>2. Here = at - want
    BY <1>7 DEF Fine, ReaderSound
  <2>3. at' = at
    BY <1>1, <1>4 DEF End
  <2>. HIDE DEF at
  <2>4. Here' = at' - want'
    BY <1>2, <1>6, <1>7, <2>1, <2>2, <2>3
  <2>. QED
    BY <1>1, <1>6, <1>7, <2>4 DEF ReaderSound, at
<1>8. CASE stage = "data"
  <2>1. /\ want + Len(buffer) = Size[Hash]
        /\ \A i \in 1 .. Len(buffer) : buffer[i] = content[Here - Len(buffer) + i]
    BY <1>8 DEF Fine, ReaderSound
  <2>2. Len(buffer) \in Nat /\ Len(buffer') = Len(buffer) + result.n
    BY <1>1, <1>2, SMTT(30)
  <2>3. want' + Len(buffer') = Size[Hash]
    BY <1>1, <1>2, <2>1, <2>2
  <2>4. Here' - Len(buffer') = Here - Len(buffer)
    BY <1>2, <1>3, <2>2
  <2>5. ASSUME NEW i \in 1 .. Len(buffer')
        PROVE  buffer'[i] = content[Here' - Len(buffer') + i]
    <3>1. CASE i <= Len(buffer)
      <4>1. i \in 1 .. Len(buffer) /\ buffer'[i] = buffer[i]
        BY <1>1, <1>2, <2>2, <3>1
      <4>. QED
        BY <2>1, <2>4, <4>1
    <3>2. CASE i > Len(buffer)
      <4>. DEFINE j == i - Len(buffer)
      <4>1. j \in 1 .. result.n /\ buffer'[i] = Delivered[j]
        BY <1>1, <1>2, <2>2, <3>2
      <4>2. Here + j = Here' - Len(buffer') + i
        BY <1>2, <2>2, <2>4
      <4>. QED
        BY <1>2, <4>1, <4>2
    <3>. QED
      BY <2>2, <3>1, <3>2
  <2>6. (Payload.target)' # "none"
    BY <1>4, <1>8 DEF Fine, ReaderSound
  <2>. QED
    BY <1>1, <1>4, <1>8, <2>3, <2>5, <2>6 DEF ReaderSound
<1>9. CASE stage = "end"
  BY <1>1, <1>6, <1>9 DEF ReaderSound
<1>10. CASE stage = "start"
  BY <1>1, <1>10 DEF ReaderSound
<1>. QED
  BY <1>5, <1>7, <1>8, <1>9, <1>10 DEF Fine, InstallInv, ReaderInv

LEMMA SoundStarted ==
    ASSUME Fine, PayloadStart
    PROVE  ReaderSound'
<1>1. /\ UNCHANGED <<current_position, current_skipped, bundle, payload>> /\ result' = Trait!NoResult
      /\ stage = "start" /\ stage' = "header" /\ want' = 1 /\ buffer' = <<>> /\ want = 0
      /\ result.kind # "data"
  <2>1. result.kind \in {"none", "data"}
    BY DEF Fine, SourceSound
  <2>2. /\ stage = "start" /\ want = 0
    BY <2>1 DEF PayloadStart
  <2>3. result.kind # "data"
    BY <2>2 DEF Fine, InstallInv, ReadsInv, UsedInv, HttpTypeOK
  <2>. QED
    BY <2>2, <2>3 DEF PayloadStart, Consume, place, SameBundle, SamePlace, Stage, Await
<1>2. Here' = Here /\ \A n : End(n)' = End(n)
  BY <1>1, ResultTypes DEF Here, Took, End
<1>3. payload \in 1 .. Len(bundle) /\ payload - 1 \in 0 .. Len(bundle)
  BY <1>1, PlaceTypes DEF Fine
<1>4. End(payload - 1) \in Nat /\ payload # 0
  BY <1>3, PlaceTypes DEF Fine
<1>5. Here = End(payload - 1) + 1 - want
  BY <1>1 DEF Fine, PlaceInv
<1>6. Here' = End(payload - 1) + 2 - want' /\ End(payload - 1)' = End(payload - 1)
  BY <1>1, <1>2, <1>4, <1>5 DEF End
<1>. QED
  BY <1>1, <1>4, <1>6 DEF ReaderSound

LEMMA SoundFrames ==
    ASSUME Fine, StartBundle \/ EndPayload \/ SkipPayload \/ StartPayload
    PROVE  ReaderSound'
<1>1. CASE StartBundle \/ EndPayload
  <2>1. /\ slice' = slice /\ slice = 0
        /\ stage' = "done" \/ (stage' = "start" /\ want' = 1)
    BY <1>1 DEF StartBundle, EndPayload, NextPayload, StayInSource, source, Ready, Idle, Stage,
       Await
  <2>. QED
    BY <2>1 DEF ReaderSound
<1>2. CASE SkipPayload
  <2>1. stage' = "end" /\ want' = 1
    BY <1>2 DEF SkipPayload, Stage, Await
  <2>. QED
    BY <2>1 DEF ReaderSound
<1>3. CASE StartPayload
  <2>1. stage = "header" /\ payload > 0 /\ payload \in 1 .. Len(bundle)
    BY <1>3, PlaceTypes DEF StartPayload, Ready, Fine, InstallInv, ReaderInv
  <2>2. ~Unsuited(Payload) /\ (use_indices => ~ProviderFails)
    BY <2>1, PlaceTypes, SMTT(30) DEF Fine, Spared, Payload
  <2>3. ~(UsesProvider /\ (Payload.encoding = "raw" \/ ProviderFails))
    BY <2>2 DEF UsesProvider, Unsuited
  <2>4. /\ stage' = (IF Payload.encoding = "raw" THEN "raw" ELSE "block")
        /\ remaining_data' = Total(Payload) /\ target' = <<>> /\ Payload' = Payload
        /\ Payload.target # "none"
    BY <1>3, <2>3 DEF StartPayload, Stage, SameBundle, Payload, Total
  <2>5. Total(Payload) \in Nat /\ Total(Payload)' = Total(Payload)
    BY <2>1, <2>4, PlaceTypes DEF Fine, Payload, Total
  <2>6. <<>> \in Seq(Bits) /\ Len(<<>>) = 0 /\ 1 .. 0 = {}
    OBVIOUS
  <2>7. Len(target') = Total(Payload)' - remaining_data'
    BY <2>4, <2>5, <2>6
  <2>8. (Payload.target)' # "none" /\ ((Payload.encoding)' = "raw" \/ stage' = "block")
    BY <2>4
  <2>. QED
    BY <2>4, <2>6, <2>7, <2>8 DEF ReaderSound
<1>. QED
  BY <1>1, <1>2, <1>3

LEMMA SoundWritten ==
    ASSUME Fine, WriteRaw
    PROVE  ReaderSound'
<1>1. /\ UNCHANGED <<bundle, content, payload, stage>> /\ stage = "raw" /\ result.kind = "data"
      /\ target' = target \o Delivered /\ remaining_data' = remaining_data - result.n
  BY DEF WriteRaw, SameBundle
<1>2. /\ Delivered \in Seq(Bits) /\ Len(Delivered) = result.n /\ result.n \in Nat \ {0}
      /\ Here \in Nat /\ \A i \in 1 .. result.n : Delivered[i] = content[Here + i]
  BY <1>1, TakenIs
<1>3. /\ Payload.encoding = "raw" /\ target \in Seq(Bits) /\ Payload.target # "none"
      /\ Len(target) = Total(Payload) - remaining_data
      /\ \A i \in 1 .. Len(target) : target[i] = Flatten(Payload.blocks)[i]
  BY <1>1 DEF Fine, ReaderSound
<1>4. /\ remaining_data \in Nat /\ result.n <= remaining_data /\ Len(buffer) = 0
  BY <1>1 DEF Fine, InstallInv, ReadsInv
<1>5. /\ payload \in 1 .. Len(bundle) /\ End(payload) \in Nat /\ End(payload - 1) \in Nat
      /\ Total(Payload) \in Nat /\ End(payload) = End(payload - 1) + Total(Payload) + 3
      /\ Payload = bundle[payload]
  <2>0. stage = "raw"
    BY <1>1
  <2>1. payload \in 1 .. Len(bundle) /\ payload \in 0 .. Len(bundle) /\ payload - 1 \in 0 .. Len(bundle)
        /\ Payload = bundle[payload]
    BY <2>0, PlaceTypes, SMTT(30) DEF Fine, Payload
  <2>. QED
    BY <2>1, PlaceTypes DEF Fine
<1>6. Here = End(payload) - 1 - remaining_data + Len(buffer)
  BY <1>1 DEF Fine, PlaceInv
<1>7. Here = End(payload - 1) + 2 + Len(target) /\ Len(target) \in Nat
      /\ Len(target) + result.n <= Total(Payload)
  <2>1. Len(target) = Total(Payload) - remaining_data /\ Len(target) \in Nat /\ result.n \in Nat
    BY <1>2, <1>3
  <2>2. /\ remaining_data \in Nat /\ result.n <= remaining_data /\ Here \in Nat
        /\ Here = End(payload) - 1 - remaining_data
    BY <1>2, <1>4, <1>5, <1>6, SMTT(30)
  <2>3. End(payload - 1) \in Nat /\ Total(Payload) \in Nat
        /\ End(payload) = End(payload - 1) + Total(Payload) + 3
    BY <1>5
  <2>. QED
    BY <2>1, <2>2, <2>3, SMTT(30)
<1>8. Sent(Payload) = Payload.blocks
  BY <1>3 DEF Sent
<1>9. \A k \in 1 .. Total(Payload) : content[End(payload - 1) + 2 + k] = Flatten(Payload.blocks)[k]
  BY <1>5, <1>8, SparedCells DEF Fine
<1>10. /\ target \in Seq(Bits) /\ Delivered \in Seq(Bits) /\ Len(Delivered) = result.n
      /\ target' = target \o Delivered /\ target' \in Seq(Bits)
      /\ Len(target') = Len(target) + result.n /\ result.n \in Nat
  BY <1>1, <1>2, <1>3
<1>11. End(payload - 1) \in Nat /\ Total(Payload) \in Nat
  BY <1>5
<1>12. ASSUME NEW i \in 1 .. Len(target')
       PROVE  target'[i] = Flatten(Payload.blocks)[i]
  <2>1. CASE i <= Len(target)
    <3>1. i \in 1 .. Len(target) /\ target'[i] = target[i]
      BY <1>10, <2>1
    <3>. QED
      BY <1>3, <3>1
  <2>2. CASE i > Len(target)
    <3>. DEFINE j == i - Len(target)
    <3>1. j \in 1 .. result.n /\ target'[i] = Delivered[j]
      BY <1>10, <2>2
    <3>2. i \in Nat /\ j \in Nat /\ i = Len(target) + j /\ 1 <= j /\ j <= result.n /\ result.n \in Nat
      BY <1>10, <1>2, <1>7, <3>1
    <3>3. i \in 1 .. Total(Payload) /\ Here + j = End(payload - 1) + 2 + i
      BY <1>11, <1>7, <3>2
    <3>. QED
      BY <1>2, <1>9, <3>1, <3>3
  <2>. QED
    BY <1>10, <2>1, <2>2
<1>13. Len(target') = Total(Payload) - remaining_data'
  <2>1. remaining_data' = remaining_data - result.n /\ remaining_data \in Nat
        /\ Len(target) = Total(Payload) - remaining_data
    BY <1>1, <1>3, <1>4
  <2>. QED
    BY <1>10, <1>11, <2>1
<1>14. Payload' = Payload /\ Total(Payload)' = Total(Payload)
  BY <1>1 DEF Payload, Total
<1>. QED
  BY <1>1, <1>3, <1>10, <1>12, <1>13, <1>14 DEF ReaderSound

\* The blocks of a payload.
LEMMA DownloadedIs ==
    ASSUME Fine, Ready("data")
    PROVE  buffer = Bytes(Hash)
<1>1. /\ stage = "data" /\ want = 0
  BY DEF Ready
<1>2. /\ Payload \in Payloads /\ block \in 1 .. Len(Payload.blocks) /\ Hash \in DOMAIN Size
      /\ Hash = Payload.blocks[block] /\ IsSent(Payload, block)
      /\ Spent(Payload, block - 1) \in Nat
      /\ remaining_data = Total(Payload) - Spent(Payload, block - 1) /\ remaining_data \in Int
  BY <1>1, DataLeft DEF Fine
<1>3. /\ buffer \in Seq(Bits) /\ Len(buffer) \in Nat /\ want + Len(buffer) = Size[Hash]
      /\ \A i \in 1 .. Len(buffer) : buffer[i] = content[Here - Len(buffer) + i]
  BY <1>1 DEF Fine, ReaderSound, InstallInv, ReadsInv
<1>4. /\ Bytes(Hash) \in Seq(AllBytes) /\ Len(Bytes(Hash)) = Size[Hash] /\ Size[Hash] \in Nat
  BY <1>2, BytesTyped
<1>5. Len(buffer) = Size[Hash]
  BY <1>1, <1>3, <1>4
<1>6. /\ payload \in 1 .. Len(bundle) /\ End(payload) \in Nat /\ End(payload - 1) \in Nat
      /\ Total(Payload) \in Nat /\ End(payload) = End(payload - 1) + Total(Payload) + 3
      /\ Payload = bundle[payload]
  <2>1. payload \in 1 .. Len(bundle) /\ payload \in 0 .. Len(bundle) /\ payload - 1 \in 0 .. Len(bundle)
        /\ Payload = bundle[payload]
    BY <1>1, PlaceTypes, SMTT(30) DEF Fine, Payload
  <2>. QED
    BY <2>1, PlaceTypes DEF Fine
<1>7. Here = End(payload) - 1 - remaining_data + Len(buffer) /\ Here \in Int
  BY <1>1, PlaceTypes DEF Fine, PlaceInv, SourceSound
<1>. DEFINE before == Spent(Payload, block - 1)
<1>8. Here - Len(buffer) = End(payload - 1) + 2 + before
  <2>1. before \in Nat /\ remaining_data = Total(Payload) - before /\ remaining_data \in Int
    BY <1>2
  <2>2. Len(buffer) \in Nat
    BY <1>3
  <2>3. End(payload - 1) \in Nat /\ Total(Payload) \in Nat
        /\ End(payload) = End(payload - 1) + Total(Payload) + 3
    BY <1>6
  <2>4. Here = End(payload) - 1 - remaining_data + Len(buffer)
    BY <1>7
  <2>. HIDE DEF before
  <2>. QED
    BY <2>1, <2>2, <2>3, <2>4, SMTT(30)
<1>9. \A k \in 1 .. Total(Payload) : content[End(payload - 1) + 2 + k] = Flatten(Sent(Payload))[k]
  BY <1>6, SparedCells DEF Fine
<1>10. /\ before + Size[Hash] <= Total(Payload)
       /\ \A k \in 1 .. Size[Hash] : Flatten(Sent(Payload))[before + k] = Bytes(Hash)[k]
  BY <1>2, SentCells
<1>. HIDE DEF before
<1>11. before \in Nat
  BY <1>2 DEF before
<1>12. ASSUME NEW i \in 1 .. Size[Hash]
       PROVE  buffer[i] = Bytes(Hash)[i]
  <2>1. before + i \in 1 .. Total(Payload)
    BY <1>4, <1>6, <1>10, <1>11, SMTT(30)
  <2>2. Here - Len(buffer) + i = End(payload - 1) + 2 + (before + i)
    BY <1>4, <1>6, <1>8, <1>11, SMTT(30)
  <2>3. buffer[i] = content[Here - Len(buffer) + i]
    BY <1>3, <1>5
  <2>4. content[End(payload - 1) + 2 + (before + i)] = Flatten(Sent(Payload))[before + i]
    BY <1>9, <2>1
  <2>. QED
    BY <1>10, <2>2, <2>3, <2>4
<1>13. /\ buffer = [k \in 1 .. Len(buffer) |-> buffer[k]]
       /\ Bytes(Hash) = [k \in 1 .. Len(Bytes(Hash)) |-> Bytes(Hash)[k]]
  BY <1>3, <1>4
<1>. QED
  BY <1>4, <1>5, <1>12, <1>13

LEMMA DecodedIs ==
    ASSUME Fine, Decoded
    PROVE  target = Flatten(Payload.blocks)
<1>1. CASE Ready("block") /\ block > Len(Payload.blocks)
  <2>1. /\ block \in 1 .. Len(Payload.blocks) + 1 /\ Payload.blocks \in Seq(DOMAIN Size)
        /\ target = Flatten(SubSeq(Payload.blocks, 1, block - 1))
    BY <1>1, PayloadTyped DEF Ready, Fine, InstallInv, ReaderInv, WrittenInv
  <2>2. SubSeq(Payload.blocks, 1, block - 1) = Payload.blocks
    BY <1>1, <2>1
  <2>. QED
    BY <2>1, <2>2
<1>2. CASE Ready("raw") /\ remaining_data = 0
  <2>1. /\ Payload.encoding = "raw" /\ target \in Seq(Bits)
        /\ Len(target) = Total(Payload) - remaining_data
        /\ \A i \in 1 .. Len(target) : target[i] = Flatten(Payload.blocks)[i]
    BY <1>2 DEF Ready, Fine, ReaderSound
  <2>2. Sent(Payload) = Payload.blocks
    BY <2>1 DEF Sent
  <2>3. Payload \in Payloads /\ Payload.blocks \in Seq(DOMAIN Size)
    BY <1>2, PayloadTyped DEF Ready, Fine, InstallInv, ReaderInv
  <2>4. Flatten(Payload.blocks) \in Seq(AllBytes) /\ Len(Flatten(Payload.blocks)) = Total(Payload)
        /\ Total(Payload) \in Nat
    BY <2>2, <2>3, FlattenTyped DEF Total
  <2>5. Len(target) = Len(Flatten(Payload.blocks))
    BY <1>2, <2>1, <2>4
  <2>6. /\ target = [k \in 1 .. Len(target) |-> target[k]]
        /\ Flatten(Payload.blocks)
             = [k \in 1 .. Len(Flatten(Payload.blocks)) |-> Flatten(Payload.blocks)[k]]
    BY <2>1, <2>4
  <2>. QED
    BY <2>1, <2>5, <2>6
<1>. QED
  BY <1>1, <1>2 DEF Decoded

LEMMA SoundBlocks ==
    ASSUME Fine, UseStored \/ Download \/ Downloaded \/ Again \/ Decoded
    PROVE  ReaderSound'
<1>. USE DEF Stage, Await, SameBundle, SamePlace, Ready, MoreBlocks
<1>1. /\ UNCHANGED <<bundle, payload>> /\ stage \in {"block", "data", "raw"}
      /\ Payload' = Payload /\ payload \in 1 .. Len(bundle)
  <2>1. UNCHANGED <<bundle, payload>> /\ stage \in {"block", "data", "raw"}
    BY DEF UseStored, Download, Downloaded, Again, Decoded, Local, Fail
  <2>. QED
    BY <2>1, PlaceTypes DEF Payload, Fine
<1>2. Payload.target # "none" /\ ~Unsuited(Payload)
  BY <1>1, PlaceTypes, SMTT(30) DEF Fine, ReaderSound, Spared, Payload
<1>3. stage' = "block" => ReaderSound'
  BY <1>1, <1>2 DEF ReaderSound
<1>4. stage' = "end" /\ want' = 1 => ReaderSound'
  BY DEF ReaderSound
<1>5. CASE UseStored
  BY <1>3, <1>5 DEF UseStored
<1>6. CASE Again
  BY <1>2, <1>3, <1>6, AgainIs DEF Fine
<1>7. CASE Downloaded
  <2>1. buffer = Bytes(Hash)
    BY <1>7, DownloadedIs DEF Downloaded
  <2>. QED
    BY <1>3, <1>7, <2>1 DEF Downloaded
<1>8. CASE Decoded
  <2>1. target = Flatten(Payload.blocks)
    BY <1>8, DecodedIs
  <2>. QED
    BY <1>4, <1>8, <2>1 DEF Decoded
<1>9. CASE Download
  <2>1. stage = "block" /\ block <= Len(Payload.blocks) /\ FromSource
    BY <1>9 DEF Download
  <2>2. stage' = "data" /\ want' = BlockSize /\ buffer' = <<>> /\ block' = block
    BY <1>9 DEF Download
  <2>3. BlockSize = Size[Hash] /\ Size[Hash] \in Nat
    BY <2>1, BlockSizeIs DEF Fine, InstallInv
  <2>4. Hash' = Hash
    BY <1>1, <2>2 DEF Hash
  <2>5. want' + Len(buffer') = Size[Hash] /\ Len(buffer') = 0
    BY <2>2, <2>3
  <2>6. 1 .. Len(buffer') = {}
    BY <2>5
  <2>. QED
    BY <1>1, <1>2, <2>2, <2>4, <2>5, <2>6 DEF ReaderSound
<1>. QED
  BY <1>5, <1>6, <1>7, <1>8, <1>9

LEMMA SoundInit == Init => SoundInv
<1>. SUFFICES ASSUME Init PROVE SoundInv
  OBVIOUS
<1>1. BlocksInv
  <2>1. stage \in {"header", "any"}
    BY DEF Init, InitReader, InitAny
  <2>2. slots \in Seq(Slots)
    <3>1. CASE InitReader
      BY <3>1, SystemsAssumption DEF InitReader, SystemsAssumption, Slots
    <3>2. CASE InitAny
      BY <3>2 DEF InitAny
    <3>. QED
      BY <3>1, <3>2 DEF Init
  <2>. QED
    BY <2>1, <2>2 DEF BlocksInv
<1>2. SUFFICES ASSUME Spared, stage # "any" PROVE SourceSound /\ ReaderSound
  BY <1>1 DEF SoundInv
<1>3. InitReader /\ payload = 0
  BY <1>2 DEF Init, InitAny
<1>4. SourceInit(Len(content)) /\ stage = "header" /\ want = 1
  BY <1>3 DEF InitReader
<1>5. SourceSound
  <2>1. /\ result.kind = "none" /\ faults = 0 /\ consecutive_retries = 0 /\ response.of = "bundle"
        /\ content_length = Len(content)
        /\ ~use_range_queries => response.end = content_length /\ current_end = NoEnd
    BY <1>4, ResultTypes DEF SourceInit
  <2>2. response # NoResponse
    BY <2>1, BodyTypes
  <2>. QED
    BY <2>1, <2>2 DEF SourceSound
<1>6. Here = 0
  <2>1. current_position = 0 /\ current_skipped = 0 /\ result.kind = "none"
    BY <1>4, ResultTypes DEF SourceInit
  <2>. QED
    BY <2>1 DEF Here, Took
<1>. QED
  BY <1>3, <1>4, <1>5, <1>6 DEF ReaderSound

LEMMA SoundStep ==
    ASSUME InstallInv, PlaceInv, SoundInv, [Next]_allVars
    PROVE  SoundInv'
<1>1. BlocksInv'
  BY BlocksStep DEF SoundInv
<1>2. SUFFICES ASSUME Spared', stage' # "any" PROVE SourceSound' /\ ReaderSound'
  BY <1>1 DEF SoundInv
<1>3. Spared /\ served' = served
  BY <1>2, SparedBefore
<1>4. CASE UNCHANGED allVars
  <2>1. SourceSound /\ ReaderSound
    BY <1>2, <1>3, <1>4 DEF SoundInv, allVars, reader
  <2>2. UNCHANGED source /\ UNCHANGED reader /\ Here' = Here
    BY <1>4 DEF allVars, source, place, Here, Took
  <2>3. ReaderSound'
    BY <2>1, <2>2, SoundReaderKept DEF source
  <2>. QED
    BY <2>1, <2>2, <2>3 DEF SourceSound, source, network, chunk, Here, Took
<1>5. CASE Anybody
  BY <1>2, <1>5 DEF Anybody, reader
<1>6. ~Replace
  BY <1>2, <1>3 DEF Replace, Spared
<1>7. CASE InSource
  <2>1. stage # "any"
    BY <1>2, <1>7 DEF InSource, reader
  <2>2. Fine /\ SourceStep
    BY <1>3, <1>7, <2>1 DEF SoundInv, Fine, InSource
  <2>3. SourceSound'
    BY <1>2, <2>2, SoundSource DEF Fine
  <2>4. slice > 0
    BY <2>2 DEF SourceStep, SkipAhead, SkipThrough, SkipFails, SkipBroken, CannotFetch, EndOfBundle,
       Fetch, FetchRetry, FetchFails, Receive, BodyEnds, BodyBreaks, BodyFails, Skipping, Fetching,
       Receiving
  <2>5. SourceInv
    BY <2>4, ReadingIsInv DEF InstallInv
  <2>6. Here' = Here
    BY <2>2, <2>3, <2>5, SourcePlace DEF SourceSound
  <2>7. stage # "done"
    <3>1. stage = "done" => slice = 0
      BY <2>2 DEF Fine, ReaderSound
    <3>. QED
      BY <2>4, <3>1
  <2>8. ReaderSound'
    BY <1>7, <2>2, <2>6, <2>7, SoundReaderKept DEF Fine, InSource
  <2>. QED
    BY <2>3, <2>8
<1>8. CASE ReaderStep
  <2>1. stage # "any"
    BY <1>8 DEF ReaderStep, Exact, TakeData, TakeFailure, PayloadStart, BadFrame, StartBundle,
       SkipPayload, StartPayload, EndPayload, UseStored, StoredUnreadable, Download, Downloaded,
       Again, ReadRaw, WriteRaw, Decoded, Running, Ready, Local, MoreBlocks
  <2>2. Fine
    BY <1>3, <2>1 DEF SoundInv, Fine
  <2>3. SourceSound'
    BY <1>8, <2>2, SoundSourceKept DEF Fine
  <2>4. ~TakeFailure /\ ~BadFrame /\ ~StoredUnreadable
    BY <2>2, NoFailure
  <2>5. CASE Exact \/ ReadRaw
    <3>1. /\ UNCHANGED <<current_position, current_skipped>> /\ UNCHANGED reader
          /\ result' = Trait!NoResult /\ result.kind = "none" /\ stage # "done"
      BY <2>5 DEF Exact, ReadRaw, Ready, Running, ReadCall, place
    <3>2. Here' = Here
      BY <3>1, ResultTypes DEF Here, Took
    <3>3. ReaderSound
      BY <2>2 DEF Fine
    <3>. QED
      BY <2>3, <3>1, <3>2, <3>3, SoundReaderKept
  <2>. QED
    BY <1>8, <2>2, <2>3, <2>4, <2>5, SoundTaken, SoundWritten, SoundStarted, SoundFrames,
       SoundBlocks DEF ReaderStep
<1>. QED
  BY <1>4, <1>5, <1>6, <1>7, <1>8 DEF Next

\* For every bundle and every device: an installation fails only for a reason, a transfer
\* that breaks more often than may be retried, a bundle that the server has replaced or
\* does not have all of, a payload that the device cannot be given, or an index that is torn
\* or lists more than its slot holds.  Indices that are out of date are no reason.
THEOREM AlwaysSurvives == Spec => []Survives
<1>1. InstallInv /\ SoundInv => Survives
  <2>. SUFFICES ASSUME InstallInv, SoundInv, stage = "failed", ~Survives PROVE FALSE
    BY DEF Survives
  <2>1. faults \in Nat /\ MaxRetries \in Nat /\ refused \in BOOLEAN
    BY HttpAssumption DEF HttpAssumption, InstallInv, UsedInv, HttpTypeOK
  <2>2. Len(content) \in Nat /\ Len(Layout(bundle)) \in Nat
    BY LayoutHead DEF InstallInv, ReaderInv, ReadsInv
  <2>3. faults <= (IF use_range_queries THEN MaxRetries ELSE 0)
    BY <2>1 DEF Survives
  <2>4. Len(content) >= Len(Layout(bundle))
    BY <2>2 DEF Survives
  <2>5. Spared
    BY <2>3, <2>4 DEF Survives, Spared
  <2>. QED
    BY <2>5 DEF SoundInv, ReaderSound
<1>2. InstallInv /\ PlaceInv /\ [Next]_allVars => PlaceInv'
  BY PlaceStep
<1>3. InstallInv /\ PlaceInv /\ SoundInv /\ [Next]_allVars => SoundInv'
  BY SoundStep
<1>. QED
  BY <1>1, <1>2, <1>3, PlaceInit, SoundInit, InstallInvariant, PTL DEF Spec
=============================================================================
