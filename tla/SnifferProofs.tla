--------------------------- MODULE SnifferProofs ---------------------------
(***************************************************************************)
(* How long sniffing holds a connection back, what becomes of the bytes it *)
(* holds back, and what passes the rules, for any deadline, any wait of a  *)
(* link's reader, any number of chunks and any sniffers and rules.         *)
(***************************************************************************)
EXTENDS Sniffer, SequenceTheorems, TLAPS

(* The clocks of the sniffing loop.                                        *)
ClockType ==
    /\ input \in Inputs
    /\ left \in Int /\ waited \in Nat /\ elapsed \in Nat

(* While the loop runs, all the time that passed was charged to the        *)
(* deadline or is being waited by the current read, and there is some left *)
(* for it; afterwards only the bound remains.                              *)
Charged ==
    pc \in {"start", "cache"} =>
    /\ 0 < left /\ waited <= Wait
    /\ elapsed = (Deadline - left) + waited

ClockInv == ClockType /\ Charged /\ SniffBounded

(* A connection comes through Dispatch or DispatchLink.                    *)
LEMMA ModeOfInput == ASSUME ClockType
                     PROVE  input.mode \in {"pipe", "link"}
  BY InputsAssumption DEF ClockType, AllInputs

(* Sniffing has not begun.                                                 *)
LEMMA ClockInit == Init => ClockInv
  <1> SUFFICES ASSUME Init PROVE ClockInv
    OBVIOUS
  <1>1. ClockType
    BY SnifferAssumption DEF Init, ClockType
  <1>2. input.mode \in {"pipe", "link"}
    BY <1>1, ModeOfInput
  <1> QED
    BY <1>1, <1>2, SnifferAssumption
       DEF Init, ClockInv, Charged, SniffBounded, Wait

(* A step that leaves the clocks alone and does not enter the loop.        *)
LEMMA ClockStutters ==
    ASSUME ClockInv, UNCHANGED <<input, left, waited, elapsed>>,
           pc' \in {"start", "cache"} => pc \in {"start", "cache"}
    PROVE  ClockInv'
  BY DEF ClockInv, ClockType, Charged, SniffBounded, Wait

(* After a read the loop goes on with what it left of the deadline, or     *)
(* ends.                                                                   *)
LEMMA ClockAfterRead ==
    ASSUME ClockInv, pc = "cache", waited' = 0, UNCHANGED <<input, elapsed>>,
           left' \in {left, LeftAfter},
           pc' = "cache" => left' = LeftAfter /\ left' > 0,
           pc' \in {"cache", "domain"}
    PROVE  ClockInv'
  <1>1. input.mode \in {"pipe", "link"}
    BY ModeOfInput DEF ClockInv
  <1>2. ClockType'
    BY DEF ClockInv, ClockType, LeftAfter
  <1>3. Charged'
    <2> SUFFICES ASSUME pc' = "cache"
                 PROVE  0 < left' /\ waited' <= Wait'
                        /\ elapsed' = (Deadline - left') + waited'
      BY DEF Charged
    <2>1. left' = left - waited /\ left' > 0
      BY DEF LeftAfter
    <2> QED
      BY <1>1, <2>1, SnifferAssumption DEF ClockInv, ClockType, Charged, Wait
  <1>4. SniffBounded'
    BY DEF ClockInv, SniffBounded
  <1> QED
    BY <1>2, <1>3, <1>4 DEF ClockInv

(* Every step keeps the time spent within its stage.                       *)
LEMMA ClockStep == ClockInv /\ [Next]_vars => ClockInv'
  <1> SUFFICES ASSUME ClockInv, [Next]_vars PROVE ClockInv'
    OBVIOUS
  <1>1. CASE Start
    BY <1>1, ClockStutters DEF Start, sniffing
  <1>2. CASE Tick
    <2>1. input.mode \in {"pipe", "link"}
      BY ModeOfInput DEF ClockInv
    <2>2. /\ pc = "cache" /\ pc' = pc /\ waited < Wait
          /\ waited' = waited + 1 /\ input' = input /\ left' = left
          /\ elapsed' = IF elapsed > Deadline + LinkWait THEN elapsed
                        ELSE elapsed + 1
      BY <1>2 DEF Tick
    <2>3. 0 < left /\ elapsed = (Deadline - left) + waited
      BY <2>2 DEF ClockInv, Charged
    <2>4. elapsed <= Deadline + LinkWait
      BY <2>1, SnifferAssumption DEF ClockInv, ClockType, SniffBounded
    <2>5. elapsed' = elapsed + 1
      BY <2>2, <2>4, SnifferAssumption DEF ClockInv, ClockType
    <2>6. ClockType'
      BY <2>2, <2>5 DEF ClockInv, ClockType
    <2>7. Wait' = Wait /\ Wait \in Int
      BY <2>2, SnifferAssumption DEF Wait, ClockInv, ClockType
    <2>8. Charged'
      BY <2>2, <2>3, <2>5, <2>7, SnifferAssumption
         DEF Charged, ClockInv, ClockType
    <2>9. SniffBounded'
      BY <2>1, <2>2, <2>3, <2>5, SnifferAssumption
         DEF SniffBounded, Wait, ClockInv, ClockType
    <2> QED
      BY <2>6, <2>8, <2>9 DEF ClockInv
  <1>3. ASSUME NEW n, Sniff(n), pc = "cache", waited' = 0,
               UNCHANGED <<input, elapsed>>
        PROVE  ClockInv'
    <2>1. /\ left' \in {left, LeftAfter}
          /\ pc' = "cache" => left' = LeftAfter /\ left' > 0
          /\ pc' \in {"cache", "domain"}
      BY <1>3 DEF Sniff
    <2> QED
      BY <1>3, <2>1, ClockAfterRead
  <1>4. CASE Cache
    BY <1>3, <1>4 DEF Cache
  <1>5. CASE CacheNothing
    <2>1. CASE cache # <<>>
      BY <1>3, <1>5, <2>1 DEF CacheNothing
    <2>2. CASE cache = <<>>
      BY <1>5, <2>2, ClockAfterRead DEF CacheNothing
    <2> QED
      BY <2>1, <2>2
  <1>6. CASE CacheFails \/ ContextDone
    BY <1>6, ClockStutters DEF CacheFails, ContextDone, sniffing
  <1>7. CASE CheckDomainRule \/ CheckProtocolRule \/ NoHandler
    BY <1>7, ClockStutters
       DEF CheckDomainRule, CheckProtocolRule, NoHandler, Reject, sniffing
  <1>8. CASE Send \/ CloseWrite \/ CloseAll
    BY <1>8, ClockStutters DEF Send, CloseWrite, CloseAll, sniffing
  <1>9. CASE RelayCache \/ Relay
    BY <1>9, ClockStutters DEF RelayCache, Relay, sniffing
  <1>10. CASE (\E r \in RuleSets : MakeRules(r)) \/ FillRules
    BY <1>10, ClockStutters DEF MakeRules, FillRules, sniffing
  <1>11. CASE UNCHANGED vars
    BY <1>11, ClockStutters DEF vars, sniffing
  <1> QED
    BY <1>1, <1>2, <1>4, <1>5, <1>6, <1>7, <1>8, <1>9, <1>10, <1>11
       DEF Next, Dispatcher, Environment

(* Sniffing (the loop of DefaultDispatcher.sniffer) holds a connection     *)
(* back for cacheDeadline at most, and for one wait of its reader more     *)
(* when that ignores the deadline, whatever their lengths, the client and  *)
(* the sniffers.                                                           *)
THEOREM SnifferBounded == Spec => []SniffBounded
  <1>1. ClockInv => SniffBounded
    BY DEF ClockInv
  <1> QED
    BY <1>1, ClockInit, ClockStep, PTL DEF Spec

----------------------------------------------------------------------------
(* The bytes of the connection, in the order in which they will leave.     *)
Line == out \o cache \o queue

StreamType ==
    /\ out \in Seq(Nat) /\ cache \in Seq(Nat) /\ queue \in Seq(Nat)
    /\ sent \in Nat /\ eof \in BOOLEAN /\ cut \in BOOLEAN

InOrder(s) == \A i \in 1..Len(s) : s[i] = i

Kept(s) == InOrder(s) /\ Len(s) <= sent /\ (~cut => Len(s) = sent)

(* A connection that was cut receives nothing more, so what is missing at  *)
(* its end is never followed by a later chunk.                             *)
StreamInv == StreamType /\ (cut => eof) /\ (pc # "over" => Kept(Line))

(* The line of bytes from outbound to pipe is a sequence of chunks.        *)
LEMMA LineType == ASSUME StreamType
                  PROVE  /\ out \o cache \in Seq(Nat) /\ Line \in Seq(Nat)
                         /\ Len(out \o cache) \in Nat /\ Len(queue) \in Nat
                         /\ Len(Line) = Len(out \o cache) + Len(queue)
  <1>1. out \o cache \in Seq(Nat)
    BY ConcatProperties DEF StreamType
  <1> QED
    BY <1>1, ConcatProperties, LenProperties DEF StreamType, Line

(* What a read takes and what it leaves make up the queue.                 *)
LEMMA SplitSeq ==
    ASSUME NEW q \in Seq(Nat), NEW k \in 1..Len(q)
    PROVE  /\ SubSeq(q, 1, k) \in Seq(Nat)
           /\ SubSeq(q, k + 1, Len(q)) \in Seq(Nat)
           /\ SubSeq(q, 1, k) \o SubSeq(q, k + 1, Len(q)) = q
  <1>1. Len(q) \in Nat /\ \A i \in 1..Len(q) : q[i] \in Nat
    BY LenProperties, ElementOfSeq
  <1>2. \A i \in 1..k : q[i] \in Nat
    BY <1>1
  <1>3. \A i \in (k + 1)..Len(q) : q[i] \in Nat
    BY <1>1
  <1>4. 1 \in Int /\ k \in Int /\ k + 1 \in Int /\ Len(q) \in Int
    BY <1>1
  <1>5. SubSeq(q, 1, k) \o SubSeq(q, k + 1, Len(q)) = SubSeq(q, 1, Len(q))
    BY <1>1, ConcatAdjacentSubSeq
  <1>6. SubSeq(q, 1, Len(q)) = q
    BY SubSeqFull
  <1> QED
    BY <1>2, <1>3, <1>4, <1>5, <1>6, SubSeqProperties

(* A client's first chunks are in order.                                   *)
LEMMA ChunksProperties ==
    ASSUME NEW n \in Nat
    PROVE  /\ Chunks(n) \in Seq(Nat) /\ Len(Chunks(n)) = n
           /\ InOrder(Chunks(n))
  BY DEF Chunks, InOrder

(* What the invariant is for.                                              *)
LEMMA KeptIsPrefix == ASSUME StreamInv PROVE BytesKept
  <1> SUFFICES ASSUME pc # "over"
               PROVE  /\ IsPrefix(Line, Chunks(sent))
                      /\ ~cut => Line = Chunks(sent)
    BY DEF BytesKept, Line
  <1> DEFINE n == Len(Line)
             t == Chunks(sent)
  <1>1. /\ Line \in Seq(Nat) /\ n \in Nat /\ n <= sent /\ sent \in Nat
        /\ \A i \in 1..n : Line[i] = i
        /\ ~cut => n = sent
    BY LineType, LenProperties DEF StreamInv, StreamType, Kept, InOrder
  <1>2. t \in Seq(Nat) /\ Len(t) = sent /\ \A i \in 1..sent : t[i] = i
    BY <1>1, ChunksProperties DEF InOrder
  <1>3. /\ SubSeq(t, 1, n) \in Seq(Nat) /\ Len(SubSeq(t, 1, n)) = n
        /\ \A i \in 1..n : SubSeq(t, 1, n)[i] = i
    <2> HIDE DEF n, t
    <2>1. \A i \in 1..n : t[i] \in Nat
      BY <1>1, <1>2
    <2>2. /\ SubSeq(t, 1, n) \in Seq(Nat)
          /\ Len(SubSeq(t, 1, n)) = IF 1 <= n THEN n - 1 + 1 ELSE 0
          /\ \A i \in 1 .. n - 1 + 1 : SubSeq(t, 1, n)[i] = t[1 + i - 1]
      BY <1>1, <2>1, SubSeqProperties
    <2> QED
      BY <1>1, <1>2, <2>2
  <1>4. SubSeq(Line, 1, n) = Line
    BY <1>1, SubSeqFull
  <1>5. SubSeq(t, 1, n) = Line
    BY <1>1, <1>3, SeqEqual
  <1>6. IsPrefix(Line, t)
    BY <1>1, <1>2, <1>4, <1>5 DEF IsPrefix
  <1>7. ~cut => Line = t
    BY <1>1, <1>2, SeqEqual
  <1> QED
    BY <1>6, <1>7

(* Nothing was sent.                                                       *)
LEMMA StreamInit == Init => StreamInv
  <1> SUFFICES ASSUME Init PROVE StreamInv
    OBVIOUS
  <1>1. StreamType
    BY EmptySeq DEF Init, StreamType
  <1>2. Line = <<>>
    BY ConcatEmptySeq, EmptySeq DEF Init, Line
  <1> QED
    BY <1>1, <1>2 DEF Init, StreamInv, Kept, InOrder

(* A step that moves bytes along the line, or ends the connection.         *)
LEMMA StreamMoves ==
    ASSUME StreamInv, StreamType', UNCHANGED <<sent, cut, eof>>,
           Line' = Line, pc' # "over" => pc # "over"
    PROVE  StreamInv'
  BY DEF StreamInv, Kept, InOrder

(* Every step keeps the bytes in order.                                    *)
LEMMA StreamStep == StreamInv /\ [Next]_vars => StreamInv'
  <1> SUFFICES ASSUME StreamInv, [Next]_vars PROVE StreamInv'
    OBVIOUS
  <1>0. StreamType
    BY DEF StreamInv
  <1>1. ASSUME UNCHANGED <<stream, sent, cut, eof>>, pc' # "over" => pc # "over"
        PROVE  StreamInv'
    <2>1. StreamType' /\ Line' = Line
      BY <1>0, <1>1 DEF StreamType, Line, stream
    <2> QED
      BY <1>1, <2>1, StreamMoves
  <1>2. ASSUME Reject, UNCHANGED <<sent, out>>
        PROVE  StreamInv'
    BY <1>0, <1>2, EmptySeq DEF Reject, StreamInv, StreamType
  <1>3. CASE Send
    <2>1. /\ ~eof /\ ~cut /\ sent' = sent + 1 /\ queue' = Append(queue, sent + 1)
          /\ UNCHANGED <<eof, cut, cache, out, pc>>
      BY <1>3 DEF Send, StreamInv
    <2>2. StreamType'
      BY <1>0, <2>1, AppendProperties DEF StreamType
    <2>3. pc # "over" => Kept(Line)'
      <3> SUFFICES ASSUME pc # "over" PROVE Kept(Line)'
        OBVIOUS
      <3> DEFINE s == Line
                 e == sent + 1
      <3>1. s \in Seq(Nat) /\ e \in Nat /\ Len(s) = sent
            /\ \A i \in 1..Len(s) : s[i] = i
        BY <1>0, <2>1, LineType DEF StreamInv, StreamType, Kept, InOrder
      <3>2. Line' = Append(s, e)
        <4>1. out \o cache \in Seq(Nat) /\ queue \in Seq(Nat) /\ <<e>> \in Seq(Nat)
          BY <1>0, <3>1, LineType DEF StreamType
        <4>2. Append(queue, e) = queue \o <<e>>
          BY <3>1, <4>1, AppendIsConcat
        <4>3. Append(s, e) = s \o <<e>>
          BY <3>1, AppendIsConcat
        <4>4. (out \o cache) \o (queue \o <<e>>) = ((out \o cache) \o queue) \o <<e>>
          BY <4>1, ConcatAssociative
        <4> QED
          BY <2>1, <4>2, <4>3, <4>4 DEF Line
      <3> HIDE DEF s
      <3>3. /\ Len(Append(s, e)) = Len(s) + 1
            /\ \A i \in 1..Len(s) : Append(s, e)[i] = s[i]
            /\ Append(s, e)[Len(s) + 1] = e
        BY <3>1, AppendProperties
      <3>4. sent \in Nat
        BY <1>0 DEF StreamType
      <3>5. InOrder(Append(s, e)) /\ Len(Append(s, e)) = sent'
        BY <2>1, <3>1, <3>3, <3>4 DEF InOrder
      <3> QED
        BY <2>1, <3>2, <3>4, <3>5 DEF Kept, InOrder
    <2> QED
      BY <2>1, <2>2, <2>3 DEF StreamInv
  <1>4. CASE CloseWrite
    <2>1. StreamType' /\ Line' = Line
      BY <1>0, <1>4 DEF CloseWrite, StreamType, Line, stream
    <2> QED
      BY <1>4, <2>1 DEF CloseWrite, StreamInv, Kept, InOrder
  <1>5. CASE CloseAll
    <2>1. /\ pc # "over" /\ eof' /\ cut' /\ queue' = <<>>
          /\ eof' \in BOOLEAN /\ cut' \in BOOLEAN
          /\ UNCHANGED <<sent, cache, out, pc>>
      BY <1>5 DEF CloseAll
    <2>2. StreamType'
      BY <1>0, <2>1, EmptySeq DEF StreamType
    <2> DEFINE s == out \o cache
    <2>3. s \in Seq(Nat) /\ Len(s) \in Nat /\ Len(queue) \in Nat
          /\ Len(Line) = Len(s) + Len(queue)
      BY <1>0, LineType
    <2>4. Line' = s
      BY <2>1, <2>3, ConcatEmptySeq DEF Line
    <2>5. \A i \in 1..Len(s) : s[i] = Line[i]
      BY <1>0, <2>3, ConcatProperties DEF Line, StreamType
    <2>6. InOrder(Line) /\ Len(Line) <= sent
      BY <2>1 DEF StreamInv, Kept
    <2> HIDE DEF s
    <2>7. InOrder(s) /\ Len(s) <= sent
      BY <1>0, <2>3, <2>5, <2>6 DEF InOrder, StreamType
    <2> QED
      BY <2>1, <2>2, <2>4, <2>7 DEF StreamInv, Kept, InOrder
  <1>6. CASE Cache
    <2>1. PICK k \in 1..Len(queue) :
              /\ cache' = cache \o SubSeq(queue, 1, k)
              /\ queue' = SubSeq(queue, k + 1, Len(queue))
      BY <1>6 DEF Cache
    <2>2. UNCHANGED <<out, sent, eof, cut>> /\ pc # "over"
      BY <1>6 DEF Cache, client
    <2>3. PICK a \in Seq(Nat), b \in Seq(Nat) :
              a \o b = queue /\ cache' = cache \o a /\ queue' = b
      BY <1>0, <2>1, SplitSeq DEF StreamType
    <2>4. out \in Seq(Nat) /\ cache \in Seq(Nat)
      BY <1>0 DEF StreamType
    <2>5. StreamType'
      BY <1>0, <2>2, <2>3, <2>4, ConcatProperties DEF StreamType
    <2>6. (out \o (cache \o a)) \o b = (out \o cache) \o (a \o b)
      <3>1. (out \o cache) \o a = out \o (cache \o a)
        BY <2>4, ConcatAssociative, SMTT(30)
      <3>2. out \o cache \in Seq(Nat)
        BY <2>4, ConcatProperties
      <3>3. ((out \o cache) \o a) \o b = (out \o cache) \o (a \o b)
        BY <3>2, ConcatAssociative, SMTT(30)
      <3> QED
        BY <3>1, <3>3, Zenon
    <2>7. Line' = Line
      BY <2>2, <2>3, <2>6 DEF Line
    <2> QED
      BY <2>2, <2>5, <2>7, StreamMoves
  <1>7. CASE RelayCache
    <2>1. /\ out' = out \o cache /\ cache' = <<>>
          /\ UNCHANGED <<queue, sent, eof, cut, pc>>
      BY <1>7 DEF RelayCache, client
    <2>2. out \o cache \in Seq(Nat)
      BY <1>0, LineType
    <2>3. StreamType'
      BY <1>0, <2>1, <2>2, EmptySeq DEF StreamType
    <2>4. Line' = Line
      BY <2>1, <2>2, ConcatEmptySeq DEF Line
    <2> QED
      BY <2>1, <2>3, <2>4, StreamMoves
  <1>8. CASE Relay
    <2>1. /\ cache = <<>> /\ out' = out \o queue /\ queue' = <<>>
          /\ UNCHANGED <<cache, sent, eof, cut, pc>>
      BY <1>8 DEF Relay, client
    <2>2. out \in Seq(Nat) /\ queue \in Seq(Nat) /\ out \o queue \in Seq(Nat)
      BY <1>0, ConcatProperties DEF StreamType
    <2>3. StreamType'
      BY <1>0, <2>1, <2>2, EmptySeq DEF StreamType
    <2>4. Line' = Line
      <3>1. out \o <<>> = out /\ (out \o queue) \o <<>> = out \o queue
        BY <2>2, ConcatEmptySeq
      <3> QED
        BY <2>1, <3>1 DEF Line
    <2> QED
      BY <2>1, <2>3, <2>4, StreamMoves
  <1>9. CASE CheckDomainRule \/ CheckProtocolRule \/ NoHandler
    BY <1>1, <1>2, <1>9
       DEF CheckDomainRule, CheckProtocolRule, NoHandler, stream
  <1>10. CASE Start \/ Tick \/ CacheNothing \/ CacheFails \/ ContextDone
    BY <1>1, <1>10
       DEF Start, Tick, CacheNothing, CacheFails, ContextDone, client
  <1>11. CASE (\E r \in RuleSets : MakeRules(r)) \/ FillRules
    BY <1>1, <1>11 DEF MakeRules, FillRules, client
  <1>12. CASE UNCHANGED vars
    BY <1>1, <1>12 DEF vars, client
  <1> QED
    BY <1>3, <1>4, <1>5, <1>6, <1>7, <1>8, <1>9, <1>10, <1>11, <1>12
       DEF Next, Dispatcher, Environment

(* What cachedReader holds back comes out again before what follows it:    *)
(* for any number of chunks and reads of any size, the outbound's bytes,   *)
(* the cache and the pipe are what the client sent, in order, and all of   *)
(* it unless the connection was cut.                                       *)
THEOREM SnifferBytesKept == Spec => []BytesKept
  <1>1. StreamInv => BytesKept
    BY KeptIsPrefix
  <1> QED
    BY <1>1, StreamInit, StreamStep, PTL DEF Spec

----------------------------------------------------------------------------
(* What the reads so far say of protocol p: the sniffer that was dropped   *)
(* had asked for more data or failed before any read would have matched.   *)
Dropped(p) ==
    \E m \in reads : /\ input.verdict[p][m] \in {"more", "no"}
                     /\ \A k \in reads : k <= m => input.verdict[p][k] # "match"

Clueless(p) == \A k \in reads : input.verdict[p][k] = "noclue"

(* p matched a read for which its sniffer was still asked.                 *)
Excused(p, n) == \E m \in reads : m < n /\ input.verdict[p][m] \in {"more", "no"}

ReadType ==
    /\ input \in Inputs /\ reads \subseteq 1..MaxChunks /\ sent <= MaxChunks
    /\ pending \subseteq Sniffers

(* Each candidate has no clue yet, and each other one was dropped.         *)
LoopInv ==
    pc \in {"start", "cache"} =>
    /\ \A k \in reads : k <= Len(cache)
    /\ \A p \in pending : Clueless(p)
    /\ \A p \in Sniffers \ pending : Dropped(p)

(* Afterwards a match that was asked for is the result.                    *)
ResultInv ==
    pc \in {"domain", "protocol", "relay"} =>
    \A p \in Sniffers, n \in reads :
        input.verdict[p][n] = "match"
        => Excused(p, n) \/ (protocol = p /\ dest = Overridden(p))

(* And the rules were asked about it.                                      *)
RuledInv ==
    /\ update # None => crossed
    /\ ~crossed =>
          /\ pc \in {"protocol", "relay"} => dest \notin rules.domain
          /\ pc = "relay" => protocol \notin rules.protocols

SniffInv == ReadType /\ LoopInv /\ ResultInv /\ RuledInv

(* What each sniffer says of each prefix of the client's bytes.            *)
LEMMA VerdictOfInput ==
    ASSUME ReadType
    PROVE  /\ input.verdict \in [Sniffers -> [1..MaxChunks ->
                                   {"noclue", "more", "no", "match"}]]
           /\ \A s, t \in Sniffers, n \in 1..MaxChunks :
                 input.verdict[s][n] = "match" /\ input.verdict[t][n] = "match"
                    => s = t
  <1>1. input.verdict \in Verdicts
    BY InputsAssumption DEF ReadType, AllInputs
  <1>2. MaxChunks \in Nat
    BY SnifferAssumption
  <1> QED
    BY <1>1, <1>2 DEF Verdicts

(* The loop ends without a result.                                         *)
LEMMA LoopEnds ==
    ASSUME SniffInv, pc \in {"start", "cache"}, UNCHANGED <<input, reads>>,
           NEW p \in Sniffers, NEW n \in reads, input.verdict[p][n] = "match"
    PROVE  Excused(p, n)
  <1>0. n \in 1..MaxChunks /\ reads \subseteq 1..MaxChunks
    BY DEF SniffInv, ReadType
  <1>1. p \notin pending
    BY DEF SniffInv, LoopInv, Clueless
  <1>2. Dropped(p)
    BY <1>1 DEF SniffInv, LoopInv
  <1>3. PICK m \in reads : /\ input.verdict[p][m] \in {"more", "no"}
                           /\ \A k \in reads : k <= m => input.verdict[p][k] # "match"
    BY <1>2 DEF Dropped
  <1>4. m < n
    BY <1>0, <1>3, SnifferAssumption
  <1> QED
    BY <1>3, <1>4 DEF Excused

(* A step within the loop or out of it that reads nothing.                 *)
LEMMA NoRead ==
    ASSUME SniffInv, pc \in {"start", "cache"}, pc' \in {"start", "cache", "domain"},
           UNCHANGED <<input, reads, sent, cache, pending, rules, update, crossed>>
    PROVE  SniffInv'
  <1>1. ReadType' /\ LoopInv'
    BY DEF SniffInv, ReadType, LoopInv, Clueless, Dropped
  <1>2. ResultInv'
    BY LoopEnds DEF ResultInv, Excused
  <1>3. RuledInv'
    BY DEF SniffInv, RuledInv
  <1> QED
    BY <1>1, <1>2, <1>3 DEF SniffInv

(* A step after the loop, with the rules as they were.                     *)
LEMMA NoResult ==
    ASSUME SniffInv, pc' = pc \/ pc' \in {"over", "crash"}, sent' <= MaxChunks,
           pc \in {"start", "cache"} => Len(cache') = Len(cache),
           UNCHANGED <<input, reads, pending, protocol, dest, rules, update, crossed>>
    PROVE  SniffInv'
  <1>1. ReadType' /\ LoopInv'
    BY DEF SniffInv, ReadType, LoopInv, Clueless, Dropped
  <1>2. ResultInv'
    BY DEF SniffInv, ResultInv, Excused, Overridden
  <1>3. RuledInv'
    BY DEF SniffInv, RuledInv
  <1> QED
    BY <1>1, <1>2, <1>3 DEF SniffInv

(* Sniffer.Sniff on a payload no shorter than those before.                *)
LEMMA SniffRead ==
    ASSUME SniffInv, pc = "cache", NEW n \in 1..MaxChunks, Sniff(n),
           \A k \in reads : k <= n, n = Len(cache'),
           UNCHANGED <<input, sent, rules, update, crossed>>
    PROVE  SniffInv'
  <1> DEFINE v == input.verdict
             says(x) == {s \in pending : v[s][n] = x}
  <1>0. /\ reads' = reads \cup {n} /\ reads \subseteq 1..MaxChunks
        /\ pc' \in {"cache", "domain"}
        /\ MaxChunks \in Nat /\ v' = v
        /\ pending \subseteq Sniffers /\ pending' \subseteq pending
    BY SnifferAssumption DEF Sniff, SniffInv, ReadType
  <1>1. ReadType'
    BY <1>0 DEF SniffInv, ReadType
  <1>2. RuledInv'
    BY <1>0 DEF SniffInv, RuledInv
  <1>3. /\ \A p \in Sniffers, x \in reads' :
              v[p][x] \in {"noclue", "more", "no", "match"}
        /\ \A s, t \in Sniffers : v[s][n] = "match" /\ v[t][n] = "match" => s = t
    BY <1>0, <1>1, VerdictOfInput DEF SniffInv
  <1>4. ASSUME NEW p \in Sniffers \ pending PROVE Dropped(p)'
    <2>1. PICK m \in reads :
              /\ v[p][m] \in {"more", "no"}
              /\ \A k \in reads : k <= m => v[p][k] # "match"
      BY DEF SniffInv, LoopInv, Dropped
    <2>2. n <= m => v[p][n] # "match"
      <3>1. m <= n /\ m \in Nat
        BY <1>0, <2>1
      <3>2. n <= m => n = m
        BY <3>1
      <3> QED
        BY <2>1, <3>2
    <2> QED
      BY <1>0, <2>1, <2>2 DEF Dropped
  <1>5. ASSUME NEW p \in pending, p \in Sniffers, v[p][n] \in {"more", "no"}
        PROVE  Dropped(p)'
    <2>1. \A k \in reads : v[p][k] = "noclue"
      BY DEF SniffInv, LoopInv, Clueless
    <2> QED
      BY <1>0, <1>5, <2>1 DEF Dropped
  <1>6. ASSUME NEW p \in pending, v[p][n] = "noclue" PROVE Clueless(p)'
    BY <1>0, <1>6 DEF SniffInv, LoopInv, Clueless
  <1>7. ASSUME NEW p \in Sniffers, Dropped(p)' \/ Clueless(p)',
               NEW x \in reads', v[p][x] = "match"
        PROVE  Excused(p, x)'
    <2>1. PICK m \in reads' :
              /\ v[p][m] \in {"more", "no"}
              /\ \A k \in reads' : k <= m => v[p][k] # "match"
      BY <1>0, <1>7 DEF Dropped, Clueless
    <2>2. m < x
      <3>1. m \in Nat /\ x \in Nat
        BY <1>0
      <3>2. ~(x <= m)
        BY <1>7, <2>1
      <3> QED
        BY <3>1, <3>2
    <2> QED
      BY <1>0, <2>1, <2>2 DEF Excused
  <1>8. CASE says("match") # {}
    <2>1. /\ protocol' \in says("match") /\ dest' = Overridden(protocol')
          /\ pc' = "domain"
      BY <1>8 DEF Sniff
    <2>2. LoopInv'
      BY <2>1 DEF LoopInv
    <2>3. ASSUME NEW p \in Sniffers, NEW x \in reads', v[p][x] = "match"
          PROVE  Excused(p, x)' \/ (protocol = p /\ dest = Overridden(p))'
      <3>1. CASE p \notin pending
        BY <1>4, <1>7, <2>3, <3>1
      <3>2. CASE p \in pending /\ v[p][n] # "match"
        <4>1. v[p][n] \in {"noclue", "more", "no"}
          BY <1>0, <1>3, <3>2
        <4> QED
          BY <1>5, <1>6, <1>7, <2>3, <3>2, <4>1
      <3>3. CASE p \in pending /\ v[p][n] = "match"
        <4>1. protocol' = p
          BY <1>0, <1>3, <2>1, <3>3
        <4>2. dest' = Overridden(p) /\ Overridden(p)' = Overridden(p)
          BY <2>1, <4>1 DEF Overridden
        <4> QED
          BY <4>1, <4>2
      <3> QED
        BY <3>1, <3>2, <3>3
    <2>4. ResultInv'
      BY <1>0, <2>3 DEF ResultInv
    <2> QED
      BY <1>1, <1>2, <2>2, <2>4 DEF SniffInv
  <1>9. CASE says("match") = {}
    <2>1. ASSUME NEW p \in Sniffers
          PROVE  IF p \in says("noclue") THEN Clueless(p)' ELSE Dropped(p)'
      <3>1. CASE p \in pending
        <4>1. v[p][n] \in {"noclue", "more", "no"}
          BY <1>0, <1>3, <1>9, <3>1
        <4> QED
          BY <1>5, <1>6, <3>1, <4>1
      <3>2. CASE p \notin pending
        BY <1>4, <3>2
      <3> QED
        BY <3>1, <3>2
    <2>2. pc' = "cache" => pending' = says("noclue")
      BY <1>9 DEF Sniff
    <2>3. \A k \in reads' : k <= Len(cache')
      BY <1>0
    <2>4. LoopInv'
      BY <1>0, <2>1, <2>2, <2>3 DEF LoopInv
    <2>5. ASSUME NEW p \in Sniffers, NEW x \in reads', v[p][x] = "match"
          PROVE  Excused(p, x)'
      BY <1>7, <2>1, <2>5
    <2>6. ResultInv'
      BY <1>0, <2>5 DEF ResultInv
    <2> QED
      BY <1>1, <1>2, <2>4, <2>6 DEF SniffInv
  <1> QED
    BY <1>8, <1>9

(* Nothing was sniffed.                                                    *)
LEMMA SniffInit == Init => SniffInv
  BY SnifferAssumption
     DEF Init, SniffInv, ReadType, LoopInv, ResultInv, RuledInv, Clueless, Dropped

(* The cache holds no more chunks than the client sent.                    *)
LEMMA CacheLength ==
    ASSUME StreamInv, pc # "over"
    PROVE  Len(cache) \in Nat /\ Len(cache) <= sent /\ sent \in Nat
  <1>1. /\ out \in Seq(Nat) /\ cache \in Seq(Nat) /\ queue \in Seq(Nat)
        /\ Len(Line) <= sent /\ sent \in Nat
    BY DEF StreamInv, StreamType, Kept
  <1>2. Len(out \o cache) = Len(out) + Len(cache)
    BY <1>1, ConcatProperties
  <1>3. Len(Line) = Len(out \o cache) + Len(queue)
    BY LineType DEF StreamInv
  <1>4. Len(out) \in Nat /\ Len(cache) \in Nat /\ Len(queue) \in Nat
    BY <1>1, LenProperties
  <1> QED
    BY <1>1, <1>2, <1>3, <1>4

CacheFits == pc # "over" => Len(cache) <= sent

(* The same as one formula, for both states of a step.                     *)
LEMMA CacheLengthNext == StreamInv => CacheFits
  BY CacheLength DEF CacheFits

(* Every step keeps what the sniffers were shown and said.                 *)
LEMMA SniffStep == StreamInv /\ StreamInv' /\ SniffInv /\ [Next]_vars => SniffInv'
  <1> SUFFICES ASSUME StreamInv, StreamInv', SniffInv, [Next]_vars PROVE SniffInv'
    OBVIOUS
  <1>0. sent <= MaxChunks /\ sent \in Nat /\ MaxChunks \in Nat
    BY SnifferAssumption DEF SniffInv, ReadType, StreamInv, StreamType
  <1>1. CASE Start
    <2>1. /\ pc = "start" /\ pc' \in {"cache", "domain"}
          /\ UNCHANGED <<input, reads, sent, cache, pending, rules, update, crossed>>
      BY <1>1 DEF Start, client, stream, sniffing, ruling
    <2> QED
      BY <2>1, NoRead
  <1>2. CASE CacheFails \/ ContextDone
    <2>1. /\ pc = "cache" /\ pc' = "domain"
          /\ UNCHANGED <<input, reads, sent, cache, pending, rules, update, crossed>>
      BY <1>2 DEF CacheFails, ContextDone, client, stream, sniffing, ruling
    <2> QED
      BY <2>1, NoRead
  <1>3. CASE Cache
    <2>1. PICK k \in 1..Len(queue) : cache' = cache \o SubSeq(queue, 1, k)
      BY <1>3 DEF Cache
    <2>2. /\ pc = "cache" /\ pc' # "over" /\ Sniff(Len(cache'))
          /\ UNCHANGED <<input, sent, rules, update, crossed>>
      BY <1>3 DEF Cache, Sniff, client, ruling
    <2>3. PICK a \in Seq(Nat) : cache' = cache \o a /\ Len(a) = k
      <3>1. queue \in Seq(Nat) /\ cache \in Seq(Nat) /\ Len(queue) \in Nat
        BY LenProperties DEF StreamInv, StreamType
      <3>2. \A i \in 1..k : queue[i] \in Nat
        BY <2>1, <3>1, ElementOfSeq
      <3>3. SubSeq(queue, 1, k) \in Seq(Nat) /\ Len(SubSeq(queue, 1, k)) = k
        BY <2>1, <3>1, <3>2, SubSeqProperties
      <3> QED
        BY <2>1, <3>3
    <2>4. Len(cache) \in Nat /\ cache \in Seq(Nat)
      BY <2>2, CacheLength DEF StreamInv, StreamType
    <2>5. Len(a) \in Nat \ {0}
      <3>1. Len(queue) \in Nat
        BY LenProperties DEF StreamInv, StreamType
      <3> QED
        BY <2>1, <2>3, <3>1
    <2>6. Len(cache') = Len(cache) + Len(a)
      BY <2>3, <2>4, ConcatProperties
    <2>7. Len(cache') <= sent'
      <3>1. CacheFits'
        BY CacheLengthNext, PTL
      <3> QED
        BY <2>2, <3>1 DEF CacheFits
    <2>8. Len(cache') \in 1..MaxChunks /\ \A x \in reads : x <= Len(cache')
      <3>1. \A x \in reads : x <= Len(cache) /\ x \in Nat
        BY <1>0, <2>2 DEF SniffInv, LoopInv, ReadType
      <3> QED
        BY <1>0, <2>2, <2>4, <2>5, <2>6, <2>7, <3>1
    <2> QED
      BY <2>2, <2>8, SniffRead
  <1>4. CASE CacheNothing
    <2>1. /\ pc = "cache" /\ cache' = cache
          /\ UNCHANGED <<input, sent, rules, update, crossed>>
      BY <1>4 DEF CacheNothing, client, stream, ruling
    <2>2. CASE cache # <<>>
      <3>1. Sniff(Len(cache))
        BY <1>4, <2>2 DEF CacheNothing
      <3>2. Len(cache) \in Nat /\ Len(cache) <= sent /\ cache \in Seq(Nat)
        BY <2>1, CacheLength DEF StreamInv, StreamType
      <3>3. Len(cache) \in 1..MaxChunks
        BY <1>0, <2>2, <3>2, EmptySeq
      <3>4. \A x \in reads : x <= Len(cache)
        BY <2>1 DEF SniffInv, LoopInv
      <3> QED
        BY <2>1, <3>1, <3>3, <3>4, SniffRead
    <2>3. CASE cache = <<>>
      <3>1. pc' \in {"cache", "domain"} /\ UNCHANGED <<pending, reads>>
        BY <1>4, <2>3 DEF CacheNothing
      <3> QED
        BY <2>1, <3>1, NoRead
    <2> QED
      BY <2>2, <2>3
  <1>5. CASE CheckDomainRule
    <2>1. /\ pc = "domain" /\ pc' \in {"over", "crash", "protocol"}
          /\ pc' = "protocol" => dest \notin rules.domain
          /\ UNCHANGED <<input, reads, sent, pending, protocol, dest, rules, update,
                         crossed>>
      BY <1>5 DEF CheckDomainRule, Reject, sniffing, ruling
    <2> QED
      BY <2>1 DEF SniffInv, ReadType, LoopInv, ResultInv, RuledInv, Excused, Overridden
  <1>6. CASE CheckProtocolRule
    <2>1. /\ pc = "protocol" /\ pc' \in {"over", "relay"}
          /\ pc' = "relay" => protocol \notin rules.protocols
          /\ UNCHANGED <<input, reads, sent, pending, protocol, dest, rules, update,
                         crossed>>
      BY <1>6 DEF CheckProtocolRule, Reject, sniffing, ruling
    <2> QED
      BY <2>1 DEF SniffInv, ReadType, LoopInv, ResultInv, RuledInv, Excused, Overridden
  <1>7. CASE NoHandler \/ RelayCache \/ Relay
    <2>1. /\ pc = "relay" /\ pc' \in {pc, "over"}
          /\ UNCHANGED <<input, reads, sent, pending, protocol, dest, rules, update,
                         crossed>>
      BY <1>7 DEF NoHandler, RelayCache, Relay, Reject, client, sniffing, ruling
    <2> QED
      BY <1>0, <2>1, NoResult
  <1>8. CASE Send \/ CloseWrite \/ CloseAll \/ Tick
    <2>1. /\ pc' = pc /\ cache' = cache /\ sent' <= MaxChunks
          /\ UNCHANGED <<input, reads, pending, protocol, dest, rules, update, crossed>>
      BY <1>0, <1>8 DEF Send, CloseWrite, CloseAll, Tick, client, stream, sniffing, ruling
    <2> QED
      BY <2>1, NoResult
  <1>9. CASE (\E r \in RuleSets : MakeRules(r)) \/ FillRules
    <2>1. /\ crossed'
          /\ UNCHANGED <<input, reads, sent, cache, pc, pending, protocol, dest>>
      BY <1>9 DEF MakeRules, FillRules, client, stream, sniffing, SniffInv, RuledInv
    <2> QED
      BY <2>1 DEF SniffInv, ReadType, LoopInv, ResultInv, RuledInv, Excused, Overridden,
                  Clueless, Dropped
  <1>10. CASE UNCHANGED vars
    BY <1>0, <1>10, NoResult DEF vars, client, stream, sniffing, ruling
  <1> QED
    BY <1>1, <1>2, <1>3, <1>4, <1>5, <1>6, <1>7, <1>8, <1>9, <1>10
       DEF Next, Dispatcher, Environment

(* The destination is the one asked for unless the protocol overrode it.   *)
DestInv == dest \in {input.asked, Overridden(protocol)}

(* Only a result of Sniffer.Sniff changes it.                              *)
LEMMA DestStep == DestInv /\ [Next]_vars => DestInv'
  <1> SUFFICES ASSUME DestInv, [Next]_vars PROVE DestInv'
    OBVIOUS
  <1>1. \/ UNCHANGED <<input, protocol, dest>>
        \/ input' = input /\ dest' = Overridden(protocol')
    <2>1. CASE Start \/ CacheFails \/ CheckDomainRule \/ CheckProtocolRule \/ Tick
      BY <2>1 DEF Start, CacheFails, CheckDomainRule, CheckProtocolRule, Tick, sniffing
    <2>2. CASE Cache \/ CacheNothing
      BY <2>2 DEF Cache, CacheNothing, Sniff
    <2>3. CASE Environment
      BY <2>3 DEF Environment, Send, CloseWrite, CloseAll, ContextDone, NoHandler,
                  RelayCache, Relay, MakeRules, FillRules, sniffing
    <2>4. CASE UNCHANGED vars
      BY <2>4 DEF vars, sniffing
    <2> QED
      BY <2>1, <2>2, <2>3, <2>4 DEF Next, Dispatcher
  <1> QED
    BY <1>1 DEF DestInv, Overridden

(* For any sniffers, rules and payload, what the panel's rules forbid      *)
(* reaches the outbound only if no read told, or if Sniffer.Sniff dropped  *)
(* its sniffer after a shorter one; a destination they forbid only if an   *)
(* allowed domain that was sniffed replaced it.                            *)
THEOREM SnifferForbiddenIsRefused == Spec => []ForbiddenIsRefused
  <1>1. SniffInv /\ DestInv => ForbiddenIsRefused
    <2> SUFFICES ASSUME SniffInv, DestInv, pc = "relay", ~crossed
                 PROVE  ForbiddenIsRefused
      BY DEF ForbiddenIsRefused
    <2>1. dest \notin rules.domain
      BY DEF SniffInv, RuledInv
    <2>2. input.asked \in rules.domain
             => input.named /\ protocol \in Override /\ "sniffed" \notin rules.domain
      BY <2>1 DEF DestInv, Overridden
    <2> QED
      BY <2>2 DEF SniffInv, ResultInv, RuledInv, Excused, ForbiddenIsRefused, Overridden
  <1>2. Init => DestInv
    BY DEF Init, DestInv
  <1> QED
    BY <1>1, <1>2, StreamInit, StreamStep, SniffInit, SniffStep, DestStep, PTL DEF Spec
===========================================================================
