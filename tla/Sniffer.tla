------------------------------ MODULE Sniffer ------------------------------
(***************************************************************************)
(* One connection of the xray dispatcher from Dispatch or DispatchLink to  *)
(* its outbound (core/xray/app/dispatcher): sniffing, which holds back     *)
(* what the client sends, the destination it may override, and the rules   *)
(* of the panel, which an UpdateRule may replace meanwhile.                *)
(*                                                                         *)
(* Payload is a sequence of numbered chunks.  What a protocol sniffer of   *)
(* xray says of the first chunks is part of the input.  No FakeDNS engine  *)
(* is configured (core/xray/xray.go, getCore), so there is no metadata     *)
(* sniffer.  Time passes only while a read waits for the client.           *)
(***************************************************************************)
EXTENDS Integers, Sequences, SequencesExt

CONSTANTS
    Sniffers,      \* the protocols xray has a sniffer for, on this network
    Override,      \* DestOverride: those that may replace the destination
    RuleSets,      \* the panel's rules: the destinations of the connection
                   \* that a pattern matches, and the protocols forbidden
    Inputs,        \* kinds of connections
    None,
    Deadline,      \* cacheDeadline, 200 ms
    LinkWait,      \* what CounterReader waits whatever it is asked, 1 s
    MaxChunks,     \* bound: chunks the client sends
    MaxUpdates     \* bound: calls of UpdateRule

(* The destination is an address or a domain the client asked for, or the  *)
(* domain that was sniffed; a pattern may match any of them.               *)
Asked == {"ip", "name"}
Destinations == Asked \cup {"sniffed"}

ASSUME SnifferAssumption ==
    /\ Deadline \in Nat \ {0} /\ LinkWait \in Nat /\ Deadline <= LinkWait
    /\ MaxChunks \in Nat \ {0} /\ MaxUpdates \in Nat
    /\ None \notin Sniffers /\ Override \subseteq Sniffers
    /\ RuleSets \subseteq [domain : SUBSET Destinations, protocols : SUBSET Sniffers]

Chunks(n) == [i \in 1..n |-> i]

(* What sniffers say of growing prefixes: common.ErrNoClue ("noclue"),     *)
(* protocol.ErrProtoNeedMoreData ("more"), another error ("no") or a       *)
(* result ("match"); the last two are final, and only one matches.         *)
Verdicts ==
    {v \in [Sniffers -> [1..MaxChunks -> {"noclue", "more", "no", "match"}]] :
        /\ \A s \in Sniffers, n \in 1..MaxChunks : \A m \in n..MaxChunks :
              v[s][n] \in {"no", "match"} => v[s][m] = v[s][n]
        /\ \A s, t \in Sniffers : v[s][MaxChunks] = "match"
                                     /\ v[t][MaxChunks] = "match" => s = t}

(* Dispatch with a pipe or DispatchLink; sniffing disabled, by metadata    *)
(* alone or by content; the destination asked for; does the payload name a *)
(* domain; and what the sniffers will say.                                 *)
AllInputs == [mode : {"pipe", "link"}, request : {"off", "meta", "content"},
              asked : Asked, named : BOOLEAN, verdict : Verdicts]

ASSUME InputsAssumption == Inputs \subseteq AllInputs

VARIABLES
    input,      \* the kind of this connection
    sent, eof,  \* chunks the client has sent; it, or Cut, closed
    queue,      \* sent and not yet read from the pipe or link
    cache,      \* cachedReader.cache
    out,        \* chunks the outbound has read
    pc,         \* where the dispatcher is
    pending,    \* Sniffer.sniffer
    attempt,    \* totalAttempt
    left,       \* cacheDeadline
    waited,     \* by the read that Cache waits for
    protocol,   \* content.Protocol
    dest,       \* destination.Address
    rules,      \* DomainRules and ProtocolRules of the limiter
    update,     \* where UpdateRule is, and its rules
    updates,
    elapsed,    \* history: time spent sniffing, up to more than is ever due
    reads,      \* history: lengths of the payloads that Sniff has seen
    cut,        \* history: CloseAll or a rule ended the connection
    crossed     \* history: an UpdateRule ran during the connection

client == <<sent, eof>>
stream == <<queue, cache, out>>
sniffing == <<pending, attempt, left, waited, protocol, dest>>
ruling == <<rules, update, updates, crossed>>
vars == <<input, client, stream, pc, sniffing, ruling, elapsed, reads, cut>>

Init ==
    /\ input \in Inputs
    /\ sent = 0 /\ eof = FALSE
    /\ queue = <<>> /\ cache = <<>> /\ out = <<>>
    /\ pc = "start"
    /\ pending = Sniffers /\ attempt = 0 /\ left = Deadline /\ waited = 0
    /\ protocol = None /\ dest = input.asked
    /\ \E r \in RuleSets : rules = [domain |-> r.domain, nil |-> FALSE,
                                     protocols |-> r.protocols]
    /\ update = None /\ updates = 0
    /\ elapsed = 0 /\ reads = {} /\ cut = FALSE /\ crossed = FALSE

----------------------------------------------------------------------------
(* The client, and DelUsers of its user.                                   *)

Send ==
    /\ sent < MaxChunks /\ ~eof
    /\ sent' = sent + 1 /\ queue' = Append(queue, sent')
    /\ UNCHANGED <<input, eof, cache, out, pc, sniffing, ruling, elapsed,
                   reads, cut>>

CloseWrite ==
    /\ ~eof /\ eof' = TRUE
    /\ UNCHANGED <<input, sent, stream, pc, sniffing, ruling, elapsed, reads,
                   cut>>

(* LinkManager.CloseAll.  It knows the pipe's own reader and not the       *)
(* cachedReader around it; a CounterReader cannot be interrupted.          *)
CloseAll ==
    /\ input.mode = "pipe" /\ pc # "over"
    /\ eof' = TRUE /\ queue' = <<>> /\ cut' = TRUE
    /\ UNCHANGED <<input, sent, cache, out, pc, sniffing, ruling, elapsed,
                   reads>>

----------------------------------------------------------------------------
(* Dispatch, DispatchLink and sniffer.                                     *)

(* Without sniffing, or on metadata alone, nothing is read.                *)
Start ==
    /\ pc = "start"
    /\ pc' = IF input.request = "content" THEN "cache" ELSE "domain"
    /\ UNCHANGED <<input, client, stream, sniffing, ruling, elapsed, reads,
                   cut>>

(* The time a read may wait: the pipe's takes the deadline it is given.    *)
Wait == IF input.mode = "pipe" THEN left ELSE LinkWait

Tick ==
    /\ pc = "cache" /\ queue = <<>> /\ ~eof /\ waited < Wait
    /\ waited' = waited + 1
    /\ elapsed' = IF elapsed > Deadline + LinkWait THEN elapsed
                  ELSE elapsed + 1
    /\ UNCHANGED <<input, client, stream, pc, pending, attempt, left, protocol,
                   dest, ruling, reads, cut>>

(* shouldOverride, and the new destination.                                *)
Overridden(p) == IF input.named /\ p \in Override THEN "sniffed" ELSE input.asked

(* Mutant: every attempt has the whole deadline.                           *)
LeftAfterWhole == Deadline

LeftAfter == left - waited

(* Sniffer.Sniff on a payload of n chunks, and the loop around it: a       *)
(* result, no candidate any more, or another attempt.  A sniffer that      *)
(* needs more data is dropped like one that failed.                        *)
Sniff(n) ==
    LET says(v) == {s \in pending : input.verdict[s][n] = v}
        again == attempt + 1 < 2 /\ LeftAfter > 0
    IN  /\ reads' = reads \cup {n}
        /\ \/ /\ says("match") # {}
              /\ protocol' \in says("match") /\ dest' = Overridden(protocol')
              /\ pc' = "domain"
              /\ UNCHANGED <<pending, attempt, left>>
           \/ /\ says("match") = {} /\ says("noclue") # {}
              /\ pending' = says("noclue") /\ attempt' = attempt + 1
              /\ left' = LeftAfter
              /\ pc' = IF again THEN "cache" ELSE "domain"
              /\ UNCHANGED <<protocol, dest>>
           \/ /\ says("match") = {} /\ says("noclue") = {}
              /\ pc' = "domain"
              /\ UNCHANGED <<pending, attempt, left, protocol, dest>>

(* cachedReader.Cache with data: a pipe hands over all it has.             *)
Cache ==
    /\ pc = "cache" /\ queue # <<>>
    /\ \E k \in 1..Len(queue) :
          /\ input.mode = "pipe" => k = Len(queue)
          /\ cache' = cache \o SubSeq(queue, 1, k)
          /\ queue' = SubSeq(queue, k + 1, Len(queue))
    /\ Sniff(Len(cache'))
    /\ waited' = 0
    /\ UNCHANGED <<input, client, out, ruling, elapsed, cut>>

(* Mutant: an empty read is not an attempt, nor charged to the deadline.   *)
CacheNothingFree ==
    /\ pc = "cache" /\ queue = <<>> /\ ~eof
    /\ input.mode = "link" /\ waited = Wait
    /\ waited' = 0
    /\ UNCHANGED <<input, client, stream, pc, pending, attempt, left, protocol,
                   dest, ruling, elapsed, reads, cut>>

(* A CounterReader that waited in vain returns no data and no error.       *)
CacheNothing ==
    /\ pc = "cache" /\ queue = <<>> /\ ~eof
    /\ input.mode = "link" /\ waited = Wait
    /\ waited' = 0
    /\ IF cache # <<>> THEN Sniff(Len(cache))
       ELSE /\ attempt' = attempt + 1 /\ left' = LeftAfter
            /\ pc' = IF attempt' < 2 /\ left' > 0 THEN "cache" ELSE "domain"
            /\ UNCHANGED <<pending, protocol, dest, reads>>
    /\ UNCHANGED <<input, client, stream, ruling, elapsed, cut>>

(* Cache fails: the pipe's deadline is over, or the client closed.  The    *)
(* content is unknown.                                                     *)
CacheFails ==
    /\ pc = "cache" /\ queue = <<>>
    /\ eof \/ (input.mode = "pipe" /\ waited = Wait)
    /\ pc' = "domain"
    /\ UNCHANGED <<input, client, stream, sniffing, ruling, elapsed, reads,
                   cut>>

(* The context is found done before a read.                                *)
ContextDone ==
    /\ pc = "cache" /\ waited = 0
    /\ pc' = "domain"
    /\ UNCHANGED <<input, client, stream, sniffing, ruling, elapsed, reads,
                   cut>>

----------------------------------------------------------------------------
(* routedDispatch.                                                         *)

(* Close and Interrupt: the cache goes, and what a pipe holds.             *)
Reject ==
    /\ pc' = "over" /\ cut' = TRUE /\ eof' = TRUE
    /\ cache' = <<>>
    /\ queue' = IF input.mode = "pipe" THEN <<>> ELSE queue

(* CheckDomainRule.  An entry that UpdateRule has not filled in is a nil   *)
(* pointer.                                                                *)
CheckDomainRule ==
    /\ pc = "domain"
    /\ \/ rules.nil /\ pc' = "crash" /\ UNCHANGED <<eof, queue, cache, cut>>
       \/ /\ ~rules.nil /\ dest \in rules.domain
          /\ Reject
       \/ /\ ~rules.nil /\ dest \notin rules.domain
          /\ pc' = "protocol" /\ UNCHANGED <<eof, queue, cache, cut>>
    /\ UNCHANGED <<input, sent, out, sniffing, ruling, elapsed, reads>>

(* Mutant: the rules are asked about the protocol before it is sniffed.    *)
CheckProtocolRuleBlind ==
    /\ pc = "protocol" /\ pc' = "relay"
    /\ UNCHANGED <<input, client, stream, sniffing, ruling, elapsed, reads,
                   cut>>

CheckProtocolRule ==
    /\ pc = "protocol"
    /\ IF protocol \in rules.protocols THEN Reject
       ELSE pc' = "relay" /\ UNCHANGED <<eof, queue, cache, cut>>
    /\ UNCHANGED <<input, sent, out, sniffing, ruling, elapsed, reads>>

(* A route without a handler.                                              *)
NoHandler ==
    /\ pc = "relay" /\ out = <<>>
    /\ Reject
    /\ UNCHANGED <<input, sent, out, sniffing, ruling, elapsed, reads>>

(* Mutant: what was sniffed stays in the cache.                            *)
RelayTwice ==
    /\ pc = "relay" /\ cache # <<>>
    /\ out' = out \o cache
    /\ UNCHANGED <<input, client, queue, cache, pc, sniffing, ruling, elapsed,
                   reads, cut>>

(* The outbound's ReadMultiBuffer: the cache first.                        *)
RelayCache ==
    /\ pc = "relay" /\ cache # <<>>
    /\ out' = out \o cache /\ cache' = <<>>
    /\ UNCHANGED <<input, client, queue, pc, sniffing, ruling, elapsed, reads,
                   cut>>

Relay ==
    /\ pc = "relay" /\ cache = <<>> /\ queue # <<>>
    /\ out' = out \o queue /\ queue' = <<>>
    /\ UNCHANGED <<input, client, cache, pc, sniffing, ruling, elapsed, reads,
                   cut>>

----------------------------------------------------------------------------
(* Limiter.UpdateRule of a reload, on the limiter the connection uses.     *)

MakeRules(r) ==
    /\ update = None /\ updates < MaxUpdates
    /\ update' = r /\ updates' = updates + 1 /\ crossed' = TRUE
    /\ rules' = [rules EXCEPT !.domain = {}, !.nil = (r.domain # {})]
    /\ UNCHANGED <<input, client, stream, pc, sniffing, elapsed, reads, cut>>

FillRules ==
    /\ update # None
    /\ rules' = [domain |-> update.domain, protocols |-> update.protocols,
                 nil |-> FALSE]
    /\ update' = None
    /\ UNCHANGED <<input, client, stream, pc, sniffing, updates, crossed,
                   elapsed, reads, cut>>

Dispatcher ==
    \/ Start \/ Cache \/ CacheNothing \/ CacheFails
    \/ CheckDomainRule \/ CheckProtocolRule

Environment ==
    /\ pc # "crash"
    /\ \/ Send \/ CloseWrite \/ CloseAll \/ ContextDone
       \/ NoHandler \/ RelayCache \/ Relay
       \/ (\E r \in RuleSets : MakeRules(r)) \/ FillRules

Next == Dispatcher \/ Tick \/ Environment

(* The goroutine runs and the clock goes on; the client owes nothing.      *)
Spec == Init /\ [][Next]_vars /\ WF_vars(Dispatcher) /\ WF_vars(Tick)

----------------------------------------------------------------------------
(* What the outbound has read, what the sniffer holds back and what is     *)
(* still in the pipe is what the client sent, in order, nothing twice; and *)
(* all of it unless the connection was cut (cachedReader, Cache).          *)
BytesKept ==
    pc # "over" =>
    /\ IsPrefix(out \o cache \o queue, Chunks(sent))
    /\ ~cut => out \o cache \o queue = Chunks(sent)

(* Sniffing holds a connection back for cacheDeadline at most, but through *)
(* DispatchLink, whose reader ignores the deadline, for a second more.     *)
SniffBounded ==
    elapsed <= IF input.mode = "pipe" THEN Deadline ELSE Deadline + LinkWait

(* A protocol that the rules forbid reaches the outbound only if no read   *)
(* was long enough to tell, or its sniffer had asked for more data or      *)
(* failed on an earlier, shorter read: Sniff then drops it.  Likewise a    *)
(* sniffed domain, if the protocol may override the destination.  And a    *)
(* destination they forbid is reached only if a sniffed domain that they   *)
(* allow took its place.                                                   *)
ForbiddenIsRefused ==
    pc = "relay" /\ ~crossed =>
    /\ \A p \in Sniffers, n \in reads :
          /\ input.verdict[p][n] = "match"
          /\ \/ p \in rules.protocols
             \/ "sniffed" \in rules.domain /\ input.named /\ p \in Override
          => \E m \in reads : m < n /\ input.verdict[p][m] \in {"more", "no"}
    /\ input.asked \in rules.domain
          => input.named /\ protocol \in Override /\ "sniffed" \notin rules.domain

(* However silent the client, its connection is routed or ended in the     *)
(* end: the loop of sniffer terminates.                                    *)
SniffEnds == <>(pc \in {"relay", "over", "crash"})
============================================================================
