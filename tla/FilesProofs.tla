---------------------------- MODULE FilesProofs ----------------------------
(* Proofs about the two parts that live off files others change meanwhile: *)
(* Server, which rereads the configuration file (its type, what the        *)
(* debounce can lose, what a reload leaves behind), and Cert, where two    *)
(* tasks share the certificate's files without a lock.                     *)
EXTENDS Server, Cert, TLAPS


(* The server's state keeps its type: the configuration is a version of    *)
(* the file, the empty one or a partial one, whatever becomes of the file  *)
(* and of the reloads, and the watcher never owes more events than edits.  *)
THEOREM ServerTypeCorrect == Spec => []ServerTypeOK
<1>1. Init => ServerTypeOK
  <2> SUFFICES ASSUME Init PROVE ServerTypeOK
    OBVIOUS
  <2>1. rpc \in [Reloads -> Stages] /\ nap \in [Reloads -> 0 .. 1]
    BY DEF Init, Stages
  <2>2. edits \in 0 .. MaxEdits /\ events \in 0 .. edits
    BY ServerAssumption DEF Init
  <2>3. /\ missing \in BOOLEAN /\ panicked \in BOOLEAN
        /\ hidden \in BOOLEAN /\ mishap \in BOOLEAN
    BY Zenon DEF Init
  <2>4. First \in Versions
    BY ServerAssumption
  <2> QED BY <2>1, <2>2, <2>3, <2>4 DEF Init, ServerTypeOK
<1>2. ASSUME ServerTypeOK, [Next]_vars PROVE ServerTypeOK'
  <2> USE <1>2, ServerAssumption DEF ServerTypeOK
  <2>1. CASE UNCHANGED vars
    BY <2>1 DEF vars
  <2>2. ASSUME NEW v \in Versions \cup {Bad, file}, Edit(v) PROVE ServerTypeOK'
    <3>1. hidden' \in BOOLEAN
      BY <2>2, Zenon DEF Edit
    <3> QED BY <2>2, <3>1 DEF Edit
  <2>3. CASE Elapse
    BY <2>3 DEF Elapse
  <2>4. CASE Ignore
    BY <2>4 DEF Ignore
  <2>5. ASSUME NEW r \in Reloads, Spawn(r) PROVE ServerTypeOK'
    BY <2>5 DEF Spawn, Stages
  <2>6. ASSUME NEW r \in Reloads, Reload(r) PROVE ServerTypeOK'
    <3>1. CASE Wake(r)
      BY <3>1 DEF Wake, Step, Stages
    <3>2. CASE ReadFile(r)
      BY <3>2 DEF ReadFile, Step, Stages, Loaded
    <3>3. CASE CloseNodes(r) \/ NodesDown(r)
      BY <3>3 DEF CloseNodes, NodesDown, Step, Stages
    <3>4. CASE ClosePanics(r) \/ NilCore(r)
      BY <3>4 DEF ClosePanics, NilCore
    <3>5. CASE CloseCore(r)
      BY <3>5 DEF CloseCore, CoreCall, Step, Stages
    <3>6. CASE NewCore(r)
      BY <3>6 DEF NewCore, CoreCall, Step, Stages
    <3>7. CASE StartCore(r)
      BY <3>7 DEF StartCore, CoreCall, Step, Stages
    <3>8. CASE StartNodes(r)
      BY <3>8 DEF StartNodes, Step, Stages
    <3>9. CASE NodesUp(r)
      BY <3>9 DEF NodesUp, Step, Stages
    <3> QED BY <2>6, <3>1, <3>2, <3>3, <3>4, <3>5, <3>6, <3>7, <3>8, <3>9 DEF Reload
  <2>7. CASE NodeOut \/ NodeBack
    BY <2>7 DEF NodeOut, NodeBack
  <2> QED BY <2>1, <2>2, <2>3, <2>4, <2>5, <2>6, <2>7 DEF Next
<1> QED BY <1>1, <1>2, PTL DEF Spec

----------------------------------------------------------------------------
(* Between an event acted on and the end of its sleep somebody will still  *)
(* read the file; afterwards a change is unread only if it was hidden, or  *)
(* its event will be acted on.                                             *)
Reader(r) == rpc[r] \in {"sleep", "read"}
DebounceInv ==
    /\ preAge = 0 => \E r \in Reloads : rpc[r] = "sleep" /\ nap[r] = 1
    /\ conf \notin Loaded(file) /\ ~hidden
       => \/ \E r \in Reloads : Reader(r)
          \/ events > 0 /\ preAge = 2

(* The steps of a reload after it read the file touch neither the file nor *)
(* the watcher.                                                            *)
LEMMA LateStages ==
    ASSUME ServerTypeOK, NEW r \in Reloads, Reload(r), ~Wake(r), ~ReadFile(r)
    PROVE  /\ UNCHANGED <<file, events, preAge, conf, nap, hidden>>
           /\ ~Reader(r)
           /\ rpc' \in {rpc} \cup {[rpc EXCEPT ![r] = s] : s \in Stages}
           /\ ~Reader(r)'
<1> USE DEF ServerTypeOK, Reader, Step, Stages
<1>1. CASE CloseNodes(r)
  BY <1>1 DEF CloseNodes
<1>2. CASE NodesDown(r)
  BY <1>2 DEF NodesDown
<1>3. CASE ClosePanics(r)
  BY <1>3 DEF ClosePanics
<1>4. CASE CloseCore(r)
  BY <1>4 DEF CloseCore, CoreCall
<1>5. CASE NewCore(r)
  BY <1>5 DEF NewCore, CoreCall
<1>6. CASE StartCore(r)
  BY <1>6 DEF StartCore, CoreCall
<1>7. CASE NilCore(r)
  BY <1>7 DEF NilCore
<1>8. CASE StartNodes(r)
  BY <1>8 DEF StartNodes
<1>9. CASE NodesUp(r)
  BY <1>9 DEF NodesUp
<1> QED BY <1>1, <1>2, <1>3, <1>4, <1>5, <1>6, <1>7, <1>8, <1>9 DEF Reload

(* However many reloads and edits there are, a change that nobody has read *)
(* or will read came five to ten seconds after the last event acted on.    *)
THEOREM ServerLossOnlyInDebounce == Spec => []LossOnlyInDebounce
<1>1. Init => DebounceInv
  BY ServerAssumption DEF Init, DebounceInv, Loaded
<1>2. ASSUME ServerTypeOK, DebounceInv, [Next]_vars PROVE DebounceInv'
  <2> USE <1>2 DEF ServerTypeOK, DebounceInv, Reader
  <2>1. CASE UNCHANGED vars
    BY <2>1 DEF vars, Loaded
  <2>2. ASSUME NEW v \in Versions \cup {Bad, file}, Edit(v) PROVE DebounceInv'
    <3>1. CASE v = file
      BY <2>2, <3>1 DEF Edit, Loaded
    <3>2. CASE v # file /\ preAge = 1
      <4>1. hidden'
        BY <2>2, <3>2 DEF Edit
      <4> QED BY <2>2, <3>2, <4>1 DEF Edit
    <3>3. CASE preAge \in {0, 2}
      BY <2>2, <3>3 DEF Edit
    <3> QED BY <3>1, <3>2, <3>3
  <2>3. CASE Elapse
    BY <2>3 DEF Elapse, Loaded
  <2>4. CASE Ignore
    BY <2>4 DEF Ignore, Loaded
  <2>5. ASSUME NEW r \in Reloads, Spawn(r) PROVE DebounceInv'
    BY <2>5 DEF Spawn
  <2>6. ASSUME NEW r \in Reloads, Reload(r) PROVE DebounceInv'
    <3>1. CASE Wake(r)
      BY <3>1 DEF Wake, Step
    <3>2. CASE ReadFile(r)
      BY <3>2 DEF ReadFile, Step, Loaded
    <3>3. CASE ~Wake(r) /\ ~ReadFile(r)
      BY <2>6, <3>3, LateStages DEF Loaded
    <3> QED BY <3>1, <3>2, <3>3
  <2>7. CASE NodeOut \/ NodeBack
    BY <2>7 DEF NodeOut, NodeBack, Loaded
  <2> QED BY <2>1, <2>2, <2>3, <2>4, <2>5, <2>6, <2>7 DEF Next
<1>3. ServerTypeOK /\ DebounceInv => LossOnlyInDebounce
  BY DEF ServerTypeOK, DebounceInv, LossOnlyInDebounce, Reader
<1> QED BY <1>1, <1>2, <1>3, ServerTypeCorrect, PTL DEF Spec

----------------------------------------------------------------------------
(* What core and nodes are at each stage of a reload that is alone and has *)
(* not failed.                                                             *)
StageInv(r) ==
    /\ rpc[r] \in {"read", "closeNodes"} => vc = "running" /\ nodes = "up"
    /\ rpc[r] = "nodesDown" => vc = "running" /\ nodes = "closing" /\ served = Empty
    /\ rpc[r] = "closeCore" => vc = "running" /\ nodes = "none" /\ served = Empty
    /\ rpc[r] = "newCore" => vc = "closed" /\ nodes = "none" /\ served = Empty
    /\ rpc[r] = "startCore" => vc = "new" /\ nodes = "none" /\ served = Empty
    /\ rpc[r] = "startNodes" => vc = "running" /\ nodes = "none" /\ served = Empty
    /\ rpc[r] = "nodesUp" => vc = "running" /\ nodes = "starting" /\ served = conf

Alone == \A r, q \in Reloads : Busy(r) /\ Busy(q) => r = q
Settled == (\A r \in Reloads : ~Busy(r))
           => vc = "running" /\ nodes = "up" /\ served = conf

(* The one panic of such a reload.                                         *)
MetMissing == panicked => missing /\ \E r \in Reloads : rpc[r] = "nodesDown"

RebuildInv == ~mishap => /\ MetMissing /\ Alone /\ Settled
                         /\ \A r \in Reloads : StageInv(r)

(* Reloads that neither overlap nor fail rebuild core and nodes in order:  *)
(* no panic but that of a Close that meets a missing node, no node on a    *)
(* core that is not running, and afterwards the configuration last read is *)
(* served.                                                                 *)
THEOREM ServerReloadsRebuild == Spec => []ReloadsRebuild
<1>1. Init => RebuildInv
  BY DEF Init, RebuildInv, Alone, Settled, StageInv, Busy, MetMissing
<1>2. ASSUME ServerTypeOK, RebuildInv, [Next]_vars PROVE RebuildInv'
  <2> SUFFICES ASSUME ~mishap' PROVE (MetMissing /\ Alone /\ Settled
                                      /\ \A q \in Reloads : StageInv(q))'
    BY DEF RebuildInv
  <2> USE <1>2 DEF ServerTypeOK, RebuildInv, Alone, Settled, StageInv, Busy,
                   MetMissing
  <2>1. CASE UNCHANGED vars
    BY <2>1 DEF vars
  <2>2. ASSUME NEW v \in Versions \cup {Bad, file}, Edit(v) PROVE RebuildInv'
    BY <2>2 DEF Edit
  <2>3. CASE Elapse
    BY <2>3 DEF Elapse
  <2>4. CASE Ignore
    BY <2>4 DEF Ignore
  <2>5. ASSUME NEW r \in Reloads, Spawn(r) PROVE RebuildInv'
    BY <2>5 DEF Spawn
  <2>6. ASSUME NEW r \in Reloads, Reload(r) PROVE RebuildInv'
    <3>1. CASE Wake(r)
      BY <3>1 DEF Wake, Step
    <3>2. CASE ReadFile(r)
      BY <3>2 DEF ReadFile, Step
    <3>3. CASE CloseNodes(r)
      BY <3>3 DEF CloseNodes, Step
    <3>4. CASE NodesDown(r)
      BY <3>4 DEF NodesDown, Step
    <3>5. CASE ClosePanics(r)
      BY <3>5 DEF ClosePanics
    <3>6. CASE CloseCore(r)
      BY <3>6 DEF CloseCore, CoreCall, Step
    <3>7. CASE NewCore(r)
      BY <3>7 DEF NewCore, CoreCall, Step
    <3>8. CASE StartCore(r)
      BY <3>8 DEF StartCore, CoreCall, Step
    <3>9. CASE NilCore(r)
      BY <3>9 DEF NilCore
    <3>10. CASE StartNodes(r)
      BY <3>10 DEF StartNodes, Step
    <3>11. CASE NodesUp(r)
      BY <3>11 DEF NodesUp, Step
    <3> QED BY <2>6, <3>1, <3>2, <3>3, <3>4, <3>5, <3>6, <3>7, <3>8, <3>9,
               <3>10, <3>11 DEF Reload
  <2>7. CASE NodeOut \/ NodeBack
    BY <2>7 DEF NodeOut, NodeBack
  <2> QED BY <2>1, <2>2, <2>3, <2>4, <2>5, <2>6, <2>7 DEF Next
<1>3. ServerTypeOK /\ RebuildInv => ReloadsRebuild
  <2> SUFFICES ASSUME ServerTypeOK, RebuildInv, ~mishap, served # Empty
               PROVE  vc = "running"
    BY DEF RebuildInv, ReloadsRebuild, Settled, MetMissing, StageInv
  <2>1. ASSUME NEW r \in Reloads, Busy(r) PROVE vc = "running"
    BY <2>1 DEF RebuildInv, StageInv, Busy, ServerTypeOK, Stages
  <2> QED BY <2>1 DEF RebuildInv, Settled
<1> QED BY <1>1, <1>2, <1>3, ServerTypeCorrect, PTL DEF Spec

----------------------------------------------------------------------------
(* The certificate, for any number of certificates, faults and changes.    *)

Tls(c) == c.mode \notin {"", "none"}

(* Certificates are numbered in the order they are issued: what a request  *)
(* is issued is newer than the metadata it read.                           *)
Newer(p) ==
    /\ req[p].prev.cert <= issued /\ req[p].next.cert <= issued
    /\ req[p].own <= issued
    /\ req[p].own # Absent => req[p].prev.cert < req[p].own
    /\ pc[p] \in {"truncCert", "load"} \cup Writing => req[p].own # Absent

IdInv == certFile <= issued /\ meta.cert <= issued /\ \A p \in Procs : Newer(p)

(* The metadata a request returns name a certificate that was in the file, *)
(* unless it failed or the mode has none.                                  *)
Flow(p) ==
    /\ req[p].failed => /\ pc[p] = "report" /\ Tls(req[p].cfg)
                        /\ req[p].next = MetaOf(req[p].cfg, Absent, "")
    /\ pc[p] \notin {"idle", "read", "report", "add"} => Tls(req[p].cfg)
    /\ pc[p] \notin {"meta", "report", "del", "add"} => req[p].next = NoMeta
    /\ \/ pc[p] \in {"meta", "del"}
       \/ pc[p] = "report" /\ Tls(req[p].cfg) /\ ~req[p].failed
       \/ pc[p] = "add" /\ (p = "renewal" \/ Tls(req[p].cfg))
       => req[p].next.cert # Absent
    /\ req[p].next.cert # Absent => certFile # Absent
    /\ req[p].next = NoMeta \/ req[p].failed \/ req[p].next.cert # Absent
    /\ req[p].next = NoMeta \/ Tls(req[p].cfg)
    /\ pc[p] = "del" => p = "renewal" /\ Changed(req[p])

FlowInv == \A p \in Procs : Flow(p)

(* Nothing runs in a process that is gone, and only the monitor changes    *)
(* the options.                                                            *)
LifeInv ==
    /\ ~alive => /\ ~up /\ ~renewal /\ ~starting /\ reloaded = NoMeta
                 /\ \A p \in Procs : pc[p] = "idle"
    /\ pc["monitor"] \notin {"idle", "read"} => req["monitor"].cfg = active

Steady == pairOk /\ \A p \in Procs : pc[p] \notin Writing

(* A request that writes undisturbed is the only one to write.             *)
PairInv ==
    /\ PairMatches
    /\ Steady => certFile # Torn
    /\ \A p \in Procs : pc[p] \in Writing /\ req[p].clean =>
          /\ pc[Other(p)] \notin Writing
          /\ pc[p] \in {"truncKey", "writeKey"} => certFile = req[p].own

(* The request of the monitor has a pair and will add the node with it.    *)
MonitorAdds ==
    pc["monitor"] \in {"load", "meta", "report", "add"} /\ ~req["monitor"].failed

(* The renewal has a new pair and will reload the node.                    *)
RenewalReloads ==
    LET r == req["renewal"] IN
    \/ pc["renewal"] = "load" /\ certFile # r.prev.cert
    \/ /\ pc["renewal"] \in {"meta", "report"} /\ ~r.failed
       /\ r.next.cert \notin {Absent, r.prev.cert}
    \/ pc["renewal"] \in {"del", "add"}

ServeInv ==
    /\ up /\ Tls(active) => certFile # Absent
    /\ up /\ Tls(active) /\ Steady =>
          loaded = certFile \/ MonitorAdds \/ RenewalReloads

(* A request that ran alone.                                               *)
AloneInv ==
    ~overlap =>
        /\ pc["monitor"] = "idle" \/ pc["renewal"] = "idle"
        /\ \A p \in Procs : pc[p] \notin {"idle", "read"} => req[p].cfg = active

Agreed == told \in {certFile, Absent}

PinInv ==
    faults = 0 /\ ~overlap =>
        /\ \A p \in Procs :
              /\ \/ pc[p] = "meta"
                 \/ pc[p] = "report" /\ Tls(active) /\ ~req[p].failed
                 => req[p].next.cert = certFile
              /\ pc[p] \in {"del", "add"} /\ Tls(active) => Agreed
        /\ Quiet /\ up /\ Tls(active) => Agreed

(* The metadata on disk are those of the last reload until the renewal     *)
(* writes others, with which it reloads.                                   *)
ReloadInv ==
    LET r == req["renewal"]  l == pc["renewal"]
        stored == l \in {"report", "del"} /\ ~r.failed /\ r.next # NoMeta
    IN  /\ reloaded # NoMeta =>
              /\ pc["monitor"] = "idle"
              /\ l \notin {"idle", "read"} => r.cfg = active
        /\ ~overlap /\ ~metaLost /\ stored /\ r.cfg.mode # "file" => meta = r.next
        /\ reloaded # NoMeta /\ active.mode # "file" /\ (up \/ l = "add") =>
              /\ l \notin {"idle", "read", "add"} => r.prev = reloaded
              /\ meta = IF stored THEN r.next ELSE reloaded

CertInv ==
    /\ CertTypeOK /\ IdInv /\ FlowInv /\ LifeInv /\ PairInv /\ ServeInv
    /\ AloneInv /\ PinInv /\ ReloadInv

---------------------------------------------------------------------------
(* The records a request is made of.                                       *)

(* Metadata made from a configuration are metadata that name it.           *)
LEMMA MetaType ==
    /\ NoMeta \in Metadata /\ NoMeta.cert = Absent /\ NoMeta.mode = ""
    /\ \A c \in CertConfig, i \in Ids \cup {Absent}, s \in Sources :
          /\ MetaOf(c, i, s) \in Metadata
          /\ MetaOf(c, i, s).cert = i /\ MetaOf(c, i, s).mode = c.mode
BY CertAssumption DEF NoMeta, Metadata, MetaOf, CertConfig, Modes, Sources

(* What a request holds.                                                   *)
LEMMA RequestType ==
    ASSUME NEW r \in Request
    PROVE  /\ r.cfg \in CertConfig /\ r.prev \in Metadata /\ r.next \in Metadata
           /\ r.failed \in BOOLEAN /\ r.own \in Ids \cup {Absent}
           /\ r.self \in BOOLEAN /\ r.clean \in BOOLEAN
BY DEF Request

(* A task that has no request holds nothing.                               *)
LEMMA NoRequestType ==
    /\ NoRequest \in Request /\ NoRequest.cfg = Local /\ NoRequest.prev = NoMeta
    /\ NoRequest.next = NoMeta /\ NoRequest.failed = FALSE
    /\ NoRequest.own = Absent /\ NoRequest.self = FALSE /\ NoRequest.clean = TRUE
BY MetaType, CertAssumption DEF NoRequest, Request

(* The updates of a request, field by field.                               *)
LEMMA FailedRequest ==
    ASSUME NEW r \in Request, NEW m \in Metadata
    PROVE  LET q == [r EXCEPT !.failed = TRUE, !.next = m] IN
           /\ q \in Request /\ q.failed = TRUE /\ q.next = m
           /\ q.cfg = r.cfg /\ q.prev = r.prev /\ q.own = r.own /\ q.clean = r.clean
BY DEF Request

(* The same for a certificate that was found.                              *)
LEMMA FoundRequest ==
    ASSUME NEW r \in Request, NEW m \in Metadata
    PROVE  LET q == [r EXCEPT !.next = m] IN
           /\ q \in Request /\ q.next = m /\ q.cfg = r.cfg /\ q.prev = r.prev
           /\ q.own = r.own /\ q.failed = r.failed /\ q.clean = r.clean
BY DEF Request

---------------------------------------------------------------------------
(* What a step of requestCert on the way to its result does.               *)

Typed == req' \in [Procs -> Request] /\ pc' \in [Procs -> PCs]

Others(p) == \A q \in Procs \ {p} : pc'[q] = pc[q] /\ req'[q] = req[q]

Fields(p) ==
    /\ req'[p].cfg = req[p].cfg /\ req'[p].prev = req[p].prev
    /\ req'[p].clean = req[p].clean

HasFailed(p) ==
    /\ pc'[p] = "report" /\ req'[p].failed
    /\ req'[p].next = MetaOf(req[p].cfg, Absent, "") /\ req'[p].own = req[p].own
    /\ UNCHANGED <<issued, certs>>

HasPair(p) ==
    /\ pc'[p] \in {"truncCert", "load"} /\ issued' = issued + 1 /\ issued' \in Ids
    /\ certs' \in [Ids -> Certificate] /\ req'[p].own = issued'
    /\ req'[p].next = req[p].next /\ req'[p].failed = req[p].failed

HasFound(p) ==
    /\ pc[p] \in {"look", "load"} /\ certFile \in Ids
    /\ pc'[p] = "meta" \/ (pc'[p] = "report" /\ req[p].cfg.mode = "file")
    /\ \E s \in Sources : req'[p].next = MetaOf(req[p].cfg, certFile, s)
    /\ req'[p].own = req[p].own /\ req'[p].failed = req[p].failed
    /\ UNCHANGED <<issued, certs>>

(* On the way to an account.                                               *)
Ordering == {"user", "register", "save"}

HasMoved(p) ==
    /\ pc[p] \in {"look"} \cup Ordering /\ pc'[p] \in {"obtain"} \cup Ordering
    /\ req'[p] = req[p] /\ UNCHANGED <<issued, certs>>

(* An error on the way.                                                    *)
LEMMA FailsEffect ==
    ASSUME CertTypeOK, NEW p \in Procs, RequestFails(p)
    PROVE  Typed /\ Others(p) /\ Fields(p) /\ HasFailed(p)
<1> DEFINE m == MetaOf(req[p].cfg, Absent, "")
           r == [req[p] EXCEPT !.failed = TRUE, !.next = m]
<1>1. /\ req \in [Procs -> Request] /\ pc \in [Procs -> PCs] /\ req[p] \in Request
  BY DEF CertTypeOK
<1>2. m \in Metadata
  BY <1>1, RequestType, MetaType DEF Sources
<1>3. /\ req' = [req EXCEPT ![p] = r] /\ pc' = [pc EXCEPT ![p] = "report"]
      /\ UNCHANGED <<issued, certs>>
  BY DEF RequestFails, Set, Goto
<1> HIDE DEF m
<1>4. /\ r \in Request /\ r.failed = TRUE /\ r.next = m /\ r.cfg = req[p].cfg
      /\ r.prev = req[p].prev /\ r.own = req[p].own /\ r.clean = req[p].clean
  BY <1>1, <1>2, FailedRequest
<1> HIDE DEF r
<1>5. Typed /\ Others(p) /\ req'[p] = r /\ pc'[p] = "report"
  BY <1>1, <1>3, <1>4 DEF Typed, Others, PCs
<1> QED BY <1>3, <1>4, <1>5 DEF Fields, HasFailed, m

(* Generate, and Obtain.                                                   *)
LEMMA IssueEffect ==
    ASSUME CertTypeOK, NEW p \in Procs,
           \/ Generate(p, req[p])
           \/ /\ \E l \in {1, 2} : Issue([ca |-> TRUE, target |-> req[p].cfg.target,
                                          left |-> l])
              /\ Set(p, [req[p] EXCEPT !.own = issued'])
              /\ Goto(p, "truncCert") \/ Goto(p, "load")
    PROVE  Typed /\ Others(p) /\ Fields(p) /\ HasPair(p)
<1>1. /\ req \in [Procs -> Request] /\ pc \in [Procs -> PCs] /\ req[p] \in Request
      /\ issued \in 0 .. MaxIds /\ certs \in [Ids -> Certificate]
  BY DEF CertTypeOK
<1>2. PICK c \in Certificate : Issue(c)
  <2>1. req[p].cfg.target \in Targets
    BY <1>1, RequestType DEF CertConfig
  <2>2. \A a \in BOOLEAN, l \in {1, 2} :
           [ca |-> a, target |-> req[p].cfg.target, left |-> l] \in Certificate
    BY <2>1 DEF Certificate
  <2>3. \E a \in BOOLEAN, l \in {1, 2} :
           Issue([ca |-> a, target |-> req[p].cfg.target, left |-> l])
    BY DEF Generate
  <2> QED BY <2>2, <2>3
<1>3. issued' = issued + 1 /\ issued' \in Ids /\ certs' \in [Ids -> Certificate]
  BY <1>1, <1>2, CertAssumption DEF Issue, Ids
<1>4. PICK r : /\ req' = [req EXCEPT ![p] = r]
               /\ \/ r = [req[p] EXCEPT !.own = issued', !.self = TRUE]
                  \/ r = [req[p] EXCEPT !.own = issued']
  BY DEF Generate, Set
<1>5. /\ r \in Request /\ r.own = issued' /\ r.cfg = req[p].cfg /\ r.prev = req[p].prev
      /\ r.next = req[p].next /\ r.failed = req[p].failed /\ r.clean = req[p].clean
  <2>1. PICK i \in Ids : i = issued'
    BY <1>3
  <2>2. r = [req[p] EXCEPT !.own = i, !.self = TRUE] \/ r = [req[p] EXCEPT !.own = i]
    BY <1>4, <2>1, Zenon
  <2>3. /\ r \in Request /\ r.own = i /\ r.cfg = req[p].cfg /\ r.prev = req[p].prev
        /\ r.next = req[p].next /\ r.failed = req[p].failed /\ r.clean = req[p].clean
    <3>1. PICK q \in Request : q = req[p]
      BY <1>1
    <3>2. r = [q EXCEPT !.own = i, !.self = TRUE] \/ r = [q EXCEPT !.own = i]
      BY <2>2, <3>1, Zenon
    <3>3. /\ r \in Request /\ r.own = i /\ r.cfg = q.cfg /\ r.prev = q.prev
          /\ r.next = q.next /\ r.failed = q.failed /\ r.clean = q.clean
      BY <3>2 DEF Request
    <3> QED BY <3>1, <3>3, Zenon
  <2> QED BY <2>1, <2>3
<1>6. pc' = [pc EXCEPT ![p] = "truncCert"] \/ pc' = [pc EXCEPT ![p] = "load"]
  BY DEF Generate, Goto
<1>7. Typed /\ Others(p) /\ req'[p] = r /\ pc'[p] \in {"truncCert", "load"}
  BY <1>1, <1>4, <1>5, <1>6 DEF Typed, Others, PCs
<1> QED BY <1>3, <1>5, <1>7 DEF Fields, HasPair

(* Where an error may lead to a self-signed certificate.                   *)
LEMMA IssueFailsEffect ==
    ASSUME CertTypeOK, NEW p \in Procs, StepFails(p) \/ IssueFails(p)
    PROVE  Typed /\ Others(p) /\ Fields(p) /\ (HasFailed(p) \/ HasPair(p))
<1>1. RequestFails(p) \/ Generate(p, req[p])
  BY DEF StepFails, IssueFails
<1> QED BY <1>1, FailsEffect, IssueEffect

(* A certificate that is good, or was just written.                        *)
LEMMA FoundEffect ==
    ASSUME CertTypeOK, NEW p \in Procs, pc[p] \in {"look", "load"}, certFile \in Ids,
           NEW s \in Sources, NEW l \in {"meta", "report"},
           l = "report" => req[p].cfg.mode = "file",
           Set(p, [req[p] EXCEPT !.next = MetaOf(req[p].cfg, certFile, s)]),
           Goto(p, l), UNCHANGED <<issued, certs>>
    PROVE  Typed /\ Others(p) /\ Fields(p) /\ HasFound(p)
<1> DEFINE m == MetaOf(req[p].cfg, certFile, s)
           r == [req[p] EXCEPT !.next = m]
<1>1. /\ req \in [Procs -> Request] /\ pc \in [Procs -> PCs] /\ req[p] \in Request
  BY DEF CertTypeOK
<1>2. m \in Metadata
  BY <1>1, RequestType, MetaType
<1>3. req' = [req EXCEPT ![p] = r] /\ pc' = [pc EXCEPT ![p] = l]
  BY DEF Set, Goto
<1> HIDE DEF m
<1>4. /\ r \in Request /\ r.next = m /\ r.cfg = req[p].cfg /\ r.prev = req[p].prev
      /\ r.own = req[p].own /\ r.failed = req[p].failed /\ r.clean = req[p].clean
  BY <1>1, <1>2, FoundRequest
<1> HIDE DEF r
<1>5. Typed /\ Others(p) /\ req'[p] = r /\ pc'[p] = l
  BY <1>1, <1>3, <1>4 DEF Typed, Others, PCs
<1> QED BY <1>4, <1>5 DEF Fields, HasFound, m

(* From certificateReady to the account and the order.                     *)
LEMMA MovedEffect ==
    ASSUME CertTypeOK, NEW p \in Procs, pc[p] \in {"look"} \cup Ordering,
           NEW l \in {"obtain"} \cup Ordering, Goto(p, l),
           UNCHANGED <<req, issued, certs>>
    PROVE  Typed /\ Others(p) /\ Fields(p) /\ HasMoved(p)
BY DEF CertTypeOK, Goto, Typed, Others, Fields, HasMoved, PCs, Ordering

(* All steps of requestCert that leave the certificate's files alone.      *)
Searching(p) ==
    /\ pc[p] \in {"look", "obtain", "truncCert", "load"} \cup Ordering \cup Writing
    /\ Typed /\ Others(p) /\ Fields(p)
    /\ HasFailed(p) \/ HasPair(p) \/ HasFound(p) \/ HasMoved(p)
    /\ pc[p] = "load" /\ certFile \in Ids => HasFound(p)
    /\ pairOk' = (pairOk /\ pc[p] \notin Writing)
    /\ account' \in {"absent", "torn", "good"}
    /\ faults' = faults \/ (faults < MaxFaults /\ faults' = faults + 1)
    /\ UNCHANGED <<certFile, keyFile, meta, panel, news, active, alive, starting,
                   renewal, up, loaded, told, changes, metaLost, reloaded, overlap>>

(* The actions that are such a step.                                       *)
LEMMA SearchSteps ==
    ASSUME CertTypeOK, NEW p \in Procs,
           \/ LookFile(p) \/ Look(p) \/ LoadUser(p) \/ RegisterUser(p)
           \/ SaveUser(p) \/ Obtain(p) \/ LoadBack(p) \/ AcmeRefuses(p) \/ (DiskFault(p) /\ pc[p] # "meta")
    PROVE  Searching(p)
<1> USE DEF disk, files, node, bounds, history
<1>a. account \in {"absent", "torn", "good"} /\ pairOk \in BOOLEAN
  BY DEF CertTypeOK
<1>b. /\ Source(req[p].cfg) \in Sources /\ {"file", "self"} \subseteq Sources
  BY DEF Source, Sources
<1>1. CASE LookFile(p)
  <2>1. Typed /\ Others(p) /\ Fields(p) /\ (HasFailed(p) \/ HasFound(p))
    BY <1>1, <1>b, FoundEffect, FailsEffect DEF LookFile
  <2> QED BY <1>1, <1>a, <2>1 DEF LookFile, Searching, Writing
<1>2. CASE Look(p)
  <2>1. Typed /\ Others(p) /\ Fields(p) /\ (HasPair(p) \/ HasFound(p) \/ HasMoved(p))
    <3>1. CASE /\ Ready(req[p].cfg, certFile)
               /\ Set(p, [req[p] EXCEPT !.next = MetaOf(req[p].cfg, certFile,
                                                        Source(req[p].cfg))])
               /\ Goto(p, "meta") /\ UNCHANGED <<issued, certs>>
      BY <1>2, <1>b, <3>1, FoundEffect DEF Look, Ready
    <3>2. CASE Goto(p, "user") /\ UNCHANGED <<req, issued, certs>>
      BY <1>2, <3>2, MovedEffect DEF Look, Ordering
    <3>3. CASE Generate(p, req[p])
      BY <3>3, IssueEffect
    <3> QED BY <1>2, <3>1, <3>2, <3>3 DEF Look
  <2> QED BY <1>2, <1>a, <2>1 DEF Look, Searching, Writing
<1>3. CASE LoadUser(p)
  <2>1. /\ Typed /\ Others(p) /\ Fields(p)
        /\ HasFailed(p) \/ HasPair(p) \/ HasMoved(p)
    BY <1>3, IssueFailsEffect, MovedEffect DEF LoadUser, Ordering
  <2> QED BY <1>3, <1>a, <2>1 DEF LoadUser, Searching, Writing, Ordering
<1>4. CASE RegisterUser(p) \/ SaveUser(p)
  <2>1. Typed /\ Others(p) /\ Fields(p) /\ HasMoved(p)
    BY <1>4, MovedEffect DEF RegisterUser, SaveUser, Ordering
  <2> QED BY <1>4, <1>a, <2>1 DEF RegisterUser, SaveUser, Searching, Writing, Ordering
<1>5. CASE Obtain(p)
  <2>1. Typed /\ Others(p) /\ Fields(p) /\ HasPair(p)
    BY <1>5, IssueEffect DEF Obtain
  <2> QED BY <1>5, <1>a, <2>1 DEF Obtain, Searching, Writing
<1>6. CASE LoadBack(p)
  <2>1. /\ Typed /\ Others(p) /\ Fields(p)
        /\ IF certFile \in Ids THEN HasFound(p) ELSE HasFailed(p) \/ HasPair(p)
    <3>1. CASE certFile \in Ids
      BY <1>6, <1>b, <3>1, FoundEffect DEF LoadBack
    <3>2. CASE certFile \notin Ids
      BY <1>6, <3>2, IssueFailsEffect DEF LoadBack
    <3> QED BY <3>1, <3>2
  <2> QED BY <1>6, <1>a, <2>1 DEF LoadBack, Searching, Writing
<1>7. CASE AcmeRefuses(p)
  <2>1. Typed /\ Others(p) /\ Fields(p) /\ (HasFailed(p) \/ HasPair(p))
    BY <1>7, IssueFailsEffect DEF AcmeRefuses
  <2> QED BY <1>7, <1>a, <2>1 DEF AcmeRefuses, Searching, Writing, Ordering
<1>8. CASE DiskFault(p) /\ pc[p] # "meta"
  <2>1. Typed /\ Others(p) /\ Fields(p) /\ (HasFailed(p) \/ HasPair(p))
    BY <1>8, IssueFailsEffect DEF DiskFault
  <2> QED BY <1>8, <1>a, <2>1 DEF DiskFault, Searching, Writing, Ordering
<1> QED BY <1>1, <1>2, <1>3, <1>4, <1>5, <1>6, <1>7, <1>8

---------------------------------------------------------------------------
(* What can be compared, can.                                              *)
LEMMA Numbers ==
    ASSUME CertTypeOK
    PROVE  /\ issued \in Nat /\ certFile \in Int /\ meta.cert \in Nat
           /\ \A p \in Procs : /\ req[p] \in Request /\ req[p].own \in Nat
                               /\ req[p].prev.cert \in Nat /\ req[p].next.cert \in Nat
                               /\ req[p].cfg \in CertConfig /\ pc[p] \in PCs
                               /\ req[p].failed \in BOOLEAN
<1>1. \A m \in Metadata : m.cert \in Nat
  BY DEF Metadata, Ids, Absent
<1>2. \A r \in Request : r.own \in Nat
  BY RequestType DEF Ids, Absent
<1> QED BY <1>1, <1>2, RequestType, CertAssumption DEF CertTypeOK, Contents, Ids, Absent, Torn

(* Steps of requestCert before it has its result.                          *)
LEMMA SearchStep ==
    ASSUME CertInv, NEW p \in Procs, Searching(p)
    PROVE  CertInv'
<1> USE CertAssumption DEF Ordering
<1>0. /\ CertTypeOK /\ IdInv /\ FlowInv /\ LifeInv /\ PairInv /\ ServeInv
      /\ AloneInv /\ PinInv /\ ReloadInv
  BY DEF CertInv
<1>1. /\ pc[p] \in {"look", "obtain", "truncCert", "load"} \cup Ordering \cup Writing
      /\ Typed /\ Others(p) /\ Fields(p)
      /\ HasFailed(p) \/ HasPair(p) \/ HasFound(p) \/ HasMoved(p)
      /\ pc[p] = "load" /\ certFile \in Ids => HasFound(p)
      /\ pairOk' = (pairOk /\ pc[p] \notin Writing)
      /\ faults' = faults \/ (faults < MaxFaults /\ faults' = faults + 1)
      /\ UNCHANGED <<certFile, keyFile, meta, panel, news, active, alive, starting,
                     renewal, up, loaded, told, changes, metaLost, reloaded, overlap>>
  BY DEF Searching
<1>2. /\ \A q \in Procs \ {p} : pc'[q] = pc[q] /\ req'[q] = req[q]
      /\ req'[p].cfg = req[p].cfg /\ req'[p].prev = req[p].prev
      /\ req'[p].clean = req[p].clean
      /\ pc'[p] \in {"report", "truncCert", "load", "meta", "obtain"} \cup Ordering
  BY <1>1 DEF Others, Fields, HasFailed, HasPair, HasFound, HasMoved
<1>3. Tls(req[p].cfg) /\ ~req[p].failed /\ req[p].next = NoMeta
  BY <1>0, <1>1 DEF FlowInv, Flow, Writing, Ordering
<1>4. /\ issued' \in Nat /\ issued <= issued' /\ issued' <= MaxIds
      /\ issued' # issued => HasPair(p)
  <2>1. issued \in Nat /\ issued <= MaxIds
    BY <1>0 DEF CertTypeOK
  <2>2. issued' = issued \/ (HasPair(p) /\ issued' = issued + 1 /\ issued' \in Ids)
    BY <1>1 DEF HasFailed, HasPair, HasFound, HasMoved
  <2>3. \A i \in Ids : i \in Nat /\ i <= MaxIds
    BY DEF Ids
  <2> QED BY <2>1, <2>2, <2>3
<1>5. \/ req'[p].failed /\ pc'[p] = "report" /\ req'[p].next = MetaOf(req[p].cfg, Absent, "")
      \/ /\ ~req'[p].failed /\ req'[p].next = NoMeta
         /\ pc'[p] \in {"truncCert", "load", "obtain"} \cup Ordering
         /\ pc[p] = "load" => certFile \notin Ids
      \/ /\ ~req'[p].failed /\ req'[p].next # NoMeta /\ req'[p].next.cert = certFile
         /\ certFile \in Ids /\ pc[p] \notin Writing
         /\ pc'[p] = "meta" \/ (pc'[p] = "report" /\ req[p].cfg.mode = "file")
  <2>1. certFile \in Ids => certFile # Absent
    BY DEF Ids, Absent
  <2>2. CASE HasFailed(p)
    BY <2>2 DEF HasFailed
  <2>3. CASE HasPair(p) \/ HasMoved(p)
    <3>1. pc[p] = "load" => certFile \notin Ids
      BY <1>1, <2>3 DEF HasPair, HasMoved, HasFound
    <3> QED BY <1>3, <2>3, <3>1 DEF HasPair, HasMoved
  <2>4. CASE HasFound(p)
    <3>1. \A s \in Sources : MetaOf(req[p].cfg, certFile, s).cert = certFile
      BY DEF MetaOf
    <3>2. req'[p].next.cert = certFile /\ certFile # Absent
      BY <2>1, <2>4, <3>1 DEF HasFound
    <3> QED BY <1>3, <2>4, <3>2, MetaType DEF HasFound, Writing
  <2> QED BY <1>1, <2>2, <2>3, <2>4
<1>a. CertTypeOK'
  <2>1. certs' \in [Ids -> Certificate]
    BY <1>0, <1>1 DEF HasFailed, HasPair, HasFound, HasMoved, CertTypeOK
  <2>2. account' \in {"absent", "torn", "good"}
    BY DEF Searching
  <2>3. faults' \in 0 .. MaxFaults /\ pairOk' \in BOOLEAN
    BY <1>0, <1>1 DEF CertTypeOK
  <2>4. req' \in [Procs -> Request] /\ pc' \in [Procs -> PCs]
    BY <1>1 DEF Typed
  <2> QED BY <1>0, <1>1, <1>4, <2>1, <2>2, <2>3, <2>4 DEF CertTypeOK
<1>b. IdInv'
  <2>1. certFile <= issued' /\ meta.cert <= issued'
    BY <1>0, <1>4, Numbers DEF IdInv
  <2>2. ASSUME NEW q \in Procs \ {p} PROVE Newer(q)'
    <3>1. Newer(q) /\ req'[q] = req[q] /\ pc'[q] = pc[q]
      BY <1>0, <1>2 DEF IdInv
    <3> QED BY <1>0, <1>4, <3>1, Numbers DEF Newer
  <2>3. Newer(p)'
    <3>1. Newer(p)
      BY <1>0 DEF IdInv
    <3>2. req'[p].next.cert = Absent \/ req'[p].next.cert = certFile
      <4>1. MetaOf(req[p].cfg, Absent, "").cert = Absent /\ NoMeta.cert = Absent
        BY DEF MetaOf, NoMeta
      <4> QED BY <1>5, <4>1
    <3>3. req'[p].prev.cert <= issued' /\ req'[p].next.cert <= issued'
      BY <1>0, <1>2, <1>4, <2>1, <3>1, <3>2, Numbers DEF Newer, Absent
    <3>4. CASE HasPair(p)
      BY <1>0, <1>2, <1>4, <3>1, <3>3, <3>4, Numbers DEF Newer, HasPair, Absent
    <3>5. CASE ~HasPair(p)
      <4>1. req'[p].own = req[p].own /\ pc'[p] \notin {"truncCert", "load"} \cup Writing
        BY <1>1, <3>5 DEF HasFailed, HasFound, HasMoved, Writing
      <4>2. req'[p].own <= issued'
        BY <1>0, <1>4, <3>1, <4>1, Numbers DEF Newer
      <4> QED BY <1>2, <3>1, <3>3, <4>1, <4>2 DEF Newer
    <3> QED BY <3>4, <3>5
  <2> QED BY <1>1, <2>1, <2>2, <2>3 DEF IdInv
<1>c. FlowInv'
  <2> SUFFICES ASSUME NEW q \in Procs PROVE Flow(q)'
    BY DEF FlowInv
  <2>1. CASE q = p
    <3>1. Flow(p)
      BY <1>0 DEF FlowInv
    <3>2. /\ MetaOf(req[p].cfg, Absent, "").cert = Absent /\ NoMeta.cert = Absent
          /\ \A i \in Ids : i # Absent
      <4>1. \A i \in Ids : i # Absent
        BY DEF Ids, Absent
      <4> QED BY <4>1 DEF MetaOf, NoMeta
    <3> QED BY <1>1, <1>2, <1>3, <1>5, <2>1, <3>1, <3>2 DEF Flow, Tls
  <2>2. CASE q # p
    <3>1. Flow(q) /\ req'[q] = req[q] /\ pc'[q] = pc[q] /\ certFile' = certFile
      BY <1>0, <1>1, <1>2, <2>2 DEF FlowInv
    <3> QED BY <3>1 DEF Flow, Tls, Changed
  <2> QED BY <2>1, <2>2
<1>d. LifeInv'
  <2>1. alive
    BY <1>0, <1>1 DEF LifeInv, Writing
  <2>2. pc'["monitor"] \notin {"idle", "read"} => req'["monitor"].cfg = active
    BY <1>0, <1>1, <1>2 DEF LifeInv, Writing, Procs
  <2> QED BY <1>1, <2>1, <2>2 DEF LifeInv
<1>e. PairInv'
  <2>1. Steady' => Steady
    BY <1>1, <1>2 DEF Steady, Writing
  <2>2. PairMatches' /\ (Steady' => certFile' # Torn)
    BY <1>0, <1>1, <2>1 DEF PairInv, PairMatches, Steady
  <2>3. ASSUME NEW q \in Procs, pc'[q] \in Writing, req'[q].clean
        PROVE  /\ pc'[Other(q)] \notin Writing
               /\ pc'[q] \in {"truncKey", "writeKey"} => certFile' = req'[q].own
    BY <1>0, <1>1, <1>2, <2>3 DEF PairInv, Writing, Procs, Other
  <2> QED BY <2>2, <2>3 DEF PairInv
<1>f. ServeInv'
  <2>1. Steady' => Steady /\ pc[p] \notin Writing
    BY <1>1, <1>2 DEF Steady, Writing
  <2>2. ASSUME up, Tls(active), Steady' PROVE loaded = certFile \/ MonitorAdds' \/ RenewalReloads'
    <3>1. loaded = certFile \/ MonitorAdds \/ RenewalReloads
      BY <1>0, <2>1, <2>2 DEF ServeInv
    <3>2. certFile \in Ids
      BY <1>0, <2>1, <2>2 DEF ServeInv, PairInv, CertTypeOK, Contents
    <3>3. /\ pc[p] = "load" => /\ pc'[p] \in {"meta", "report"} /\ ~req'[p].failed
                               /\ req'[p].next.cert = certFile
      BY <1>1, <1>3, <1>5, <3>2 DEF HasFound
    <3>4. ASSUME MonitorAdds PROVE MonitorAdds'
      BY <1>1, <1>2, <2>1, <3>3, <3>4 DEF MonitorAdds, Procs, Writing
    <3>5. ASSUME RenewalReloads PROVE RenewalReloads'
      <4>1. certFile # Absent
        BY <1>0, <2>2 DEF ServeInv
      <4> QED BY <1>1, <1>2, <2>1, <3>3, <3>5, <4>1 DEF RenewalReloads, Procs, Writing
    <3> QED BY <3>1, <3>4, <3>5
  <2> QED BY <1>0, <1>1, <2>2 DEF ServeInv, Tls
<1>g. AloneInv'
  BY <1>0, <1>1, <1>2 DEF AloneInv, Writing, Procs
<1>h. PinInv'
  <2>1. faults \in Nat
    BY <1>0 DEF CertTypeOK
  <2>2. ASSUME faults' = 0, ~overlap' PROVE faults = 0 /\ ~overlap
    BY <1>1, <2>1, <2>2
  <2>3. ASSUME faults = 0, ~overlap, NEW q \in Procs
        PROVE  /\ \/ pc'[q] = "meta"
                  \/ pc'[q] = "report" /\ Tls(active)' /\ ~req'[q].failed
                  => req'[q].next.cert = certFile'
               /\ pc'[q] \in {"del", "add"} /\ Tls(active)' => Agreed'
    <3>1. CASE q = p
      BY <1>1, <1>2, <1>5, <3>1
    <3>2. CASE q # p
      BY <1>0, <1>1, <1>2, <2>3, <3>2 DEF PinInv, Tls, Agreed
    <3> QED BY <3>1, <3>2
  <2>4. ~Quiet'
    BY <1>2 DEF Quiet
  <2> QED BY <2>2, <2>3, <2>4 DEF PinInv
<1>i. ReloadInv'
  <2>1. CASE p = "renewal"
    BY <1>0, <1>1, <1>2, <1>3, <1>5, <2>1 DEF ReloadInv, Procs, Writing
  <2>2. CASE p # "renewal"
    BY <1>0, <1>1, <1>2, <2>2 DEF ReloadInv, Procs, Writing
  <2> QED BY <2>1, <2>2
<1> QED BY <1>a, <1>b, <1>c, <1>d, <1>e, <1>f, <1>g, <1>h, <1>i DEF CertInv

(* The request of a task is as it was.                                     *)
LEMMA OtherKept ==
    ASSUME CertTypeOK, IdInv, FlowInv, NEW q \in Procs, pc'[q] = pc[q],
           req'[q].cfg = req[q].cfg, req'[q].prev = req[q].prev,
           req'[q].next = req[q].next, req'[q].failed = req[q].failed,
           req'[q].own = req[q].own, issued' = issued,
           certFile # Absent => certFile' # Absent
    PROVE  Newer(q)' /\ Flow(q)'
<1>1. Newer(q) /\ Flow(q)
  BY DEF IdInv, FlowInv
<1> QED BY <1>1 DEF Newer, Flow, Tls, Changed

(* The steps that write the two files.                                     *)
Writes(p) ==
    \/ /\ pc[p] = "truncCert" /\ pc'[p] = "writeCert" /\ certFile' = Torn
       /\ req'[p].clean = (pc[Other(p)] \notin Writing)
       /\ \A q \in Procs \ {p} : ~req'[q].clean
       /\ UNCHANGED <<keyFile, pairOk>>
    \/ /\ pc[p] = "writeCert" /\ pc'[p] = "truncKey" /\ certFile' = req[p].own
       /\ UNCHANGED <<keyFile, pairOk, req>>
    \/ /\ pc[p] = "truncKey" /\ pc'[p] = "writeKey" /\ keyFile' = Torn
       /\ UNCHANGED <<certFile, pairOk, req>>
    \/ /\ pc[p] = "writeKey" /\ pc'[p] = "load" /\ keyFile' = req[p].own
       /\ pairOk' = req[p].clean
       /\ UNCHANGED <<certFile, req>>

(* They change a file and who writes undisturbed.                          *)
LEMMA WriteEffect ==
    ASSUME CertTypeOK, NEW p \in Procs,
           TruncateCert(p) \/ WriteCert(p) \/ TruncateKey(p) \/ WriteKey(p)
    PROVE  /\ Typed /\ Writes(p) /\ \A q \in Procs \ {p} : pc'[q] = pc[q]
           /\ \A q \in Procs : /\ req'[q].cfg = req[q].cfg /\ req'[q].prev = req[q].prev
                               /\ req'[q].next = req[q].next /\ req'[q].own = req[q].own
                               /\ req'[q].failed = req[q].failed
           /\ UNCHANGED <<issued, certs, meta, account, panel, news, active, alive,
                          starting, renewal, up, loaded, told, faults, changes, metaLost,
                          reloaded, overlap>>
<1> USE DEF disk, files, node, bounds, history
<1>1. req \in [Procs -> Request] /\ pc \in [Procs -> PCs]
  BY DEF CertTypeOK
<1>2. CASE TruncateCert(p)
  <2>1. req' = [q \in Procs |-> [req[q] EXCEPT !.clean =
                   IF q = p THEN pc[Other(p)] \notin Writing ELSE FALSE]]
    BY <1>2 DEF TruncateCert
  <2>3. ASSUME NEW q \in Procs
        PROVE  /\ req'[q] \in Request
               /\ req'[q].clean = IF q = p THEN pc[Other(p)] \notin Writing ELSE FALSE
               /\ req'[q].cfg = req[q].cfg /\ req'[q].prev = req[q].prev
               /\ req'[q].next = req[q].next /\ req'[q].own = req[q].own
               /\ req'[q].failed = req[q].failed
    <3>1. PICK b \in BOOLEAN : b = IF q = p THEN pc[Other(p)] \notin Writing ELSE FALSE
      OBVIOUS
    <3>2. PICK r \in Request : r = req[q]
      BY <1>1
    <3>3. req'[q] = [r EXCEPT !.clean = b]
      BY <2>1, <3>1, <3>2
    <3>4. PICK x : x = req'[q]
      OBVIOUS
    <3>5. x = [r EXCEPT !.clean = b]
      BY <3>3, <3>4, Zenon
    <3>6. /\ x \in Request /\ x.clean = b /\ x.cfg = r.cfg /\ x.prev = r.prev
          /\ x.next = r.next /\ x.own = r.own /\ x.failed = r.failed
      BY <3>5 DEF Request
    <3> QED BY <3>1, <3>2, <3>4, <3>6
  <2>4. req' \in [Procs -> Request]
    BY <2>1, <2>3
  <2>5. pc' = [pc EXCEPT ![p] = "writeCert"] /\ pc[p] = "truncCert"
    BY <1>2 DEF TruncateCert, Goto
  <2>6. Typed /\ pc'[p] = "writeCert" /\ \A q \in Procs \ {p} : pc'[q] = pc[q]
    BY <1>1, <2>4, <2>5 DEF Typed, PCs
  <2>7. Writes(p)
    BY <1>2, <2>3, <2>5, <2>6 DEF Writes, TruncateCert
  <2> QED BY <1>2, <2>3, <2>6, <2>7 DEF TruncateCert
<1>3. CASE WriteCert(p)
  BY <1>1, <1>3 DEF WriteCert, Goto, Typed, Writes, PCs
<1>4. CASE TruncateKey(p)
  BY <1>1, <1>4 DEF TruncateKey, Goto, Typed, Writes, PCs
<1>5. CASE WriteKey(p)
  BY <1>1, <1>5 DEF WriteKey, Goto, Typed, Writes, PCs
<1> QED BY <1>2, <1>3, <1>4, <1>5

(* The invariant is kept while the pair is written.                        *)
LEMMA WriteStep ==
    ASSUME CertInv, NEW p \in Procs,
           TruncateCert(p) \/ WriteCert(p) \/ TruncateKey(p) \/ WriteKey(p)
    PROVE  CertInv'
<1> USE CertAssumption
<1>0. /\ CertTypeOK /\ IdInv /\ FlowInv /\ LifeInv /\ PairInv /\ ServeInv
      /\ AloneInv /\ PinInv /\ ReloadInv
  BY DEF CertInv
<1>1. /\ Typed /\ Writes(p) /\ \A q \in Procs \ {p} : pc'[q] = pc[q]
      /\ \A q \in Procs : /\ req'[q].cfg = req[q].cfg /\ req'[q].prev = req[q].prev
                          /\ req'[q].next = req[q].next /\ req'[q].own = req[q].own
                          /\ req'[q].failed = req[q].failed
      /\ UNCHANGED <<issued, certs, meta, account, panel, news, active, alive,
                     starting, renewal, up, loaded, told, faults, changes, metaLost,
                     reloaded, overlap>>
  BY <1>0, WriteEffect
<1>2. /\ pc[p] \in {"truncCert", "writeCert", "truncKey", "writeKey"}
      /\ pc'[p] \in {"writeCert", "truncKey", "writeKey", "load"}
  BY <1>1 DEF Writes
<1>3. /\ req[p].own \in Ids /\ req[p].own <= issued /\ req[p].prev.cert < req[p].own
      /\ Tls(req[p].cfg) /\ ~req[p].failed /\ req[p].next = NoMeta
  <2>1. Newer(p) /\ Flow(p) /\ req[p].own \in Ids \cup {Absent}
    BY <1>0, RequestType DEF IdInv, FlowInv, CertTypeOK
  <2> QED BY <1>2, <2>1 DEF Newer, Flow, Writing
<1>4. /\ certFile' \in {certFile, Torn, req[p].own} /\ keyFile' \in {keyFile, Torn, req[p].own}
      /\ Absent \notin {Torn, req[p].own} /\ Torn # req[p].own /\ certFile' <= issued
      /\ certFile' \in Contents /\ keyFile' \in Contents
  <2>1. certFile' \in {certFile, Torn, req[p].own} /\ keyFile' \in {keyFile, Torn, req[p].own}
    BY <1>1 DEF Writes
  <2>2. Absent \notin {Torn, req[p].own} /\ Torn # req[p].own /\ Torn <= issued
    BY <1>0, <1>3, Numbers DEF Ids, Absent, Torn
  <2>3. certFile <= issued /\ certFile \in Contents /\ keyFile \in Contents
    BY <1>0 DEF IdInv, CertTypeOK
  <2>4. req[p].own \in Contents /\ Torn \in Contents
    BY <1>3 DEF Contents
  <2> QED BY <1>3, <2>1, <2>2, <2>3, <2>4
<1>a. CertTypeOK'
  <2>1. pairOk' \in BOOLEAN
    BY <1>0, <1>1, RequestType DEF Writes, CertTypeOK
  <2> QED BY <1>0, <1>1, <1>4, <2>1 DEF CertTypeOK, Typed
<1>b. IdInv' /\ FlowInv'
  <2>1. ASSUME NEW q \in Procs \ {p} PROVE Newer(q)' /\ Flow(q)'
    BY <1>0, <1>1, <1>4, OtherKept
  <2>2. Newer(p)'
    <3>1. Newer(p)
      BY <1>0 DEF IdInv
    <3> QED BY <1>1, <1>2, <3>1 DEF Newer, Writing
  <2>3. Flow(p)'
    BY <1>1, <1>2, <1>3, MetaType DEF Flow, Tls
  <2> QED BY <1>0, <1>1, <1>4, <2>1, <2>2, <2>3 DEF IdInv, FlowInv
<1>c. LifeInv'
  <2>1. alive
    BY <1>0, <1>2 DEF LifeInv
  <2>2. pc'["monitor"] \notin {"idle", "read"} => req'["monitor"].cfg = active
    BY <1>0, <1>1, <1>2 DEF LifeInv, Procs
  <2> QED BY <1>1, <2>1, <2>2 DEF LifeInv
<1>d. pc'[p] \notin Writing => pc[p] = "writeKey" /\ pc'[p] = "load"
  BY <1>1 DEF Writes, Writing
<1>e. Steady' => /\ pc[p] = "writeKey" /\ pc'[p] = "load"
                 /\ certFile' = req[p].own /\ keyFile' = req[p].own
  <2> SUFFICES ASSUME Steady' PROVE /\ pc[p] = "writeKey" /\ pc'[p] = "load"
                 /\ certFile' = req[p].own /\ keyFile' = req[p].own
    OBVIOUS
  <2>1. pc[p] = "writeKey" /\ pc'[p] = "load" /\ pairOk'
    BY <1>d DEF Steady
  <2>2. req[p].clean /\ keyFile' = req[p].own /\ certFile' = certFile
    BY <1>1, <2>1 DEF Writes
  <2> QED BY <1>0, <2>1, <2>2 DEF PairInv, Writing
<1>f. PairInv'
  <2>1. PairMatches' /\ (Steady' => certFile' # Torn)
    BY <1>4, <1>e DEF PairMatches, Steady
  <2>2. ASSUME NEW q \in Procs, pc'[q] \in Writing, req'[q].clean
        PROVE  /\ pc'[Other(q)] \notin Writing
               /\ pc'[q] \in {"truncKey", "writeKey"} => certFile' = req'[q].own
    <3>0. p \in {"monitor", "renewal"} /\ q \in {"monitor", "renewal"}
      BY DEF Procs
    <3>1. CASE q = p
      <4>1. pc'[Other(p)] = pc[Other(p)]
        BY <1>1, <3>0 DEF Other, Procs
      <4>2. CASE pc[p] = "truncCert"
        BY <1>1, <2>2, <3>1, <4>1, <4>2 DEF Writes
      <4>3. CASE pc[p] \in {"writeCert", "truncKey"}
        <5>1. req' = req /\ pc[p] \in Writing /\ req[p].clean
          BY <1>1, <2>2, <3>1, <4>3 DEF Writes, Writing
        <5>2. /\ pc[Other(p)] \notin Writing
              /\ pc[p] = "truncKey" => certFile = req[p].own
          BY <1>0, <5>1 DEF PairInv
        <5>3. pc'[p] \in {"truncKey", "writeKey"} => certFile' = req[p].own
          BY <1>1, <4>3, <5>2 DEF Writes
        <5> QED BY <3>1, <4>1, <5>1, <5>2, <5>3
      <4>4. CASE pc[p] = "writeKey"
        BY <1>1, <2>2, <3>1, <4>4 DEF Writes, Writing
      <4> QED BY <1>2, <4>2, <4>3, <4>4
    <3>2. CASE q # p
      <4>1. p = Other(q) /\ pc'[q] = pc[q]
        BY <1>1, <3>0, <3>2 DEF Other
      <4>2. pc[p] # "truncCert" /\ req' = req
        BY <1>1, <2>2, <3>2 DEF Writes
      <4>3. pc[q] \in Writing /\ req[q].clean /\ pc[p] \in Writing
        BY <1>2, <2>2, <4>1, <4>2 DEF Writing
      <4> QED BY <1>0, <4>1, <4>3 DEF PairInv
    <3> QED BY <3>1, <3>2
  <2> QED BY <2>1, <2>2 DEF PairInv
<1>g. ServeInv'
  <2>1. up' /\ Tls(active)' => certFile' # Absent
    BY <1>0, <1>1, <1>4 DEF ServeInv, Tls
  <2>2. ASSUME Steady' PROVE MonitorAdds' \/ RenewalReloads'
    <3>1. pc'[p] = "load" /\ certFile' = req[p].own /\ ~req'[p].failed
      BY <1>1, <1>3, <1>e, <2>2
    <3>2. certFile' # req'[p].prev.cert
      BY <1>0, <1>1, <1>3, <3>1, Numbers
    <3>3. CASE p = "monitor"
      BY <3>1, <3>3 DEF MonitorAdds
    <3>4. CASE p = "renewal"
      BY <3>1, <3>2, <3>4 DEF RenewalReloads
    <3> QED BY <3>3, <3>4 DEF Procs
  <2> QED BY <2>1, <2>2 DEF ServeInv
<1>h. AloneInv'
  BY <1>0, <1>1, <1>2 DEF AloneInv, Procs
<1>i. PinInv'
  <2>1. ~Quiet'
    BY <1>2 DEF Quiet
  <2>2. ASSUME ~overlap, NEW q \in Procs PROVE pc'[q] \notin {"meta", "report", "del", "add"}
    BY <1>0, <1>1, <1>2, <2>2 DEF AloneInv, Procs
  <2> QED BY <1>1, <2>1, <2>2 DEF PinInv
<1>j. ReloadInv'
  <2>1. CASE p = "renewal"
    BY <1>0, <1>1, <1>2, <1>3, <2>1 DEF ReloadInv, Procs
  <2>2. CASE p # "renewal"
    BY <1>0, <1>1, <1>2, <2>2 DEF ReloadInv, Procs
  <2> QED BY <2>1, <2>2
<1> QED BY <1>a, <1>b, <1>c, <1>f, <1>g, <1>h, <1>i, <1>j DEF CertInv

---------------------------------------------------------------------------
(* readCertMetadata and currentCertConfig: the request starts afresh.      *)
LEMMA ReadEffect ==
    ASSUME CertTypeOK, NEW p \in Procs, ReadConfig(p)
    PROVE  /\ Typed /\ Others(p) /\ pc[p] = "read"
           /\ req'[p].cfg = active /\ req'[p].prev = meta /\ req'[p].own = Absent
           /\ \/ /\ req'[p].failed /\ req'[p].next = MetaOf(active, Absent, "")
                 /\ pc'[p] = "report" /\ Tls(active)
              \/ /\ ~req'[p].failed /\ req'[p].next = NoMeta
                 /\ pc'[p] = IF Tls(active) THEN "look" ELSE "report"
           /\ UNCHANGED <<issued, certs, certFile, keyFile, meta, account, panel, news,
                          active, alive, starting, renewal, up, loaded, told, faults,
                          changes, pairOk, metaLost, reloaded, overlap>>
<1> USE DEF disk, files, node, bounds, history
<1> DEFINE r == [NoRequest EXCEPT !.cfg = active, !.prev = meta]
           m == MetaOf(active, Absent, "")
           f == [r EXCEPT !.failed = TRUE, !.next = m]
           bad == active.mode \notin {"", "none"} /\ Invalid(active)
<1>1. /\ req \in [Procs -> Request] /\ pc \in [Procs -> PCs] /\ active \in CertConfig
      /\ meta \in Metadata
  BY DEF CertTypeOK
<1>2. m \in Metadata
  BY <1>1, MetaType DEF Sources
<1>3. /\ r \in Request /\ r.cfg = active /\ r.prev = meta /\ r.own = Absent
      /\ r.failed = FALSE /\ r.next = NoMeta
  BY <1>1, MetaType, CertAssumption DEF NoRequest, Request
<1>4. /\ req' = [req EXCEPT ![p] = IF bad THEN f ELSE r] /\ pc[p] = "read"
      /\ pc' = [pc EXCEPT ![p] = IF active.mode \in {"", "none"} \/ bad
                                 THEN "report" ELSE "look"]
  BY DEF ReadConfig, Set, Goto
<1> HIDE DEF r, m
<1>5. /\ f \in Request /\ f.cfg = r.cfg /\ f.prev = r.prev /\ f.own = r.own
      /\ f.failed = TRUE /\ f.next = m
  BY <1>2, <1>3, FailedRequest
<1> HIDE DEF f
<1>6. Typed /\ Others(p)
  BY <1>1, <1>3, <1>4, <1>5 DEF Typed, Others, PCs
<1>7. CASE bad
  <2>1. req'[p] = f /\ pc'[p] = "report" /\ Tls(active)
    BY <1>1, <1>4, <1>7 DEF Tls
  <2> QED BY <1>3, <1>4, <1>5, <1>6, <2>1 DEF m, ReadConfig
<1>8. CASE ~bad
  <2>1. req'[p] = r /\ pc'[p] = IF Tls(active) THEN "look" ELSE "report"
    BY <1>1, <1>4, <1>8 DEF Tls
  <2> QED BY <1>3, <1>4, <1>6, <2>1 DEF ReadConfig
<1> QED BY <1>7, <1>8

(* The invariant is kept when a request starts.                            *)
LEMMA ReadStep ==
    ASSUME CertInv, NEW p \in Procs, ReadConfig(p)
    PROVE  CertInv'
<1> USE CertAssumption
<1>0. /\ CertTypeOK /\ IdInv /\ FlowInv /\ LifeInv /\ PairInv /\ ServeInv
      /\ AloneInv /\ PinInv /\ ReloadInv
  BY DEF CertInv
<1>1. /\ Typed /\ Others(p) /\ pc[p] = "read"
      /\ req'[p].cfg = active /\ req'[p].prev = meta /\ req'[p].own = Absent
      /\ \/ /\ req'[p].failed /\ req'[p].next = MetaOf(active, Absent, "")
            /\ pc'[p] = "report" /\ Tls(active)
         \/ /\ ~req'[p].failed /\ req'[p].next = NoMeta
            /\ pc'[p] = IF Tls(active) THEN "look" ELSE "report"
      /\ UNCHANGED <<issued, certs, certFile, keyFile, meta, account, panel, news,
                     active, alive, starting, renewal, up, loaded, told, faults,
                     changes, pairOk, metaLost, reloaded, overlap>>
  BY <1>0, ReadEffect
<1>2. \A q \in Procs \ {p} : pc'[q] = pc[q] /\ req'[q] = req[q]
  BY <1>1 DEF Others
<1>3. req'[p].next.cert = Absent
  <2>1. MetaOf(active, Absent, "").cert = Absent /\ NoMeta.cert = Absent
    BY DEF MetaOf, NoMeta
  <2> QED BY <1>1, <2>1
<1>4. pc'[p] \in {"look", "report"}
  BY <1>1
<1>a. CertTypeOK'
  BY <1>0, <1>1 DEF CertTypeOK, Typed
<1>b. IdInv' /\ FlowInv'
  <2>1. ASSUME NEW q \in Procs \ {p} PROVE Newer(q)' /\ Flow(q)'
    BY <1>0, <1>1, <1>2, OtherKept
  <2>2. Newer(p)'
    <3>1. meta.cert <= issued /\ Absent <= issued
      BY <1>0, Numbers DEF IdInv, Absent
    <3> QED BY <1>1, <1>3, <1>4, <3>1 DEF Newer, Writing
  <2>3. Flow(p)'
    BY <1>1, <1>3, <1>4 DEF Flow, Tls
  <2> QED BY <1>0, <1>1, <2>1, <2>2, <2>3 DEF IdInv, FlowInv
<1>c. LifeInv'
  BY <1>0, <1>1, <1>2 DEF LifeInv, Procs
<1>d. (Steady' => Steady) /\ pc'[p] \notin Writing /\ pc[p] \notin Writing
  BY <1>1, <1>2, <1>4 DEF Steady, Writing
<1>e. PairInv'
  <2>1. PairMatches' /\ (Steady' => certFile' # Torn)
    BY <1>0, <1>1, <1>d DEF PairInv, PairMatches, Steady
  <2>2. ASSUME NEW q \in Procs, pc'[q] \in Writing, req'[q].clean
        PROVE  /\ pc'[Other(q)] \notin Writing
               /\ pc'[q] \in {"truncKey", "writeKey"} => certFile' = req'[q].own
    <3>1. q # p /\ Other(q) = p
      BY <1>d, <2>2 DEF Procs, Other
    <3> QED BY <1>0, <1>1, <1>2, <1>d, <2>2, <3>1 DEF PairInv
  <2> QED BY <2>1, <2>2 DEF PairInv
<1>f. ServeInv'
  <2>1. (MonitorAdds => MonitorAdds') /\ (RenewalReloads => RenewalReloads')
    BY <1>1, <1>2 DEF MonitorAdds, RenewalReloads, Procs
  <2> QED BY <1>0, <1>1, <1>d, <2>1 DEF ServeInv, Tls
<1>g. AloneInv'
  BY <1>0, <1>1, <1>2 DEF AloneInv, Procs
<1>h. PinInv'
  <2>1. ~Quiet'
    BY <1>4 DEF Quiet
  <2>2. ASSUME ~overlap, NEW q \in Procs
        PROVE  /\ pc'[q] \notin {"meta", "del", "add"}
               /\ ~(pc'[q] = "report" /\ Tls(active) /\ ~req'[q].failed)
    BY <1>0, <1>1, <1>2, <1>4, <2>2 DEF AloneInv, Procs
  <2> QED BY <1>1, <2>1, <2>2 DEF PinInv, Tls
<1>i. ReloadInv'
  <2>1. CASE p = "renewal"
    BY <1>0, <1>1, <1>2, <1>4, <2>1 DEF ReloadInv, Procs
  <2>2. CASE p # "renewal"
    BY <1>0, <1>1, <1>2, <1>4, <2>2 DEF ReloadInv, Procs
  <2> QED BY <2>1, <2>2
<1> QED BY <1>a, <1>b, <1>c, <1>e, <1>f, <1>g, <1>h, <1>i DEF CertInv

(* writeCertMetadata, or its failure.                                      *)
LEMMA MetaStep ==
    ASSUME CertInv, NEW p \in Procs, WriteMeta(p) \/ (DiskFault(p) /\ pc[p] = "meta")
    PROVE  CertInv'
<1> USE CertAssumption
<1> USE DEF disk, files, node, bounds, history
<1>0. /\ CertTypeOK /\ IdInv /\ FlowInv /\ LifeInv /\ PairInv /\ ServeInv
      /\ AloneInv /\ PinInv /\ ReloadInv
  BY DEF CertInv
<1>1. /\ pc[p] = "meta" /\ pc' = [pc EXCEPT ![p] = "report"]
      /\ \/ /\ meta' = req[p].next /\ metaLost' = FALSE
            /\ UNCHANGED <<faults, reloaded>>
         \/ /\ meta' \in {meta, NoMeta} /\ metaLost' = TRUE /\ reloaded' = NoMeta
            /\ faults < MaxFaults /\ faults' = faults + 1
      /\ UNCHANGED <<issued, certs, certFile, keyFile, account, panel, news, active,
                     alive, starting, renewal, up, loaded, req, told, changes, pairOk,
                     overlap>>
  BY DEF WriteMeta, DiskFault, Goto, Writing
<1>2. /\ pc \in [Procs -> PCs] /\ pc'[p] = "report"
      /\ \A q \in Procs \ {p} : pc'[q] = pc[q]
  BY <1>0, <1>1 DEF CertTypeOK
<1>3. Newer(p) /\ Flow(p) /\ req[p].next.cert # Absent /\ ~req[p].failed
      /\ Tls(req[p].cfg)
  BY <1>0, <1>1 DEF IdInv, FlowInv, Flow
<1>a. CertTypeOK'
  <2>1. meta' \in Metadata /\ reloaded' \in Metadata
    <3>1. NoMeta \in Metadata
      BY MetaType
    <3>2. req[p].next \in Metadata /\ meta \in Metadata /\ reloaded \in Metadata
      BY <1>0, RequestType DEF CertTypeOK
    <3> QED BY <1>1, <3>1, <3>2
  <2>2. faults' \in 0 .. MaxFaults /\ metaLost' \in BOOLEAN
    <3>1. faults \in 0 .. MaxFaults
      BY <1>0 DEF CertTypeOK
    <3>2. faults' = faults \/ (faults < MaxFaults /\ faults' = faults + 1)
      BY <1>1
    <3>3. metaLost' \in BOOLEAN
      BY <1>1
    <3> QED BY <3>1, <3>2, <3>3
  <2>3. pc' \in [Procs -> PCs]
    BY <1>1, <1>2 DEF PCs
  <2> QED BY <1>0, <1>1, <2>1, <2>2, <2>3 DEF CertTypeOK
<1>b. IdInv' /\ FlowInv'
  <2>1. ASSUME NEW q \in Procs \ {p} PROVE Newer(q)' /\ Flow(q)'
    BY <1>0, <1>1, <1>2, OtherKept
  <2>2. Newer(p)' /\ Flow(p)'
    BY <1>1, <1>2, <1>3 DEF Newer, Flow, Tls, Changed, Writing
  <2>3. meta'.cert <= issued
    <3>1. NoMeta.cert <= issued
      BY <1>0, Numbers DEF NoMeta, Absent
    <3>2. req[p].next.cert <= issued /\ meta.cert <= issued
      BY <1>0, <1>3 DEF IdInv, Newer
    <3> QED BY <1>1, <3>1, <3>2
  <2> QED BY <1>0, <1>1, <2>1, <2>2, <2>3 DEF IdInv, FlowInv
<1>c. LifeInv'
  BY <1>0, <1>1, <1>2 DEF LifeInv, Procs
<1>d. (Steady' => Steady) /\ pc'[p] \notin Writing /\ pc[p] \notin Writing
  BY <1>1, <1>2 DEF Steady, Writing
<1>e. PairInv'
  <2>1. PairMatches' /\ (Steady' => certFile' # Torn)
    BY <1>0, <1>1, <1>d DEF PairInv, PairMatches, Steady
  <2>2. ASSUME NEW q \in Procs, pc'[q] \in Writing, req'[q].clean
        PROVE  /\ pc'[Other(q)] \notin Writing
               /\ pc'[q] \in {"truncKey", "writeKey"} => certFile' = req'[q].own
    <3>1. q # p /\ Other(q) = p
      BY <1>d, <2>2 DEF Procs, Other
    <3> QED BY <1>0, <1>1, <1>2, <1>d, <2>2, <3>1 DEF PairInv
  <2> QED BY <2>1, <2>2 DEF PairInv
<1>f. ServeInv'
  <2>1. (MonitorAdds => MonitorAdds') /\ (RenewalReloads => RenewalReloads')
    BY <1>1, <1>2 DEF MonitorAdds, RenewalReloads, Procs
  <2> QED BY <1>0, <1>1, <1>d, <2>1 DEF ServeInv, Tls
<1>g. AloneInv'
  BY <1>0, <1>1, <1>2 DEF AloneInv, Procs
<1>h. PinInv'
  <2>1. ~Quiet'
    BY <1>2 DEF Quiet
  <2>2. faults' = 0 => faults = 0
    BY <1>0, <1>1 DEF CertTypeOK
  <2>3. ASSUME faults = 0, ~overlap, NEW q \in Procs
        PROVE  /\ \/ pc'[q] = "meta"
                  \/ pc'[q] = "report" /\ Tls(active)' /\ ~req'[q].failed
                  => req'[q].next.cert = certFile'
               /\ pc'[q] \in {"del", "add"} /\ Tls(active)' => Agreed'
    BY <1>0, <1>1, <1>2, <2>3 DEF PinInv, Tls, Agreed
  <2> QED BY <1>1, <2>1, <2>2, <2>3 DEF PinInv
<1>i. ReloadInv'
  <2>1. CASE p = "renewal"
    BY <1>0, <1>1, <1>2, <1>3, <2>1, MetaType DEF ReloadInv, Procs
  <2>2. CASE p # "renewal"
    BY <1>0, <1>1, <1>2, <2>2 DEF ReloadInv, AloneInv, Procs
  <2> QED BY <2>1, <2>2
<1> QED BY <1>a, <1>b, <1>c, <1>e, <1>f, <1>g, <1>h, <1>i DEF CertInv

---------------------------------------------------------------------------
(* The process is gone: nothing is left of it but the files.               *)
LEMMA GoneStep ==
    ASSUME CertInv, Gone, UNCHANGED <<files, panel, metaLost, changes>>,
           news' \in BOOLEAN, told' \in Ids \cup {Absent}, faults' \in 0 .. MaxFaults
    PROVE  CertInv'
<1> USE CertAssumption
<1> USE DEF disk, files
<1>0. /\ CertTypeOK /\ IdInv /\ FlowInv /\ LifeInv /\ PairInv /\ ServeInv
      /\ AloneInv /\ PinInv /\ ReloadInv
  BY DEF CertInv
<1>1. /\ alive' = FALSE /\ starting' = FALSE /\ renewal' = FALSE
      /\ up' = FALSE /\ loaded' = Absent
      /\ \A q \in Procs : pc'[q] = "idle" /\ req'[q] = NoRequest
      /\ pairOk' = Steady
      /\ reloaded' = NoMeta /\ overlap' = FALSE /\ active' = active
  BY DEF Gone, Steady
<1>2. pc' \in [Procs -> PCs] /\ req' \in [Procs -> Request]
  BY NoRequestType DEF Gone, PCs
<1>a. CertTypeOK'
  <2>1. loaded' \in Contents /\ reloaded' \in Metadata
    BY <1>1, MetaType DEF Contents
  <2>2. pairOk' \in BOOLEAN
    BY <1>1 DEF Steady
  <2> QED BY <1>0, <1>1, <1>2, <2>1, <2>2 DEF CertTypeOK
<1>b. IdInv'
  <2>1. NoRequest.prev.cert = Absent /\ NoRequest.next.cert = Absent /\ NoRequest.own = Absent
    BY NoRequestType, MetaType
  <2>2. Absent <= issued
    BY <1>0, Numbers DEF Absent
  <2>3. ASSUME NEW q \in Procs PROVE Newer(q)'
    BY <1>1, <2>1, <2>2 DEF Newer, Writing
  <2> QED BY <1>0, <2>3 DEF IdInv
<1>c. FlowInv'
  BY <1>1, NoRequestType, MetaType DEF FlowInv, Flow
<1>d. LifeInv'
  BY <1>1 DEF LifeInv, Procs
<1>e. PairInv'
  BY <1>0, <1>1 DEF PairInv, PairMatches, Steady, Writing
<1>f. ServeInv' /\ AloneInv' /\ PinInv' /\ ReloadInv'
  BY <1>1 DEF ServeInv, AloneInv, PinInv, ReloadInv, Procs
<1> QED BY <1>a, <1>b, <1>c, <1>d, <1>e, <1>f DEF CertInv

(* A request ends, or goes on to its next step.                            *)
LEMMA DoneEffect ==
    ASSUME CertTypeOK, NEW p \in Procs, Done(p)
    PROVE  Typed /\ Others(p) /\ pc'[p] = "idle" /\ req'[p] = NoRequest
<1>1. req \in [Procs -> Request] /\ pc \in [Procs -> PCs]
  BY DEF CertTypeOK
<1>2. req' = [req EXCEPT ![p] = NoRequest] /\ pc' = [pc EXCEPT ![p] = "idle"]
  BY DEF Done, Set, Goto
<1> QED BY <1>1, <1>2, NoRequestType DEF Typed, Others, PCs

(* The request goes on.                                                    *)
LEMMA GotoEffect ==
    ASSUME CertTypeOK, NEW p \in Procs, NEW l \in PCs, Goto(p, l), UNCHANGED req
    PROVE  Typed /\ Others(p) /\ pc'[p] = l /\ req'[p] = req[p]
BY DEF CertTypeOK, Goto, Typed, Others

(* What a step keeps that moves one task outside of the writes.            *)
LEMMA MoveKeeps ==
    ASSUME CertInv, NEW p \in Procs, Others(p),
           pc[p] \notin Writing, pc'[p] \in {"idle", "read", "del", "add"},
           req'[p] = req[p] \/ req'[p] = NoRequest, Flow(p)',
           UNCHANGED <<issued, certFile, keyFile, meta, pairOk>>
    PROVE  /\ IdInv' /\ FlowInv' /\ PairInv' /\ (Steady' => Steady)
           /\ \A q \in Procs \ {p} : pc'[q] = pc[q] /\ req'[q] = req[q]
<1>0. CertTypeOK /\ IdInv /\ FlowInv /\ PairInv
  BY DEF CertInv
<1>1. \A q \in Procs \ {p} : pc'[q] = pc[q] /\ req'[q] = req[q]
  BY DEF Others
<1>2. ASSUME NEW q \in Procs \ {p} PROVE Newer(q)' /\ Flow(q)'
  BY <1>0, <1>1, OtherKept
<1>3. Newer(p)'
  <2>1. NoRequest.prev.cert = Absent /\ NoRequest.next.cert = Absent /\ NoRequest.own = Absent
    BY NoRequestType, MetaType
  <2>2. Absent <= issued
    BY <1>0, Numbers DEF Absent
  <2>3. Newer(p)
    BY <1>0 DEF IdInv
  <2> QED BY <2>1, <2>2, <2>3 DEF Newer, Writing
<1>4. pc'[p] \notin Writing
  BY DEF Writing
<1>5. Steady' => Steady
  BY <1>1, <1>4 DEF Steady
<1>6. PairInv'
  <2>1. PairMatches' /\ (Steady' => certFile' # Torn)
    BY <1>0, <1>5 DEF PairInv, PairMatches, Steady
  <2>2. ASSUME NEW q \in Procs, pc'[q] \in Writing, req'[q].clean
        PROVE  /\ pc'[Other(q)] \notin Writing
               /\ pc'[q] \in {"truncKey", "writeKey"} => certFile' = req'[q].own
    <3>1. q # p /\ Other(q) = p
      BY <1>4, <2>2 DEF Procs, Other
    <3> QED BY <1>0, <1>1, <1>4, <2>2, <3>1 DEF PairInv
  <2> QED BY <2>1, <2>2 DEF PairInv
<1> QED BY <1>0, <1>1, <1>2, <1>3, <1>5, <1>6 DEF IdInv, FlowInv

(* A request that has ended is as before the first.                        *)
LEMMA DoneFlow ==
    ASSUME NEW p \in Procs, pc'[p] = "idle", req'[p] = NoRequest PROVE Flow(p)'
BY NoRequestType, MetaType DEF Flow

---------------------------------------------------------------------------
(* The end of requestCertAndReport: the report arrives, or it is lost.     *)
Reports(p) ==
    /\ pc[p] = "report"
    /\ \/ /\ told' = IF req[p].next = NoMeta THEN told ELSE req[p].next.cert
          /\ faults' = faults
       \/ told' = told /\ faults < MaxFaults /\ faults' = faults + 1
    /\ UNCHANGED <<issued, certs, certFile, keyFile, meta, account, panel, news, changes>>

(* What was reported is what the request found, unless the report was lost.*)
LEMMA ReportFacts ==
    ASSUME CertInv, NEW p \in Procs, Reports(p)
    PROVE  /\ told' \in Ids \cup {Absent} /\ faults' \in 0 .. MaxFaults /\ alive
           /\ ~overlap => /\ \A q \in Procs \ {p} : pc[q] = "idle"
                          /\ req[p].cfg = active
           /\ faults' = 0 => /\ faults = 0
                             /\ told' = IF req[p].next = NoMeta THEN told ELSE req[p].next.cert
           /\ faults' = 0 /\ ~overlap /\ Tls(active) =>
                 told' = IF req[p].failed THEN Absent ELSE certFile
<1> USE CertAssumption
<1>0. /\ CertTypeOK /\ FlowInv /\ LifeInv /\ AloneInv /\ PinInv
  BY DEF CertInv
<1>1. /\ pc[p] = "report"
      /\ \/ /\ told' = IF req[p].next = NoMeta THEN told ELSE req[p].next.cert
            /\ faults' = faults
         \/ told' = told /\ faults < MaxFaults /\ faults' = faults + 1
  BY DEF Reports
<1>2. told' \in Ids \cup {Absent}
  <2>1. told \in Ids \cup {Absent} /\ req[p].next \in Metadata
    BY <1>0, RequestType DEF CertTypeOK
  <2>2. req[p].next.cert \in Ids \cup {Absent}
    BY <2>1 DEF Metadata
  <2> QED BY <1>1, <2>1, <2>2
<1>3. /\ faults' \in 0 .. MaxFaults
      /\ faults' = 0 => /\ faults = 0
                        /\ told' = IF req[p].next = NoMeta THEN told ELSE req[p].next.cert
  <2>1. faults \in 0 .. MaxFaults
    BY <1>0 DEF CertTypeOK
  <2>2. faults' = faults \/ (faults < MaxFaults /\ faults' = faults + 1)
    BY <1>1
  <2>3. faults' \in 0 .. MaxFaults /\ (faults' = 0 => faults' = faults)
    BY <2>1, <2>2
  <2>4. faults + 1 # faults
    BY <2>1
  <2> QED BY <1>1, <2>3, <2>4
<1>4. alive
  BY <1>0, <1>1 DEF LifeInv
<1>5. ~overlap => /\ \A q \in Procs \ {p} : pc[q] = "idle"
                  /\ req[p].cfg = active
  BY <1>0, <1>1 DEF AloneInv, Procs
<1>6. ASSUME faults' = 0, ~overlap, Tls(active)
      PROVE  told' = IF req[p].failed THEN Absent ELSE certFile
  <2>1. Flow(p) /\ Tls(req[p].cfg)
    BY <1>0, <1>5, <1>6 DEF FlowInv
  <2>2. CASE req[p].failed
    <3>1. req[p].next = MetaOf(req[p].cfg, Absent, "")
      BY <2>1, <2>2 DEF Flow
    <3>2. /\ MetaOf(req[p].cfg, Absent, "").cert = Absent
          /\ MetaOf(req[p].cfg, Absent, "").mode # "" /\ NoMeta.mode = ""
      BY <2>1 DEF MetaOf, NoMeta, Tls
    <3>3. req[p].next.cert = Absent /\ req[p].next # NoMeta
      BY <3>1, <3>2, Zenon
    <3> QED BY <1>3, <1>6, <2>2, <3>3
  <2>3. CASE ~req[p].failed
    <3>1. req[p].next.cert = certFile
      BY <1>0, <1>1, <1>3, <1>6, <2>3 DEF PinInv
    <3>2. req[p].next.cert # Absent /\ NoMeta.cert = Absent
      BY <1>1, <2>1, <2>3, MetaType DEF Flow
    <3> QED BY <1>3, <1>6, <2>3, <3>1, <3>2
  <2> QED BY <2>2, <2>3
<1> QED BY <1>2, <1>3, <1>4, <1>5, <1>6

(* The renewal, or a reload of the monitor, returns with nothing to do.    *)
LEMMA ReportDone ==
    ASSUME CertInv, NEW p \in Procs, Reports(p), Done(p), UNCHANGED <<node, history>>,
           req[p].failed \/ (p = "renewal" /\ ~Changed(req[p]))
    PROVE  CertInv'
<1> USE CertAssumption
<1> USE DEF node, history
<1>0. /\ CertTypeOK /\ IdInv /\ FlowInv /\ LifeInv /\ PairInv /\ ServeInv
      /\ AloneInv /\ PinInv /\ ReloadInv
  BY DEF CertInv
<1>1. Typed /\ Others(p) /\ pc'[p] = "idle" /\ req'[p] = NoRequest
  BY <1>0, DoneEffect
<1>2. /\ pc[p] = "report"
      /\ UNCHANGED <<issued, certs, certFile, keyFile, meta, account, panel, news, changes>>
  BY DEF Reports
<1>3. /\ told' \in Ids \cup {Absent} /\ faults' \in 0 .. MaxFaults /\ alive
      /\ faults' = 0 /\ ~overlap /\ Tls(active) => told' \in {certFile, Absent}
  BY ReportFacts
<1>4. /\ IdInv' /\ FlowInv' /\ PairInv' /\ (Steady' => Steady)
      /\ \A q \in Procs \ {p} : pc'[q] = pc[q] /\ req'[q] = req[q]
  BY <1>1, <1>2, MoveKeeps, DoneFlow DEF Writing
<1>a. CertTypeOK'
  BY <1>0, <1>1, <1>2, <1>3 DEF CertTypeOK, Typed
<1>b. LifeInv'
  BY <1>0, <1>1, <1>3, <1>4 DEF LifeInv, Procs
<1>c. ServeInv'
  <2>1. p = "renewal" => ~RenewalReloads
    <3>1. NoMeta.cert = Absent
      BY MetaType
    <3>2. p = "renewal" /\ ~req[p].failed => req[p].next = NoMeta \/ req[p].next = req[p].prev
      BY DEF Changed
    <3> QED BY <1>2, <3>1, <3>2 DEF RenewalReloads
  <2>2. p = "monitor" => ~MonitorAdds
    BY DEF MonitorAdds
  <2>3. RenewalReloads /\ p # "renewal" => RenewalReloads'
    BY <1>2, <1>4 DEF RenewalReloads, Procs
  <2>4. MonitorAdds /\ p # "monitor" => MonitorAdds'
    BY <1>4 DEF MonitorAdds, Procs
  <2> QED BY <1>0, <1>2, <1>4, <2>1, <2>2, <2>3, <2>4 DEF ServeInv, Tls, Procs
<1>d. AloneInv'
  BY <1>0, <1>1, <1>4 DEF AloneInv, Procs
<1>e. PinInv'
  <2>1. ~overlap => \A q \in Procs : pc'[q] = "idle"
    BY <1>1, <1>4, ReportFacts
  <2>2. faults' = 0 /\ ~overlap /\ Tls(active) => Agreed'
    BY <1>2, <1>3 DEF Agreed
  <2> QED BY <2>1, <2>2 DEF PinInv, Tls
<1>f. ReloadInv'
  <2>1. CASE p = "renewal"
    <3>1. pc'["renewal"] = "idle" /\ pc'["monitor"] = pc["monitor"]
      BY <1>1, <1>4, <2>1 DEF Procs
    <3>2. ASSUME reloaded # NoMeta, active.mode # "file", up PROVE meta = reloaded
      <4>1. /\ req["renewal"].prev = reloaded
            /\ \/ meta = reloaded
               \/ ~req["renewal"].failed /\ meta = req["renewal"].next /\ meta # NoMeta
        BY <1>0, <1>2, <2>1, <3>2 DEF ReloadInv
      <4> QED BY <2>1, <4>1 DEF Changed
    <3> QED BY <1>0, <1>2, <3>1, <3>2 DEF ReloadInv
  <2>2. CASE p # "renewal"
    <3>1. /\ p = "monitor" /\ pc'["renewal"] = pc["renewal"]
          /\ req'["renewal"] = req["renewal"] /\ reloaded = NoMeta
      BY <1>0, <1>2, <1>4, <2>2 DEF Procs, ReloadInv
    <3> QED BY <1>0, <1>2, <3>1 DEF ReloadInv
  <2> QED BY <2>1, <2>2
<1> QED BY <1>4, <1>a, <1>b, <1>c, <1>d, <1>e, <1>f DEF CertInv

(* The monitor goes on to AddNode, the renewal to its reload.              *)
LEMMA ReportGoesOn ==
    ASSUME CertInv, NEW p \in Procs, Reports(p), ~req[p].failed,
           UNCHANGED <<node, req, history>>,
           \/ p = "monitor" /\ Goto(p, "add")
           \/ p = "renewal" /\ Changed(req[p]) /\ Goto(p, "del")
    PROVE  CertInv'
<1> USE CertAssumption
<1> USE DEF node, history
<1>0. /\ CertTypeOK /\ IdInv /\ FlowInv /\ LifeInv /\ PairInv /\ ServeInv
      /\ AloneInv /\ PinInv /\ ReloadInv
  BY DEF CertInv
<1>1. /\ Typed /\ Others(p) /\ req'[p] = req[p]
      /\ \/ p = "monitor" /\ pc'[p] = "add"
         \/ p = "renewal" /\ pc'[p] = "del" /\ Changed(req[p])
  BY <1>0, GotoEffect DEF PCs
<1>2. /\ pc[p] = "report"
      /\ UNCHANGED <<issued, certs, certFile, keyFile, meta, account, panel, news, changes>>
  BY DEF Reports
<1>3. /\ told' \in Ids \cup {Absent} /\ faults' \in 0 .. MaxFaults /\ alive
      /\ faults' = 0 /\ ~overlap /\ Tls(active) => told' = certFile
  BY ReportFacts
<1>4. Flow(p)'
  <2>1. Flow(p)
    BY <1>0 DEF FlowInv
  <2>2. Changed(req[p]) => req[p].next # NoMeta
    BY DEF Changed
  <2>3. Changed(req[p])' <=> Changed(req[p])
    BY <1>1 DEF Changed
  <2> QED BY <1>1, <1>2, <2>1, <2>2, <2>3 DEF Flow, Tls
<1>5. /\ IdInv' /\ FlowInv' /\ PairInv' /\ (Steady' => Steady)
      /\ \A q \in Procs \ {p} : pc'[q] = pc[q] /\ req'[q] = req[q]
  BY <1>1, <1>2, <1>4, MoveKeeps DEF Writing
<1>a. CertTypeOK'
  BY <1>0, <1>1, <1>2, <1>3 DEF CertTypeOK, Typed
<1>b. LifeInv'
  BY <1>0, <1>1, <1>2, <1>3, <1>5 DEF LifeInv, Procs
<1>c. ServeInv'
  <2>1. RenewalReloads => RenewalReloads'
    BY <1>1, <1>2, <1>5 DEF RenewalReloads, Procs
  <2>2. MonitorAdds => MonitorAdds'
    BY <1>1, <1>5 DEF MonitorAdds, Procs
  <2> QED BY <1>0, <1>2, <1>5, <2>1, <2>2 DEF ServeInv, Tls
<1>d. AloneInv'
  BY <1>0, <1>1, <1>2, <1>5 DEF AloneInv, Procs
<1>e. PinInv'
  <2>1. ~overlap => \A q \in Procs \ {p} : pc'[q] = "idle"
    BY <1>5, ReportFacts
  <2>2. faults' = 0 /\ ~overlap /\ Tls(active) => Agreed'
    BY <1>2, <1>3 DEF Agreed
  <2>3. ~Quiet' /\ pc'[p] \in {"add", "del"}
    BY <1>1 DEF Quiet
  <2> QED BY <2>1, <2>2, <2>3 DEF PinInv, Tls
<1>f. ReloadInv'
  <2>1. CASE p = "renewal"
    <3>1. /\ pc'["renewal"] = "del" /\ pc["renewal"] = "report"
          /\ pc'["monitor"] = pc["monitor"] /\ req'["renewal"] = req["renewal"]
      BY <1>1, <1>2, <1>5, <2>1 DEF Procs
    <3> QED BY <1>0, <1>2, <3>1 DEF ReloadInv
  <2>2. CASE p # "renewal"
    <3>1. /\ p = "monitor" /\ pc'["renewal"] = pc["renewal"]
          /\ req'["renewal"] = req["renewal"] /\ reloaded = NoMeta
      BY <1>0, <1>2, <1>5, <2>2 DEF Procs, ReloadInv
    <3> QED BY <1>0, <1>2, <3>1 DEF ReloadInv
  <2> QED BY <2>1, <2>2
<1> QED BY <1>5, <1>a, <1>b, <1>c, <1>d, <1>e, <1>f DEF CertInv

(* The invariant is kept by the report and by what follows from it.        *)
LEMMA ReportStep ==
    ASSUME CertInv, NEW p \in Procs, Report(p) \/ ReportLost(p)
    PROVE  CertInv'
<1>1. Reports(p) /\ Return(p)
  BY DEF Report, ReportLost, Reports, files, disk, bounds
<1>2. CASE Gone /\ UNCHANGED metaLost
  <2>1. /\ told' \in Ids \cup {Absent} /\ faults' \in 0 .. MaxFaults
    BY <1>1, ReportFacts
  <2>2. UNCHANGED <<files, panel, changes>> /\ news' = news
    BY <1>1 DEF Reports, files, disk
  <2>3. news \in BOOLEAN
    BY DEF CertInv, CertTypeOK
  <2> QED BY <1>2, <2>1, <2>2, <2>3, GoneStep
<1>3. CASE /\ Done(p) /\ UNCHANGED <<node, history>>
           /\ req[p].failed \/ (p = "renewal" /\ ~Changed(req[p]))
  BY <1>1, <1>3, ReportDone
<1>4. CASE /\ ~req[p].failed /\ UNCHANGED <<node, req, history>>
           /\ \/ p = "monitor" /\ Goto(p, "add")
              \/ p = "renewal" /\ Changed(req[p]) /\ Goto(p, "del")
  BY <1>1, <1>4, ReportGoesOn
<1> QED BY <1>1, <1>2, <1>3, <1>4 DEF Return

---------------------------------------------------------------------------
(* A core loads the pair of the files when they hold one.                  *)
LEMMA LoadsPair ==
    /\ CertTypeOK => Loads(active) \subseteq Contents
    /\ CertTypeOK /\ PairInv /\ Steady /\ Tls(active) /\ certFile # Absent
          => Loads(active) = {certFile} /\ certFile # Torn
<1>1. CertTypeOK => Loads(active) \subseteq Contents
  BY DEF CertTypeOK, Loads, Contents
<1>2. ASSUME CertTypeOK, PairInv, Steady, Tls(active), certFile # Absent
      PROVE  Loads(active) = {certFile} /\ certFile # Torn
  <2>1. certFile = keyFile /\ certFile # Torn /\ certFile \in Contents
    BY <1>2 DEF PairInv, PairMatches, Steady, CertTypeOK
  <2> QED BY <1>2, <2>1 DEF Loads, Tls, Contents
<1> QED BY <1>1, <1>2

(* AddNode of the monitor.                                                 *)
LEMMA AddNodeStep ==
    ASSUME CertInv, AddNode PROVE CertInv'
<1> USE CertAssumption
<1> USE DEF disk, files, bounds, history
<1>0. /\ CertTypeOK /\ IdInv /\ FlowInv /\ LifeInv /\ PairInv /\ ServeInv
      /\ AloneInv /\ PinInv /\ ReloadInv
  BY DEF CertInv
<1> DEFINE p == "monitor"
<1>1. /\ pc[p] = "add" /\ Done(p) /\ up' = TRUE /\ loaded' \in Loads(active)
      /\ starting' = FALSE /\ renewal' \in BOOLEAN
      /\ UNCHANGED <<issued, certs, certFile, keyFile, meta, account, panel, news, active,
                     alive, told, faults, changes, pairOk, metaLost, reloaded, overlap>>
  BY <1>0 DEF AddNode, CertTypeOK
<1>2. p \in Procs /\ Typed /\ Others(p) /\ pc'[p] = "idle" /\ req'[p] = NoRequest
  BY <1>0, <1>1, DoneEffect DEF Procs
<1>3. /\ IdInv' /\ FlowInv' /\ PairInv' /\ (Steady' => Steady)
      /\ pc'["renewal"] = pc["renewal"] /\ req'["renewal"] = req["renewal"]
  BY <1>1, <1>2, MoveKeeps, DoneFlow DEF Writing, Procs
<1>4. alive /\ req[p].cfg = active /\ reloaded = NoMeta
  BY <1>0, <1>1, <1>2 DEF LifeInv, ReloadInv
<1>5. Tls(active) => certFile # Absent
  BY <1>0, <1>1, <1>2, <1>4 DEF FlowInv, Flow
<1>a. CertTypeOK'
  <2>1. loaded' \in Contents
    BY <1>0, <1>1, LoadsPair
  <2> QED BY <1>0, <1>1, <1>2, <2>1 DEF CertTypeOK, Typed
<1>b. LifeInv'
  BY <1>1, <1>2, <1>4 DEF LifeInv
<1>c. ServeInv'
  <2>1. ASSUME Tls(active), Steady PROVE loaded' = certFile
    BY <1>0, <1>1, <1>5, <2>1, LoadsPair
  <2> QED BY <1>1, <1>3, <1>5, <2>1 DEF ServeInv, Tls
<1>d. AloneInv'
  BY <1>0, <1>1, <1>2, <1>3 DEF AloneInv, Procs
<1>e. PinInv'
  <2>1. ~overlap => \A q \in Procs : pc'[q] = "idle"
    BY <1>0, <1>1, <1>2, <1>3 DEF AloneInv, Procs
  <2>2. faults = 0 /\ ~overlap /\ Tls(active) => Agreed
    BY <1>0, <1>1, <1>2 DEF PinInv
  <2> QED BY <1>1, <2>1, <2>2 DEF PinInv, Tls, Agreed
<1>f. ReloadInv'
  BY <1>0, <1>1, <1>3, <1>4 DEF ReloadInv
<1> QED BY <1>3, <1>a, <1>b, <1>c, <1>d, <1>e, <1>f DEF CertInv

(* A node that is not added ends the process.                              *)
LEMMA RefusedStep ==
    ASSUME CertInv, AddNodeRefused \/ Crash PROVE CertInv'
<1>1. /\ CertTypeOK /\ MaxFaults \in Nat
  BY CertAssumption DEF CertInv
<1>2. faults' = faults \/ (faults < MaxFaults /\ faults' = faults + 1)
  BY DEF AddNodeRefused, Crash, bounds
<1>3. faults' \in 0 .. MaxFaults
  <2>1. faults \in 0 .. MaxFaults
    BY <1>1 DEF CertTypeOK
  <2> QED BY <1>1, <1>2, <2>1
<1>4. news' \in BOOLEAN /\ told' \in Ids \cup {Absent}
  BY <1>1 DEF CertTypeOK, AddNodeRefused, Crash
<1>5. Gone /\ UNCHANGED <<files, panel, metaLost, changes>>
  BY DEF AddNodeRefused, Crash, bounds
<1> QED BY <1>3, <1>4, <1>5, GoneStep

(* The renewal takes the node out of the core.                             *)
LEMMA ReloadDelStep ==
    ASSUME CertInv, ReloadDel PROVE CertInv'
<1> USE CertAssumption
<1> USE DEF disk, files, bounds, history
<1>0. /\ CertTypeOK /\ IdInv /\ FlowInv /\ LifeInv /\ PairInv /\ ServeInv
      /\ AloneInv /\ PinInv /\ ReloadInv
  BY DEF CertInv
<1> DEFINE p == "renewal"
<1>1. /\ pc[p] = "del" /\ p \in Procs /\ up' = FALSE
      /\ UNCHANGED <<issued, certs, certFile, keyFile, meta, account, panel, news, active,
                     alive, starting, renewal, told, faults, changes, pairOk, metaLost,
                     overlap>>
      /\ \/ /\ loaded' = Absent /\ Goto(p, "add") /\ UNCHANGED req
            /\ reloaded' = IF metaLost \/ overlap THEN NoMeta ELSE req[p].next
         \/ Done(p) /\ UNCHANGED <<loaded, reloaded>>
  <2>1. up \in BOOLEAN
    BY <1>0 DEF CertTypeOK
  <2> QED BY <2>1 DEF ReloadDel, Procs
<1>2. /\ Typed /\ Others(p)
      /\ \/ /\ pc'[p] = "add" /\ req'[p] = req[p] /\ loaded' = Absent
            /\ reloaded' = IF metaLost \/ overlap THEN NoMeta ELSE req[p].next
         \/ /\ pc'[p] = "idle" /\ req'[p] = NoRequest /\ UNCHANGED <<loaded, reloaded>>
  BY <1>0, <1>1, DoneEffect, GotoEffect DEF PCs
<1>3. Flow(p) /\ req[p].next.cert # Absent /\ ~req[p].failed /\ req[p].next # NoMeta
      /\ Tls(req[p].cfg)
  BY <1>0, <1>1, MetaType DEF FlowInv, Flow
<1>4. Flow(p)'
  <2>1. CASE pc'[p] = "add" /\ req'[p] = req[p]
    BY <1>1, <1>3, <2>1 DEF Flow, Tls
  <2>2. CASE pc'[p] = "idle" /\ req'[p] = NoRequest
    BY <1>1, <2>2, DoneFlow
  <2> QED BY <1>2, <2>1, <2>2
<1>5. /\ IdInv' /\ FlowInv' /\ PairInv'
      /\ pc'["monitor"] = pc["monitor"] /\ req'["monitor"] = req["monitor"]
  BY <1>1, <1>2, <1>4, MoveKeeps DEF Writing, Procs
<1>6. alive
  BY <1>0, <1>1 DEF LifeInv
<1>7. ~overlap => pc["monitor"] = "idle" /\ req[p].cfg = active
  BY <1>0, <1>1 DEF AloneInv
<1>a. CertTypeOK'
  <2>1. loaded' \in Contents
    BY <1>0, <1>2 DEF CertTypeOK, Contents
  <2>2. reloaded' \in Metadata
    <3>1. NoMeta \in Metadata
      BY MetaType
    <3>2. req[p].next \in Metadata /\ reloaded \in Metadata
      BY <1>0, <1>1, RequestType DEF CertTypeOK
    <3> QED BY <1>2, <3>1, <3>2
  <2> QED BY <1>0, <1>1, <1>2, <2>1, <2>2 DEF CertTypeOK, Typed
<1>b. LifeInv'
  BY <1>0, <1>1, <1>5, <1>6 DEF LifeInv
<1>c. ServeInv'
  BY <1>1 DEF ServeInv
<1>d. AloneInv'
  BY <1>0, <1>1, <1>2, <1>5 DEF AloneInv, Procs
<1>e. PinInv'
  <2>1. faults = 0 /\ ~overlap /\ Tls(active) => Agreed
    BY <1>0, <1>1 DEF PinInv
  <2> QED BY <1>1, <1>2, <1>5, <1>7, <2>1 DEF PinInv, Tls, Agreed, Procs
<1>f. ReloadInv'
  <2>1. CASE pc'[p] = "add" /\ reloaded' = IF metaLost \/ overlap THEN NoMeta ELSE req[p].next
    <3>1. ASSUME reloaded' # NoMeta
          PROVE  /\ ~metaLost /\ ~overlap /\ reloaded' = req[p].next
                 /\ pc["monitor"] = "idle" /\ req[p].cfg = active
      BY <1>7, <2>1, <3>1
    <3>2. ASSUME reloaded' # NoMeta, active.mode # "file" PROVE meta = reloaded'
      BY <1>0, <1>1, <1>3, <3>1, <3>2 DEF ReloadInv
    <3>3. req'[p] = req[p]
      BY <1>2, <2>1
    <3> QED BY <1>1, <1>5, <2>1, <3>1, <3>2, <3>3 DEF ReloadInv
  <2>2. CASE pc'[p] = "idle" /\ reloaded' = reloaded
    BY <1>0, <1>1, <1>5, <2>2 DEF ReloadInv
  <2> QED BY <1>2, <2>1, <2>2
<1> QED BY <1>5, <1>a, <1>b, <1>c, <1>d, <1>e, <1>f DEF CertInv

(* The renewal puts it back, or the core refuses the pair.                 *)
LEMMA ReloadAddStep ==
    ASSUME CertInv, ReloadAdd PROVE CertInv'
<1> USE CertAssumption
<1> USE DEF disk, files, bounds, history
<1>0. /\ CertTypeOK /\ IdInv /\ FlowInv /\ LifeInv /\ PairInv /\ ServeInv
      /\ AloneInv /\ PinInv /\ ReloadInv
  BY DEF CertInv
<1> DEFINE p == "renewal"
<1>1. /\ pc[p] = "add" /\ p \in Procs /\ Done(p)
      /\ \/ up' = TRUE /\ loaded' \in Loads(active)
         \/ Torn \in Loads(active) /\ UNCHANGED <<up, loaded>>
      /\ UNCHANGED <<issued, certs, certFile, keyFile, meta, account, panel, news, active,
                     alive, starting, renewal, told, faults, changes, pairOk, metaLost,
                     reloaded, overlap>>
  BY DEF ReloadAdd, Procs
<1>2. Typed /\ Others(p) /\ pc'[p] = "idle" /\ req'[p] = NoRequest
  BY <1>0, <1>1, DoneEffect
<1>3. /\ IdInv' /\ FlowInv' /\ PairInv' /\ (Steady' => Steady)
      /\ pc'["monitor"] = pc["monitor"] /\ req'["monitor"] = req["monitor"]
  BY <1>1, <1>2, MoveKeeps, DoneFlow DEF Writing, Procs
<1>4. alive
  BY <1>0, <1>1 DEF LifeInv
<1>5. certFile # Absent
  BY <1>0, <1>1 DEF FlowInv, Flow
<1>a. CertTypeOK'
  <2>1. loaded' \in Contents /\ up' \in BOOLEAN
    BY <1>0, <1>1, LoadsPair DEF CertTypeOK
  <2> QED BY <1>0, <1>1, <1>2, <2>1 DEF CertTypeOK, Typed
<1>b. LifeInv'
  BY <1>0, <1>1, <1>3, <1>4 DEF LifeInv
<1>c. ServeInv'
  <2>1. ASSUME Tls(active), Steady PROVE loaded' = certFile
    BY <1>0, <1>1, <1>5, <2>1, LoadsPair
  <2> QED BY <1>1, <1>3, <1>5, <2>1 DEF ServeInv, Tls
<1>d. AloneInv'
  BY <1>0, <1>1, <1>2, <1>3 DEF AloneInv, Procs
<1>e. PinInv'
  <2>1. ~overlap => \A q \in Procs : pc'[q] = "idle"
    BY <1>0, <1>1, <1>2, <1>3 DEF AloneInv, Procs
  <2>2. faults = 0 /\ ~overlap /\ Tls(active) => Agreed
    BY <1>0, <1>1 DEF PinInv
  <2> QED BY <1>1, <2>1, <2>2 DEF PinInv, Tls, Agreed
<1>f. ReloadInv'
  BY <1>0, <1>1, <1>2, <1>3 DEF ReloadInv
<1> QED BY <1>3, <1>a, <1>b, <1>c, <1>d, <1>e, <1>f DEF CertInv

---------------------------------------------------------------------------
(* The configuration of a node is one, whatever the panel sends.           *)
LEMMA EffectiveType ==
    ASSUME panel \in PanelConfigs PROVE Effective(panel) \in CertConfig
<1>1. panel \in PanelConfig /\ Local \in CertConfig
  BY CertAssumption
<1>2. /\ panel.mode \in Modes /\ panel.target \in Targets /\ panel.paths \in Paths
      /\ panel.dns \in BOOLEAN /\ panel.fallback \in BOOLEAN
      /\ Local.mode \in Modes /\ Local.target \in Targets /\ Local.paths \in Paths
      /\ Local.dns \in BOOLEAN /\ Local.fallback \in BOOLEAN
  BY <1>1 DEF PanelConfig, CertConfig, Paths
<1> DEFINE base == IF panel.mode = "" THEN Local ELSE panel
<1>3. /\ base.mode \in Modes /\ base.target \in Targets /\ base.paths \in Paths
      /\ base.dns \in BOOLEAN
  BY <1>2
<1>4. (IF panel.fallbackSet THEN panel.fallback ELSE Local.fallback) \in BOOLEAN
  BY <1>2
<1>5. Effective(panel) = [mode |-> base.mode, target |-> base.target,
                          paths |-> base.paths, dns |-> base.dns,
                          fallback |-> IF panel.fallbackSet THEN panel.fallback
                                       ELSE Local.fallback]
  BY DEF Effective
<1> HIDE DEF base
<1> QED BY <1>3, <1>4, <1>5 DEF CertConfig

(* A request that has not read its configuration has no result yet.        *)
LEMMA BeginFlow ==
    ASSUME CertInv, NEW p \in Procs, pc[p] = "idle", pc'[p] = "read", req'[p] = req[p],
           certFile' = certFile
    PROVE  Flow(p)'
<1>1. Flow(p)
  BY DEF CertInv, FlowInv
<1> QED BY <1>1, MetaType DEF Flow, Tls

(* Controller.Start, and nodeInfoMonitor with a new configuration.         *)
LEMMA MonitorBegins ==
    ASSUME CertInv, StartController \/ (ReloadNode /\ up)
    PROVE  CertInv'
<1> USE CertAssumption
<1> USE DEF disk, files, bounds, history
<1>0. /\ CertTypeOK /\ IdInv /\ FlowInv /\ LifeInv /\ PairInv /\ ServeInv
      /\ AloneInv /\ PinInv /\ ReloadInv
  BY DEF CertInv
<1> DEFINE p == "monitor"
<1>1. /\ pc[p] = "idle" /\ p \in Procs /\ Goto(p, "read") /\ active' = Effective(panel)
      /\ alive' = TRUE /\ up' = FALSE /\ reloaded' = NoMeta
      /\ ~overlap' => pc["renewal"] = "idle"
      /\ UNCHANGED <<issued, certs, certFile, keyFile, meta, account, panel, req, told,
                     faults, changes, pairOk, metaLost>>
  BY <1>0 DEF StartController, ReloadNode, LifeInv, Procs, CertTypeOK
<1>2. Typed /\ Others(p) /\ pc'[p] = "read" /\ req'[p] = req[p]
  BY <1>0, <1>1, GotoEffect DEF PCs
<1>3. /\ IdInv' /\ FlowInv' /\ PairInv'
      /\ pc'["renewal"] = pc["renewal"] /\ req'["renewal"] = req["renewal"]
  BY <1>1, <1>2, MoveKeeps, BeginFlow DEF Writing, Procs
<1>a. CertTypeOK'
  <2>1. active' \in CertConfig /\ reloaded' \in Metadata
    BY <1>0, <1>1, EffectiveType, MetaType DEF CertTypeOK
  <2>2. loaded' \in Contents
    BY <1>0 DEF CertTypeOK, StartController, ReloadNode, Contents
  <2>3. /\ starting' \in BOOLEAN /\ news' \in BOOLEAN /\ renewal' \in BOOLEAN
        /\ overlap' \in BOOLEAN
    BY <1>0 DEF CertTypeOK, StartController, ReloadNode
  <2> QED BY <1>0, <1>1, <1>2, <2>1, <2>2, <2>3 DEF CertTypeOK, Typed
<1>b. LifeInv' /\ ServeInv'
  BY <1>1, <1>2 DEF LifeInv, ServeInv
<1>c. AloneInv' /\ PinInv'
  BY <1>1, <1>2, <1>3 DEF AloneInv, PinInv, Quiet, Procs
<1>d. ReloadInv'
  BY <1>1, <1>3 DEF ReloadInv
<1> QED BY <1>3, <1>a, <1>b, <1>c, <1>d DEF CertInv

(* renewCertTask.                                                          *)
LEMMA RenewalBegins ==
    ASSUME CertInv, RenewBegins PROVE CertInv'
<1> USE CertAssumption
<1> USE DEF disk, files, bounds, history
<1>0. /\ CertTypeOK /\ IdInv /\ FlowInv /\ LifeInv /\ PairInv /\ ServeInv
      /\ AloneInv /\ PinInv /\ ReloadInv
  BY DEF CertInv
<1> USE DEF node
<1> DEFINE p == "renewal"
<1>1. /\ pc[p] = "idle" /\ p \in Procs /\ Goto(p, "read") /\ renewal
      /\ overlap' = (pc["monitor"] # "idle")
      /\ UNCHANGED <<issued, certs, certFile, keyFile, meta, account, panel, news, active,
                     alive, starting, renewal, up, loaded, req, told, faults, changes,
                     pairOk, metaLost, reloaded>>
  BY DEF RenewBegins, Procs
<1>2. Typed /\ Others(p) /\ pc'[p] = "read" /\ req'[p] = req[p]
  BY <1>0, <1>1, GotoEffect DEF PCs
<1>3. /\ IdInv' /\ FlowInv' /\ PairInv' /\ (Steady' => Steady)
      /\ pc'["monitor"] = pc["monitor"] /\ req'["monitor"] = req["monitor"]
  BY <1>1, <1>2, MoveKeeps, BeginFlow DEF Writing, Procs
<1>4. alive
  BY <1>0, <1>1 DEF LifeInv
<1>a. CertTypeOK'
  BY <1>0, <1>1, <1>2 DEF CertTypeOK, Typed
<1>b. LifeInv'
  BY <1>0, <1>1, <1>3, <1>4 DEF LifeInv
<1>c. ServeInv'
  <2>1. ~RenewalReloads /\ (MonitorAdds => MonitorAdds')
    BY <1>1, <1>3 DEF RenewalReloads, MonitorAdds
  <2> QED BY <1>0, <1>1, <1>3, <2>1 DEF ServeInv, Tls
<1>d. AloneInv' /\ PinInv'
  BY <1>1, <1>2, <1>3 DEF AloneInv, PinInv, Quiet, Procs
<1>e. ReloadInv'
  BY <1>0, <1>1, <1>2, <1>3 DEF ReloadInv
<1> QED BY <1>3, <1>a, <1>b, <1>c, <1>d, <1>e DEF CertInv

(* What neither task does.                                                 *)
LEMMA OutsideStep ==
    ASSUME CertInv, SetConfig \/ Age \/ UNCHANGED certVars PROVE CertInv'
<1> USE CertAssumption
<1> USE DEF disk, files, bounds, history
<1>0. /\ CertTypeOK /\ IdInv /\ FlowInv /\ LifeInv /\ PairInv /\ ServeInv
      /\ AloneInv /\ PinInv /\ ReloadInv
  BY DEF CertInv
<1> USE DEF node
<1>1. UNCHANGED <<issued, certFile, keyFile, meta, account, active, alive, starting,
                  renewal, up, loaded, pc, req, told, faults, pairOk, metaLost, reloaded,
                  overlap>>
  BY DEF SetConfig, Age, certVars
<1>2. certs' \in [Ids -> Certificate]
  <2>1. certs \in [Ids -> Certificate]
    BY <1>0 DEF CertTypeOK
  <2>2. CASE Age
    <3>1. ASSUME NEW i \in Ids
          PROVE  (IF certs[i].ca /\ certs[i].left > 0
                  THEN [certs[i] EXCEPT !.left = @ - 1] ELSE certs[i]) \in Certificate
      BY <2>1 DEF Certificate
    <3> QED BY <2>2, <3>1 DEF Age
  <2>3. CASE certs' = certs
    BY <2>1, <2>3
  <2> QED BY <2>2, <2>3 DEF SetConfig, certVars
<1>3. panel' \in PanelConfigs /\ news' \in BOOLEAN /\ changes' \in 0 .. MaxChanges
  <2>1. panel \in PanelConfigs /\ news \in BOOLEAN /\ changes \in 0 .. MaxChanges
    BY <1>0 DEF CertTypeOK
  <2>2. CASE SetConfig
    BY <2>1, <2>2 DEF SetConfig
  <2>3. CASE Age \/ UNCHANGED certVars
    BY <2>1, <2>3 DEF Age, certVars
  <2> QED BY <2>2, <2>3
<1>a. CertTypeOK'
  BY <1>0, <1>1, <1>2, <1>3 DEF CertTypeOK
<1>b. IdInv' /\ FlowInv' /\ LifeInv'
  BY <1>0, <1>1 DEF IdInv, Newer, FlowInv, Flow, Tls, Changed, LifeInv
<1>c. PairInv' /\ ServeInv'
  BY <1>0, <1>1 DEF PairInv, PairMatches, Steady, ServeInv, Tls, MonitorAdds, RenewalReloads
<1>d. AloneInv' /\ PinInv' /\ ReloadInv'
  BY <1>0, <1>1 DEF AloneInv, PinInv, Agreed, Quiet, Tls, ReloadInv
<1> QED BY <1>a, <1>b, <1>c, <1>d DEF CertInv

(* Before the first start there are no files and no process.               *)
LEMMA CertInitial == CertInit => CertInv
<1> SUFFICES ASSUME CertInit PROVE CertInv
  OBVIOUS
<1> USE CertAssumption
<1>0. \A p \in Procs : pc[p] = "idle" /\ req[p] = NoRequest
  BY DEF CertInit
<1>1. CertTypeOK
  <2>1. certs \in [Ids -> Certificate]
    BY DEF CertInit, Certificate
  <2>2. Absent \in Contents /\ NoMeta \in Metadata /\ NoRequest \in Request
    BY MetaType, NoRequestType DEF Contents
  <2>3. pc \in [Procs -> PCs] /\ req \in [Procs -> Request]
    BY <2>2 DEF CertInit, PCs
  <2>4. issued \in 0 .. MaxIds /\ faults \in 0 .. MaxFaults /\ changes \in 0 .. MaxChanges
    BY DEF CertInit
  <2>5. account \in {"absent", "torn", "good"} /\ active \in CertConfig
    BY DEF CertInit
  <2> QED BY <2>1, <2>2, <2>3, <2>4, <2>5 DEF CertInit, CertTypeOK
<1>2. IdInv /\ FlowInv
  <2>1. /\ NoRequest.prev.cert = 0 /\ NoRequest.next.cert = 0 /\ NoRequest.own = 0
        /\ NoMeta.cert = 0 /\ Absent = 0
    BY NoRequestType, MetaType DEF Absent
  <2>2. ASSUME NEW p \in Procs PROVE Newer(p)
    BY <1>0, <2>1 DEF CertInit, Newer, Writing
  <2>3. ASSUME NEW p \in Procs PROVE Flow(p)
    BY <1>0, NoRequestType, MetaType DEF Flow
  <2> QED BY <2>1, <2>2, <2>3 DEF CertInit, IdInv, FlowInv
<1>3. LifeInv /\ ServeInv /\ AloneInv /\ PinInv /\ ReloadInv
  BY <1>0 DEF CertInit, LifeInv, ServeInv, AloneInv, PinInv, ReloadInv, Procs
<1>4. PairInv
  <2>1. Absent # Torn
    BY DEF Absent, Torn
  <2> QED BY <1>0, <2>1 DEF CertInit, PairInv, PairMatches, Steady, Writing
<1> QED BY <1>1, <1>2, <1>3, <1>4 DEF CertInv

(* Every step of either task, of the panel, of time and of a crash keeps   *)
(* it.                                                                     *)
LEMMA CertStep == CertInv /\ [CertNext]_certVars => CertInv'
<1> SUFFICES ASSUME CertInv, [CertNext]_certVars PROVE CertInv'
  OBVIOUS
<1>1. CASE SetConfig \/ Age \/ UNCHANGED certVars
  BY <1>1, OutsideStep
<1>2. CASE StartController
  BY <1>2, MonitorBegins
<1>3. CASE ReloadNode
  <2>1. CASE up
    BY <1>3, <2>1, MonitorBegins
  <2>2. CASE ~up
    <3>1. /\ Gone /\ news' = FALSE /\ told' = told /\ faults' = faults
          /\ UNCHANGED <<files, panel, metaLost, changes>>
      BY <1>3, <2>2 DEF ReloadNode, bounds
    <3>2. told \in Ids \cup {Absent} /\ faults \in 0 .. MaxFaults
      BY DEF CertInv, CertTypeOK
    <3> QED BY <3>1, <3>2, GoneStep
  <2> QED BY <2>1, <2>2
<1>4. CASE RenewBegins
  BY <1>4, RenewalBegins
<1>5. CASE Crash \/ AddNodeRefused
  BY <1>5, RefusedStep
<1>6. CASE AddNode
  BY <1>6, AddNodeStep
<1>7. CASE ReloadDel
  BY <1>7, ReloadDelStep
<1>8. CASE ReloadAdd
  BY <1>8, ReloadAddStep
<1>9. ASSUME NEW p \in Procs,
             RequestStep(p) \/ AcmeRefuses(p) \/ DiskFault(p) \/ ReportLost(p)
      PROVE  CertInv'
  <2>0. CertTypeOK
    BY DEF CertInv
  <2>1. CASE ReadConfig(p)
    BY <2>1, ReadStep
  <2>2. CASE \/ LookFile(p) \/ Look(p) \/ LoadUser(p) \/ RegisterUser(p)
             \/ SaveUser(p) \/ Obtain(p)
             \/ LoadBack(p) \/ AcmeRefuses(p) \/ (DiskFault(p) /\ pc[p] # "meta")
    BY <2>0, <2>2, SearchSteps, SearchStep
  <2>3. CASE TruncateCert(p) \/ WriteCert(p) \/ TruncateKey(p) \/ WriteKey(p)
    BY <2>3, WriteStep
  <2>4. CASE WriteMeta(p) \/ (DiskFault(p) /\ pc[p] = "meta")
    BY <2>4, MetaStep
  <2>5. CASE Report(p) \/ ReportLost(p)
    BY <2>5, ReportStep
  <2> QED BY <1>9, <2>1, <2>2, <2>3, <2>4, <2>5 DEF RequestStep
<1> QED BY <1>1, <1>2, <1>3, <1>4, <1>5, <1>6, <1>7, <1>8, <1>9 DEF CertNext

---------------------------------------------------------------------------
(* The invariant the theorems below are read off.                          *)
LEMMA CertInvariant == CertSpec => []CertInv
BY CertInitial, CertStep, PTL DEF CertSpec

(* Whatever the panel sends, fails or dies, the files, the requests of both*)
(* tasks and the counters keep their types; metadata never name a          *)
(* certificate that did not parse.                                         *)
THEOREM CertTypeCorrect == CertSpec => []CertTypeOK
<1>1. CertInv => CertTypeOK
  BY DEF CertInv
<1> QED BY <1>1, CertInvariant, PTL

(* For any number of certificates and faults, the certificate and the key  *)
(* on disk belong together outside of writeCert and                        *)
(* generateSelfSslCertificate, unless a crash, an error or the other task  *)
(* disturbed the last write.                                               *)
THEOREM CertPairMatches == CertSpec => []PairMatches
<1>1. CertInv => PairMatches
  BY DEF CertInv, PairInv
<1> QED BY <1>1, CertInvariant, PTL

(* For any number of certificates and faults, a node that is up serves the *)
(* certificate in the file whenever neither nodeInfoMonitor nor            *)
(* renewCertTask is at work and the last write of the pair was undisturbed.*)
THEOREM CertServesCurrent == CertSpec => []ServesCurrent
<1>1. ASSUME CertInv PROVE ServesCurrent
  <2> SUFFICES ASSUME Quiet, WithTls, pairOk PROVE loaded = certFile
    BY DEF ServesCurrent
  <2>1. Steady /\ ~MonitorAdds /\ ~RenewalReloads
    BY DEF Quiet, Steady, Writing, Procs, MonitorAdds, RenewalReloads
  <2> QED BY <1>1, <2>1 DEF CertInv, ServeInv, WithTls, Tls
<1> QED BY <1>1, CertInvariant, PTL

(* Then it is also the one reportCertStatus named last, as long as no      *)
(* report was lost and the last requests did not overlap.                  *)
THEOREM CertPinnedIsServed == CertSpec => []PinnedIsServed
<1>1. ASSUME CertInv PROVE PinnedIsServed
  <2> SUFFICES ASSUME Quiet, WithTls, pairOk, told \in Ids, faults = 0, ~overlap
               PROVE  loaded = told
    BY DEF PinnedIsServed
  <2>1. Steady /\ ~MonitorAdds /\ ~RenewalReloads
    BY DEF Quiet, Steady, Writing, Procs, MonitorAdds, RenewalReloads
  <2>2. loaded = certFile
    BY <1>1, <2>1 DEF CertInv, ServeInv, WithTls, Tls
  <2>3. told \in {certFile, Absent}
    BY <1>1 DEF CertInv, PinInv, WithTls, Tls, Agreed
  <2>4. told # Absent
    BY DEF Ids, Absent
  <2> QED BY <2>2, <2>3, <2>4
<1> QED BY <1>1, CertInvariant, PTL

(* renewCertTask never reloads the node twice in a row for the same        *)
(* metadata, except in mode file, for any number of renewals and changes.  *)
THEOREM CertNoRepeatedReload == CertSpec => NoRepeatedReload
<1> DEFINE A == pc["renewal"] = "del" /\ pc'["renewal"] = "add"
                   => \/ req["renewal"].next # reloaded
                      \/ req["renewal"].cfg.mode = "file"
<1>1. ASSUME CertInv, [CertNext]_certVars PROVE A
  <2> SUFFICES ASSUME pc["renewal"] = "del", pc'["renewal"] = "add"
               PROVE  \/ req["renewal"].next # reloaded
                      \/ req["renewal"].cfg.mode = "file"
    OBVIOUS
  <2>1. pc \in [Procs -> PCs] /\ "renewal" \in Procs
    BY <1>1 DEF CertInv, CertTypeOK, Procs
  <2>2. ReloadDel
    <3>1. ASSUME NEW p \in Procs,
                 RequestStep(p) \/ AcmeRefuses(p) \/ DiskFault(p) \/ ReportLost(p)
          PROVE  FALSE
      <4>1. p # "renewal"
        BY <3>1 DEF RequestStep, ReadConfig, LookFile, Look, LoadUser, RegisterUser, SaveUser, Obtain,
             TruncateCert, WriteCert, TruncateKey, WriteKey, LoadBack, WriteMeta, Report,
             AcmeRefuses, DiskFault, ReportLost, Writing
      <4>2. \/ \E l : pc' = [pc EXCEPT ![p] = l]
            \/ pc' = [q \in Procs |-> "idle"]
        <5>1. CASE Return(p)
          BY <5>1 DEF Return, Goto, Done, Gone
        <5>2. CASE ~Return(p)
          BY <3>1, <5>2 DEF RequestStep, ReadConfig, LookFile, Look, LoadUser, RegisterUser, SaveUser,
             Obtain, TruncateCert, WriteCert, TruncateKey, WriteKey, LoadBack, WriteMeta,
             Report, AcmeRefuses, DiskFault, ReportLost, Goto, RequestFails, StepFails, IssueFails,
             Generate
        <5> QED BY <5>1, <5>2
      <4> QED BY <2>1, <4>1, <4>2
    <3>2. ASSUME SetConfig \/ StartController \/ Age \/ AddNode \/ UNCHANGED certVars
          PROVE  FALSE
      BY <2>1, <3>2 DEF SetConfig, StartController, Age, AddNode, Done, Goto, certVars, Procs
    <3>3. ASSUME ReloadNode \/ Crash \/ AddNodeRefused PROVE FALSE
      BY <2>1, <3>3 DEF ReloadNode, Crash, AddNodeRefused, Gone, Goto, Procs
    <3>4. ASSUME RenewBegins \/ ReloadAdd PROVE FALSE
      BY <3>4 DEF RenewBegins, ReloadAdd
    <3> QED BY <1>1, <3>1, <3>2, <3>3, <3>4 DEF CertNext
  <2>3. up
    BY <2>1, <2>2 DEF ReloadDel, Done, Goto
  <2>4. req["renewal"].next # NoMeta /\ req["renewal"].prev # req["renewal"].next
    BY <1>1, <2>1 DEF CertInv, FlowInv, Flow, Changed
  <2> QED BY <1>1, <2>3, <2>4 DEF CertInv, ReloadInv
<1> QED BY <1>1, CertInvariant, PTL DEF CertSpec, NoRepeatedReload

============================================================================
