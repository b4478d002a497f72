------------------------------ MODULE Server ------------------------------
(* conf/watch.go and the reload closure of cmd/server.go, with what        *)
(* node.Start and node.Close leave behind.  Watching begins when the       *)
(* server is up (Init).  An edit raises an event; the watcher ignores      *)
(* events for ten seconds after one it acted on, and acts by spawning a    *)
(* goroutine that sleeps five seconds, reads the file and rebuilds core    *)
(* and nodes.  Nothing keeps two such goroutines apart, nor a reload from  *)
(* a controller that just then changes its node: of that only the node's   *)
(* absence from the core is kept here.  A panic is one of a reload; what   *)
(* a controller's own tasks do, log.Panic included, is in NodeController.  *)
(*                                                                         *)
(* Time is counted in units of five seconds, as the age of the last event  *)
(* acted on (it matters up to two units) and as the sleep that is left.    *)
EXTENDS Naturals

CONSTANTS Versions,      \* contents of the configuration file
          Bad,           \* a file that does not load
          Empty,         \* conf.New(): no cores, no nodes
          Partial,       \* what a file with an error in it leaves behind
          First,         \* the version the server came up with
          Reloads,       \* bound: reload goroutines alive at one time
          MaxEdits,      \* bound: edits of a watched file
          Fails          \* calls of a reload that may fail

ASSUME ServerAssumption ==
    /\ First \in Versions /\ {Bad, Empty, Partial} \cap Versions = {}
    /\ Empty # Partial
    /\ MaxEdits \in Nat
    /\ Fails \subseteq {"closeCore", "newCore", "startCore", "startNodes"}

VARIABLES file,      \* the configuration file
          edits, events,   \* edits so far; events the watcher has not read
          preAge,    \* time since pre, two units and more being the same
          conf,      \* *p, shared by the watcher and the closure
          vc,        \* the core: "running", "closed", "new" (not started), "nil"
          nodes,     \* n.controllers: "up", "starting", "partial", "closing", "none"
          missing,   \* a controller's node is not in the core
          served,    \* the version the nodes were started from
          rpc, nap,  \* per reload goroutine: where it is, the sleep left
          panicked,
          hidden,    \* history: the last change came 5 to 10 s after pre
          mishap     \* history: a reload failed, or two overlapped

vars == <<file, edits, events, preAge, conf, vc, nodes, missing, served, rpc,
          nap, panicked, hidden, mishap>>

Stages == {"idle", "sleep", "read", "closeNodes", "nodesDown", "closeCore",
           "newCore", "startCore", "startNodes", "nodesUp"}

(* What LoadFromPath makes of fresh fields.  A file that is not there or   *)
(* not JSON leaves them alone; one with a value of the wrong type fills    *)
(* those that json.Unmarshal could decode, and the error is only logged.   *)
Loaded(f) == IF f = Bad THEN {Empty, Partial} ELSE {f}
Busy(r) == rpc[r] \notin {"idle", "sleep"}

Init == /\ file = First /\ conf = First /\ served = First
        /\ edits = 0 /\ events = 0 /\ preAge = 2
        /\ vc = "running" /\ nodes = "up" /\ missing = FALSE
        /\ rpc = [r \in Reloads |-> "idle"] /\ nap = [r \in Reloads |-> 0]
        /\ panicked = FALSE /\ hidden = FALSE /\ mishap = FALSE

----------------------------------------------------------------------------
(* Somebody edits the configuration file, or a DNS file (no new version).  *)
Edit(v) ==
    /\ ~panicked /\ edits < MaxEdits
    /\ edits' = edits + 1 /\ events' = events + 1
    /\ file' = v /\ hidden' = IF v = file THEN hidden ELSE preAge = 1
    /\ UNCHANGED <<preAge, conf, vc, nodes, missing, served, rpc, nap, panicked,
                   mishap>>

Elapse ==
    /\ ~panicked /\ (preAge < 2 \/ \E r \in Reloads : nap[r] > 0)
    /\ preAge' = IF preAge < 2 THEN preAge + 1 ELSE 2
    /\ nap' = [r \in Reloads |-> IF nap[r] > 0 THEN nap[r] - 1 ELSE 0]
    /\ UNCHANGED <<file, edits, events, conf, vc, nodes, missing, served, rpc,
                   panicked, hidden, mishap>>

Ignore ==
    /\ ~panicked /\ events > 0 /\ preAge < 2
    /\ events' = events - 1
    /\ UNCHANGED <<file, edits, preAge, conf, vc, nodes, missing, served, rpc,
                   nap, panicked, hidden, mishap>>

(* Mutant: the goroutine reads the file at once and sleeps afterwards.     *)
SpawnReads(r) ==
    /\ ~panicked /\ events > 0 /\ preAge = 2 /\ rpc[r] = "idle"
    /\ events' = events - 1 /\ preAge' = 0 /\ conf' \in Loaded(file)
    /\ rpc' = [rpc EXCEPT ![r] = "closeNodes"]
    /\ UNCHANGED <<file, edits, vc, nodes, missing, served, nap, panicked, hidden,
                   mishap>>

Spawn(r) ==
    /\ ~panicked /\ events > 0 /\ preAge = 2 /\ rpc[r] = "idle"
    /\ events' = events - 1 /\ preAge' = 0
    /\ rpc' = [rpc EXCEPT ![r] = "sleep"] /\ nap' = [nap EXCEPT ![r] = 1]
    /\ UNCHANGED <<file, edits, conf, vc, nodes, missing, served, panicked,
                   hidden, mishap>>

----------------------------------------------------------------------------
(* The reload goroutine.  Fresh fields first, then the file over them; an  *)
(* error is logged and the reload goes on with the fresh ones.             *)
Step(r, from, to) == /\ ~panicked /\ rpc[r] = from
                     /\ rpc' = [rpc EXCEPT ![r] = to]

Wake(r) ==
    /\ nap[r] = 0 /\ Step(r, "sleep", "read")
    /\ conf' = Empty
    /\ mishap' = (mishap \/ \E q \in Reloads : Busy(q))
    /\ UNCHANGED <<file, edits, events, preAge, vc, nodes, missing, served, nap,
                   panicked, hidden>>

ReadFile(r) ==
    /\ Step(r, "read", "closeNodes")
    /\ conf' \in Loaded(file)
    /\ UNCHANGED <<file, edits, events, preAge, vc, nodes, missing, served, nap,
                   panicked, hidden, mishap>>

(* A controller's monitor, or its renewal, takes the node out of the core  *)
(* to add it anew, in the middle of a nodes.Close() too.  Nothing follows  *)
(* the deletion when the certificate cannot be had: no fairness here.      *)
NodeOut ==
    /\ ~panicked /\ nodes # "none" /\ ~missing
    /\ missing' = TRUE
    /\ UNCHANGED <<file, edits, events, preAge, conf, vc, nodes, served, rpc, nap,
                   panicked, hidden, mishap>>

NodeBack ==
    /\ ~panicked /\ missing
    /\ missing' = FALSE
    /\ UNCHANGED <<file, edits, events, preAge, conf, vc, nodes, served, rpc, nap,
                   panicked, hidden, mishap>>

(* nodes.Close(): c.Close() for one controller after the other, then the   *)
(* list is dropped.  A list with gaps or closed controllers panics, and so *)
(* does a controller whose node is not in the core when its turn comes.    *)
CloseNodes(r) ==
    /\ Step(r, "closeNodes", "nodesDown")
    /\ nodes' = IF nodes = "none" THEN "none" ELSE "closing"
    /\ served' = Empty
    /\ UNCHANGED <<file, edits, events, preAge, conf, vc, missing, nap, panicked,
                   hidden, mishap>>

NodesDown(r) ==
    /\ ~missing /\ Step(r, "nodesDown", "closeCore")
    /\ nodes' = "none"
    /\ UNCHANGED <<file, edits, events, preAge, conf, vc, missing, served, nap,
                   panicked, hidden, mishap>>

ClosePanics(r) ==
    /\ ~panicked
    /\ \/ rpc[r] = "closeNodes" /\ nodes \in {"starting", "partial", "closing"}
       \/ rpc[r] = "nodesDown" /\ missing
    /\ panicked' = TRUE
    /\ UNCHANGED <<file, edits, events, preAge, conf, vc, nodes, missing, served,
                   rpc, nap, hidden, mishap>>

(* One of the closure's calls on the core: it panics on a nil core, and an *)
(* error ends the reload where it is.  No core can be made of an empty     *)
(* configuration, and perhaps none of a partial one.                       *)
CoreCall(r, call, next, done, failed) ==
    /\ vc # "nil" \/ call = "newCore"
    /\ \/ /\ call = "newCore" => conf # Empty
          /\ Step(r, call, next) /\ vc' = done /\ UNCHANGED mishap
       \/ /\ call \in Fails \/ (call = "newCore" /\ conf \in {Empty, Partial})
          /\ Step(r, call, "idle") /\ vc' = failed /\ mishap' = TRUE
    /\ UNCHANGED <<file, edits, events, preAge, conf, nodes, missing, served, nap,
                   panicked, hidden>>

CloseCore(r) == CoreCall(r, "closeCore", "newCore", "closed", "closed")
NewCore(r)   == CoreCall(r, "newCore", "startCore", "new", "nil")

(* Mutant: the new core is not started.                                    *)
StartCoreSkipped(r) == CoreCall(r, "startCore", "startNodes", "new", "new")

StartCore(r) == CoreCall(r, "startCore", "startNodes", "running", "new")

(* Another reload may have left a nil core.  A list without nodes does not *)
(* touch it: an empty configuration has none, a partial one perhaps.       *)
NilCore(r) ==
    /\ ~panicked /\ vc = "nil"
    /\ \/ rpc[r] \in {"closeCore", "startCore"}
       \/ rpc[r] = "startNodes" /\ conf # Empty
    /\ panicked' = TRUE
    /\ UNCHANGED <<file, edits, events, preAge, conf, vc, nodes, missing, served,
                   rpc, nap, hidden, mishap>>

(* Mutant: the nodes are started from the configuration of the first start. *)
StartNodesFirst(r) ==
    /\ vc # "nil" \/ conf \in {Empty, Partial}
    /\ Step(r, "startNodes", "nodesUp")
    /\ nodes' = "starting" /\ served' = First
    /\ UNCHANGED <<file, edits, events, preAge, conf, vc, missing, nap, panicked,
                   hidden, mishap>>

(* nodes.Start(c.NodeConfig, vc): one controller after the other.          *)
StartNodes(r) ==
    /\ vc # "nil" \/ conf \in {Empty, Partial}
    /\ Step(r, "startNodes", "nodesUp")
    /\ nodes' = "starting" /\ served' = conf
    /\ UNCHANGED <<file, edits, events, preAge, conf, vc, missing, nap, panicked,
                   hidden, mishap>>

NodesUp(r) ==
    /\ Step(r, "nodesUp", "idle")
    /\ \/ nodes' = "up" /\ UNCHANGED <<served, mishap>>
       \/ /\ "startNodes" \in Fails
          /\ nodes' = "partial" /\ served' = Empty /\ mishap' = TRUE
    /\ UNCHANGED <<file, edits, events, preAge, conf, vc, missing, nap, panicked,
                   hidden>>

Reload(r) == \/ Wake(r) \/ ReadFile(r) \/ CloseNodes(r) \/ NodesDown(r)
             \/ ClosePanics(r) \/ CloseCore(r) \/ NewCore(r) \/ StartCore(r)
             \/ NilCore(r) \/ StartNodes(r) \/ NodesUp(r)

Next == \/ \E v \in Versions \cup {Bad, file} : Edit(v)
        \/ Elapse \/ Ignore \/ NodeOut \/ NodeBack
        \/ \E r \in Reloads : Spawn(r) \/ Reload(r)

(* Time passes, the watcher reads its events, goroutines run.  Nobody has  *)
(* to edit a file or to change a node.                                     *)
Fairness == /\ WF_vars(Elapse)
            /\ WF_vars(Ignore \/ \E r \in Reloads : Spawn(r))
            /\ \A r \in Reloads : WF_vars(Reload(r))

Spec == Init /\ [][Next]_vars /\ Fairness

----------------------------------------------------------------------------
(* Type invariant.                                                         *)
ServerTypeOK ==
    /\ file \in Versions \cup {Bad}
    /\ {conf, served} \subseteq Versions \cup {Empty, Partial}
    /\ edits \in 0 .. MaxEdits /\ events \in 0 .. edits /\ preAge \in 0 .. 2
    /\ vc \in {"running", "closed", "new", "nil"}
    /\ nodes \in {"up", "starting", "partial", "closing", "none"}
    /\ rpc \in [Reloads -> Stages] /\ nap \in [Reloads -> 0 .. 1]
    /\ missing \in BOOLEAN /\ panicked \in BOOLEAN
    /\ hidden \in BOOLEAN /\ mishap \in BOOLEAN

(* The five seconds of sleep cover what the debounce ignores meanwhile: a  *)
(* change that nobody has read or will read came between five and ten      *)
(* seconds after the last event the watcher acted on.                      *)
LossOnlyInDebounce ==
    /\ events = 0 /\ \A r \in Reloads : rpc[r] \notin {"sleep", "read"}
    /\ conf \notin Loaded(file)
    => hidden

(* While reloads neither overlapped nor failed, a reload panics only in a  *)
(* nodes.Close() of running nodes that meets one missing from the core,    *)
(* nodes run only on a running core, and outside of a reload the server    *)
(* serves the configuration it last read.                                  *)
ReloadsRebuild ==
    ~mishap => /\ panicked => /\ missing /\ nodes = "closing" /\ vc = "running"
                              /\ \E r \in Reloads : rpc[r] = "nodesDown"
               /\ served # Empty => vc = "running"
               /\ (\A r \in Reloads : ~Busy(r)) => nodes = "up" /\ served = conf

(* What a changed file loads as is served in the end, unless the change    *)
(* fell into the late half of the debounce window or a reload went wrong:  *)
(* it failed, overlapped another or met a node missing from the core.      *)
ChangesServed ==
    <>[](~mishap /\ ~hidden /\ ~(panicked /\ missing) => served \in Loaded(file))

============================================================================
