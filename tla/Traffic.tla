------------------------------ MODULE Traffic ------------------------------
(* Traffic accounting of one node: connections add to the counters of      *)
(* their user (common/counter, core/xray dispatcher), the report task      *)
(* collects and resets them (core/xray/user.go) and pushes them to the     *)
(* panel (node/user.go, api/panel/user.go), while users come and go.       *)
(*                                                                         *)
(* Units of traffic are numbered in the order they move, so that each can  *)
(* be followed; a counter is the set of units it has counted and its value *)
(* their number.  A user's counter object is replaced when it is dropped:  *)
(* a connection that got the old one keeps adding to it ("orphan").  The   *)
(* node's TrafficCounter, which its first connection creates and nobody    *)
(* deletes, exists from the start.                                         *)
(*                                                                         *)
(* A change of the push interval restarts the report task (node/task.go);  *)
(* a loop that is executing, or whose timer fires at that moment, goes on  *)
(* beside the new one, and their scans share the lock as readers.          *)
EXTENDS Naturals, FiniteSets

CONSTANTS Users, Conns,
          Loops,         \* bound: loops of the report task at one time
          None,          \* no user
          Min,           \* nodeReportMinTrafficBytes[tag]
          Retries,       \* SetRetryCount
          MaxUnits,      \* bound: units moved by all connections
          MaxChanges     \* bound: users deleted or added, task restarts

ASSUME TrafficAssumption ==
    /\ None \notin Users /\ Loops # {}
    /\ Min \in Nat /\ Retries \in Nat
    /\ MaxUnits \in Nat /\ MaxChanges \in Nat

Dirs  == {"up", "down"}
Units == 1 .. MaxUnits
Zero  == [d \in Dirs |-> {}]
Both(t)  == t["up"] \cup t["down"]
Total(t) == Cardinality(Both(t))

VARIABLES uids,      \* users.uidMap: the users of the core
          entry,     \* users with a counter in Counters
          cnt,       \* the counters
          conn,      \* per connection: where it is, its user
          live,      \* the loops of the report task
          pc, todo, cur, tmp,  \* per loop: stage, users to scan, the one
                               \* being scanned and what was loaded
          stale,     \* per loop: the counter being scanned was dropped
          slice,     \* per loop: the traffic collected so far
          tries,     \* per loop: attempts of the push left
          units, changes,
          charges,   \* how often the panel added a unit up, by the loop
                     \* whose push it was
          lossy,     \* history: units whose traffic may have been dropped
          repeated,  \* history: units pushed again after a lost answer
          shared     \* history: units two scans read before either reset

vars == <<uids, entry, cnt, conn, live, pc, todo, cur, tmp, stale, slice, tries,
          units, changes, charges, lossy, repeated, shared>>

conns  == <<conn>>
books  == <<entry, cnt, units>>
admin  == <<uids, changes, live>>
scan   == <<todo, cur, tmp, stale>>
report == <<pc, scan, slice, tries>>

Free == [at |-> "free", user |-> None]

(* One loop runs.                                                          *)
Init == /\ uids = Users /\ entry = {} /\ cnt = [u \in Users |-> Zero]
        /\ conn = [c \in Conns |-> Free]
        /\ live = {CHOOSE l \in Loops : TRUE}
        /\ pc = [l \in Loops |-> "idle"] /\ todo = [l \in Loops |-> {}]
        /\ cur = [l \in Loops |-> None] /\ tmp = [l \in Loops |-> Zero]
        /\ stale = [l \in Loops |-> FALSE]
        /\ slice = [l \in Loops |-> [u \in Users |-> Zero]]
        /\ tries = [l \in Loops |-> 0]
        /\ units = 0 /\ changes = 0
        /\ charges = [l \in Loops |-> [b \in Units |-> 0]]
        /\ lossy = {} /\ repeated = {} /\ shared = {}

----------------------------------------------------------------------------
(* Connections.  CheckLimit records the device; the counter is fetched     *)
(* later, without the lock of the user map.                                *)
Accept(c, u) ==
    /\ conn[c].at = "free" /\ u \in uids
    /\ conn' = [conn EXCEPT ![c] = [at |-> "checked", user |-> u]]
    /\ UNCHANGED <<admin, books, report, charges, lossy, repeated, shared>>

GetCounter(c) ==
    /\ conn[c].at = "checked"
    /\ conn' = [conn EXCEPT ![c].at = "open"]
    /\ entry' = entry \cup {conn[c].user}
    /\ UNCHANGED <<admin, cnt, units, report, charges, lossy, repeated,
                   shared>>

(* Counters loaded and not yet set to zero lose what is added meanwhile.   *)
Loaded(l, d) == \/ d = "up" /\ pc[l] \in {"loadDown", "zeroUp"}
                \/ d = "down" /\ pc[l] \in {"zeroUp", "zeroDown"}
Collecting(u, d) == \E l \in Loops : cur[l] = u /\ ~stale[l] /\ Loaded(l, d)

Move(c, d) ==
    LET u == conn[c].user
        b == units + 1
    IN
    /\ conn[c].at \in {"open", "orphan"} /\ units < MaxUnits
    /\ units' = b
    /\ IF conn[c].at = "open"
       THEN /\ cnt' = [cnt EXCEPT ![u][d] = @ \cup {b}]
            /\ lossy' = IF Collecting(u, d) THEN lossy \cup {b} ELSE lossy
       ELSE lossy' = lossy \cup {b} /\ UNCHANGED cnt
    /\ UNCHANGED <<admin, conns, entry, report, charges, repeated, shared>>

Disconnect(c) ==
    /\ conn[c].at # "free"
    /\ conn' = [conn EXCEPT ![c] = Free]
    /\ UNCHANGED <<admin, books, report, charges, lossy, repeated, shared>>

(* Dropping a user's counter: its connections keep the old object.         *)
DropCounter(u) ==
    /\ entry' = entry \ {u} /\ cnt' = [cnt EXCEPT ![u] = Zero]
    /\ conn' = [c \in Conns |-> IF conn[c].at = "open" /\ conn[c].user = u
                                THEN [conn[c] EXCEPT !.at = "orphan"]
                                ELSE conn[c]]

----------------------------------------------------------------------------
(* DelUsers and AddUsers take the lock that collections hold as readers,   *)
(* new connections do not.                                                 *)
Unlocked == \A l \in Loops : pc[l] \notin {"scan", "loadDown", "zeroUp", "zeroDown"}

DelUser(u) ==
    /\ Unlocked /\ u \in uids /\ changes < MaxChanges
    /\ uids' = uids \ {u} /\ changes' = changes + 1
    /\ DropCounter(u) /\ lossy' = lossy \cup Both(cnt[u])
    /\ UNCHANGED <<live, units, report, charges, repeated, shared>>

AddUser(u) ==
    /\ Unlocked /\ u \notin uids /\ changes < MaxChanges
    /\ uids' = uids \cup {u} /\ changes' = changes + 1
    /\ UNCHANGED <<live, conns, books, report, charges, lossy, repeated,
                   shared>>

(* The monitor closes the report task and starts it again.  A loop that    *)
(* executes finds the new stop channel at its next select and survives;    *)
(* one that waits ends, unless its timer fires at the same time.           *)
Restart(l) ==
    /\ l \notin live /\ changes < MaxChanges
    /\ \E ended \in SUBSET {m \in live : pc[m] = "idle"} :
          live' = (live \ ended) \cup {l}
    /\ changes' = changes + 1
    /\ UNCHANGED <<uids, conns, books, report, charges, lossy, repeated,
                   shared>>

----------------------------------------------------------------------------
(* GetUserTrafficSlice, one user after the other.                          *)
(* Mutant: only users still known are scanned.                             *)
BeginKnown(l) ==
    /\ l \in live /\ pc[l] = "idle"
    /\ pc' = [pc EXCEPT ![l] = "scan"] /\ todo' = [todo EXCEPT ![l] = entry \cap uids]
    /\ UNCHANGED <<admin, conns, books, cur, tmp, stale, slice, tries,
                   charges, lossy, repeated, shared>>

Begin(l) ==
    /\ l \in live /\ pc[l] = "idle"
    /\ pc' = [pc EXCEPT ![l] = "scan"] /\ todo' = [todo EXCEPT ![l] = entry]
    /\ UNCHANGED <<admin, conns, books, cur, tmp, stale, slice, tries,
                   charges, lossy, repeated, shared>>

Done(l) == /\ cur' = [cur EXCEPT ![l] = None] /\ tmp' = [tmp EXCEPT ![l] = Zero]

(* Units that another scan has read as well and neither has reset.         *)
ReadTwice(l, read) ==
    shared \cup {b \in read : \E m \in Loops \ {l} : b \in Both(tmp[m])}

LoadUp(l, u) ==
    LET up == cnt[u]["up"] IN
    /\ pc[l] = "scan" /\ u \in todo[l] \cap entry
    /\ cur' = [cur EXCEPT ![l] = u] /\ todo' = [todo EXCEPT ![l] = @ \ {u}]
    /\ tmp' = [tmp EXCEPT ![l] = [Zero EXCEPT !["up"] = up]]
    /\ stale' = [stale EXCEPT ![l] = FALSE]
    /\ pc' = [pc EXCEPT ![l] = "loadDown"]
    /\ shared' = ReadTwice(l, up)
    /\ UNCHANGED <<admin, conns, books, slice, tries, charges, lossy,
                   repeated>>

(* An old object has what its orphans added, which nobody will charge: it  *)
(* may be above the threshold or not.                                      *)
LoadDown(l) ==
    LET down == IF stale[l] THEN {} ELSE cnt[cur[l]]["down"]
        t    == [tmp[l] EXCEPT !["down"] = down]
    IN
    /\ pc[l] = "loadDown"
    /\ \/ /\ Total(t) > Min \/ stale[l]
          /\ pc' = [pc EXCEPT ![l] = "zeroUp"] /\ tmp' = [tmp EXCEPT ![l] = t]
          /\ shared' = ReadTwice(l, down)
          /\ UNCHANGED cur
       \/ /\ Total(t) <= Min
          /\ pc' = [pc EXCEPT ![l] = "scan"] /\ Done(l) /\ UNCHANGED shared
    /\ UNCHANGED <<admin, conns, books, todo, stale, slice, tries,
                   charges, lossy, repeated>>

(* Mutant: the traffic is collected and the up counter left as it is.      *)
ZeroUpKeeps(l) ==
    /\ pc[l] = "zeroUp"
    /\ pc' = [pc EXCEPT ![l] = "zeroDown"]
    /\ UNCHANGED <<admin, conns, books, scan, slice, tries, charges,
                   lossy, repeated, shared>>

Reset(l, d) == IF stale[l] THEN cnt ELSE [cnt EXCEPT ![cur[l]][d] = {}]

ZeroUp(l) ==
    /\ pc[l] = "zeroUp"
    /\ cnt' = Reset(l, "up")
    /\ pc' = [pc EXCEPT ![l] = "zeroDown"]
    /\ UNCHANGED <<admin, conns, entry, units, scan, slice, tries,
                   charges, lossy, repeated, shared>>

(* Mutant: at the end both counters are reset.                             *)
ZeroBoth(l) ==
    /\ pc[l] = "zeroDown" /\ cur[l] \in uids
    /\ pc' = [pc EXCEPT ![l] = "scan"] /\ Done(l)
    /\ cnt' = [cnt EXCEPT ![cur[l]] = Zero]
    /\ slice' = [slice EXCEPT ![l][cur[l]] = tmp[l]]
    /\ UNCHANGED <<admin, conns, entry, units, todo, stale, tries,
                   charges, lossy, repeated, shared>>

ZeroDown(l) ==
    /\ pc[l] = "zeroDown" /\ cur[l] \in uids
    /\ pc' = [pc EXCEPT ![l] = "scan"] /\ Done(l)
    /\ cnt' = Reset(l, "down")
    /\ slice' = [slice EXCEPT ![l][cur[l]] = tmp[l]]
    /\ UNCHANGED <<admin, conns, entry, units, todo, stale, tries,
                   charges, lossy, repeated, shared>>

(* A user without uid is not reported: what was read is given up and the   *)
(* counter now stored under its name dropped.                              *)
ZeroDownUnknown(l) ==
    LET u == cur[l] IN
    /\ pc[l] = "zeroDown" /\ u \notin uids
    /\ pc' = [pc EXCEPT ![l] = "scan"] /\ Done(l)
    /\ DropCounter(u) /\ lossy' = lossy \cup Both(cnt[u]) \cup Both(tmp[l])
    /\ stale' = [m \in Loops |-> m # l /\ (stale[m] \/ cur[m] = u)]
    /\ UNCHANGED <<admin, units, todo, slice, tries, charges,
                   repeated, shared>>

EndScan(l) ==
    /\ pc[l] = "scan" /\ todo[l] \cap entry = {}
    /\ todo' = [todo EXCEPT ![l] = {}]
    /\ IF slice[l] = [u \in Users |-> Zero]
       THEN pc' = [pc EXCEPT ![l] = "online"] /\ UNCHANGED tries
       ELSE pc' = [pc EXCEPT ![l] = "push"] /\ tries' = [tries EXCEPT ![l] = Retries]
    /\ UNCHANGED <<admin, conns, books, cur, tmp, stale, slice,
                   charges, lossy, repeated, shared>>

----------------------------------------------------------------------------
(* ReportUserTraffic: every attempt posts the same body.  A transport      *)
(* error is retried, an error status is not.                               *)
InSlice(l) == UNION {Both(slice[l][u]) : u \in Users}
Counted(l) == [charges EXCEPT ![l] = [b \in Units |->
                 IF b \in InSlice(l) THEN charges[l][b] + 1 ELSE charges[l][b]]]

(* The push is over: the collected traffic is forgotten.                   *)
Forget(l) ==
    /\ pc' = [pc EXCEPT ![l] = "online"] /\ tries' = [tries EXCEPT ![l] = 0]
    /\ slice' = [slice EXCEPT ![l] = [u \in Users |-> Zero]]

Pushed(l) ==
    /\ pc[l] = "push" /\ Forget(l) /\ charges' = Counted(l)
    /\ UNCHANGED <<admin, conns, books, scan, lossy,
                   repeated, shared>>

Refused(l) ==
    /\ pc[l] = "push" /\ Forget(l) /\ lossy' = lossy \cup InSlice(l)
    /\ UNCHANGED <<admin, conns, books, scan, charges,
                   repeated, shared>>

(* Mutant: attempts are not counted.                                       *)
PushErrorForever(l, processed) ==
    /\ pc[l] = "push"
    /\ charges' = IF processed THEN Counted(l) ELSE charges
    /\ repeated' = IF processed THEN repeated \cup InSlice(l) ELSE repeated
    /\ UNCHANGED <<admin, conns, books, report, lossy, shared>>

PushError(l, processed) ==
    /\ pc[l] = "push"
    /\ charges' = IF processed THEN Counted(l) ELSE charges
    /\ \/ /\ tries[l] > 0
          /\ tries' = [tries EXCEPT ![l] = @ - 1]
          /\ repeated' = IF processed THEN repeated \cup InSlice(l) ELSE repeated
          /\ UNCHANGED <<pc, slice, lossy>>
       \/ /\ tries[l] = 0
          /\ Forget(l)
          /\ lossy' = IF processed THEN lossy ELSE lossy \cup InSlice(l)
          /\ UNCHANGED repeated
    /\ UNCHANGED <<admin, conns, books, scan, shared>>

(* ReportNodeOnlineUsers (see Limiter); then the loop waits for its timer. *)
Online(l) ==
    /\ pc[l] = "online" /\ pc' = [pc EXCEPT ![l] = "idle"]
    /\ UNCHANGED <<admin, conns, books, scan, slice, tries, charges, lossy, repeated,
                   shared>>

Report(l) == \/ Begin(l) \/ LoadDown(l) \/ ZeroUp(l) \/ ZeroDown(l)
             \/ ZeroDownUnknown(l) \/ EndScan(l)
             \/ Pushed(l) \/ Refused(l) \/ Online(l)
             \/ \E u \in Users : LoadUp(l, u)
             \/ \E b \in BOOLEAN : PushError(l, b)

Next == \/ \E l \in Loops : Report(l) \/ Restart(l)
        \/ \E c \in Conns : \/ GetCounter(c) \/ Disconnect(c)
                            \/ \E u \in Users : Accept(c, u)
                            \/ \E d \in Dirs : Move(c, d)
        \/ \E u \in Users : DelUser(u) \/ AddUser(u)

(* Each loop is run by its timer and gets answers or times out.            *)
Spec == Init /\ [][Next]_vars /\ \A l \in Loops : WF_vars(Report(l))

----------------------------------------------------------------------------
(* Type invariant.                                                         *)
Traffics == [Dirs -> SUBSET Units]
Stages   == {"idle", "scan", "loadDown", "zeroUp", "zeroDown", "push", "online"}
TrafficTypeOK ==
    /\ uids \subseteq Users /\ entry \subseteq Users
    /\ cnt \in [Users -> Traffics] /\ slice \in [Loops -> [Users -> Traffics]]
    /\ conn \in [Conns -> [at : {"free", "checked", "open", "orphan"},
                           user : Users \cup {None}]]
    /\ \A c \in Conns : conn[c].at # "free" => conn[c].user \in Users
    /\ live \subseteq Loops /\ live # {}
    /\ pc \in [Loops -> Stages] /\ todo \in [Loops -> SUBSET Users]
    /\ cur \in [Loops -> Users \cup {None}] /\ tmp \in [Loops -> Traffics]
    /\ stale \in [Loops -> BOOLEAN] /\ tries \in [Loops -> 0 .. Retries]
    /\ \A l \in Loops : pc[l] \in {"loadDown", "zeroUp", "zeroDown"} => cur[l] \in Users
    /\ \A l \in Loops : pc[l] # "idle" => l \in live
    /\ charges \in [Loops -> [Units -> Nat]]
    /\ lossy \subseteq Units /\ repeated \subseteq Units /\ shared \subseteq Units
    /\ units \in 0 .. MaxUnits /\ changes \in 0 .. MaxChanges

(* The units that are in a counter, and those a loop has taken out of the  *)
(* counters and the panel has not seen.                                    *)
InCounters == UNION {Both(cnt[u]) : u \in Users}
InFlight(l) ==
    InSlice(l) \cup (IF pc[l] = "zeroDown" THEN tmp[l]["up"] ELSE {})
Charged(l) == {b \in Units : charges[l][b] > 0}

(* No unit is charged twice, whatever connections, deletions, restarts and *)
(* failing pushes do to the counters: once a loop has charged it or is     *)
(* about to, it is in no counter, no other loop has it, and it is charged  *)
(* once.  Excepted are a push repeated after its answer was lost, and a    *)
(* unit that two scans read before either reset the counter.               *)
NoOvercount ==
    \A l \in Loops : \A b \in (InFlight(l) \cup Charged(l)) \ (repeated \cup shared) :
        /\ b \notin InCounters
        /\ charges[l][b] = (IF b \in InFlight(l) THEN 0 ELSE 1)
        /\ \A m \in Loops \ {l} : b \notin InFlight(m) \cup Charged(m)

(* However often scans overlap and answers are lost, one loop charges a    *)
(* unit at most once per attempt of a push.                                *)
OvercountBounded ==
    \A l \in Loops, b \in Units : charges[l][b] <= Retries + 1

(* Traffic disappears in four ways only: it moved while its counter was    *)
(* being collected, its user was deleted, its connection outlived the      *)
(* user's counter, or its push failed.                                     *)
LossesExplained ==
    \A b \in (1 .. units) \ lossy :
        b \in InCounters \/ \E l \in Loops : b \in InFlight(l) \cup Charged(l)

(* When traffic stops, no counter keeps more than the reporting threshold. *)
TrafficDrains == <>[](\A u \in Users : Total(cnt[u]) <= Min)

============================================================================
