------------------------------- MODULE Cores -------------------------------
(***************************************************************************)
(* Several nodes on several cores: the Selector (core/selector.go), and    *)
(* what the xray, sing-box and hysteria2 cores keep of a node's users.     *)
(* Every node has its controller; the controllers share the cores.         *)
(*                                                                         *)
(* The xray core keys its users by tag and uuid.  The sing-box core keeps  *)
(* the users of an inbound apart but keys their uids by uuid alone, and    *)
(* the hysteria2 core has one map of uuids, for authentication and uids,   *)
(* for all of its nodes.  Each call of a core is a step: the cores lock.   *)
(* A connection opens in one step too: two first connections of a node,    *)
(* whose TrafficCounters replace each other, are in Dispatcher.            *)
(***************************************************************************)
EXTENDS Naturals, Sequences

CONSTANTS
    Nodes, Users, Conns, None,
    Configs,      \* the sequence of core configurations: type and name
    Setups,       \* of the nodes: for each its protocol (type), and its
                  \* Options.CoreName and Options.Core (name, core)
    Lists,        \* the user lists that the panel hands out
    MaxEvents     \* bound: polls, reloads and Close of all controllers, and
                  \* connections opened

Types == {"xray", "sing", "hysteria2"}

(* Core.Protocols.                                                         *)
Protocols(t) ==
    CASE t = "xray" -> {"vmess", "vless", "shadowsocks", "trojan"}
      [] t = "sing" -> {"vmess", "vless", "shadowsocks", "trojan", "tuic",
                        "anytls", "hysteria", "hysteria2"}
      [] t = "hysteria2" -> {"hysteria2"}

Cores == DOMAIN Configs

Type(i) == Configs[i].type

(* NewSelector: a core is known by its name or else by its type; of two    *)
(* with one key the later replaces the earlier.                            *)
Key(i) == IF Configs[i].name = "" THEN Type(i) ELSE Configs[i].name

Selectable == {i \in Cores : \A j \in Cores : j > i => Key(j) # Key(i)}

(* Selector.AddNode, the choice of a core: by name, by type, or any that   *)
(* supports the protocol.  The loop keeps the last of a map's iteration,   *)
(* which has no order.                                                     *)
Candidates(o) ==
    {i \in Selectable :
        IF o.name # "" THEN Key(i) = o.name
        ELSE IF o.core # "" THEN Type(i) = o.core
        ELSE o.type \in Protocols(Type(i))}

ASSUME CoresAssumption ==
    /\ MaxEvents \in Nat /\ None \notin Nodes \cup Users \cup Cores
    /\ \A us \in Lists : us # {} /\ us \subseteq Users
    /\ \A i \in Cores : Type(i) \in Types
    /\ \A s \in Setups, n \in Nodes : Candidates(s[n]) # {}

VARIABLES
    setup,     \* the nodes' configuration
    owner,     \* Selector.nodes: the core of a node, or None
    inbound,   \* users of a node's inbound (xray, sing-box)
    uids,      \* uidMap and usersMap: the keys known to each core
    at,        \* where the controller of a node is
    list,      \* c.userList
    new,       \* the list a poll fetched
    limiter,   \* the node's limiter is registered
    limited,   \* users it knows
    over,      \* users whose UserLimitInfo.OverLimit is set
    pend,      \* counters (core, node, user) with traffic not yet collected
    conn,      \* connections
    orphans,   \* connections whose TrafficStorage was deleted from the map
    events,
    panicked,
    shared,    \* history: keys another node of the core deleted
    left,      \* history: keys left in a core by a node that was removed
    uncharged, \* history: listed users whose traffic a report dropped,
               \* though no other node deleted them
    severed,   \* history: connections of a sing-box core that were open, or
               \* opened, when the core had no uid of their user
    missed     \* history: rejected connections whose mark others removed

ctl == <<at, list, new, limiter, limited>>
core == <<setup, owner, inbound, uids>>
storages == <<orphans, severed>>
history == <<shared, left, uncharged, missed>>
vars == <<core, ctl, over, pend, conn, storages, events, panicked, history>>

NoConn == [on |-> None, node |-> None, user |-> None, counted |-> FALSE,
           rejected |-> FALSE]

Kind(n) == IF owner[n] = None THEN "none" ELSE Type(owner[n])

(* Mutant: the xray core too goes by the uuid alone.                       *)
UidKeyBare(i, n, u) == <<None, u>>

(* format.UserTag in the xray core, the uuid in the others.                *)
UidKey(i, n, u) == IF Type(i) = "xray" THEN <<n, u>> ELSE <<None, u>>

Keys(i, n, us) == {UidKey(i, n, u) : u \in us}

(* Who can connect: a user of the inbound; on hysteria2, Authenticate.     *)
Admits(n, u) ==
    /\ owner[n] # None
    /\ IF Kind(n) = "hysteria2" THEN UidKey(owner[n], n, u) \in uids[owner[n]]
       ELSE u \in inbound[n]

Init ==
    /\ setup \in Setups
    /\ owner = [n \in Nodes |-> None] /\ inbound = [n \in Nodes |-> {}]
    /\ uids = [i \in Cores |-> {}]
    /\ at = [n \in Nodes |-> "down"]
    /\ list = [n \in Nodes |-> {}] /\ new = [n \in Nodes |-> {}]
    /\ limiter = [n \in Nodes |-> FALSE] /\ limited = [n \in Nodes |-> {}]
    /\ over = [n \in Nodes |-> {}] /\ pend = {}
    /\ conn = [c \in Conns |-> NoConn]
    /\ events = 0 /\ panicked = FALSE
    /\ orphans = {} /\ severed = {}
    /\ shared = {} /\ left = {} /\ uncharged = {} /\ missed = {}

Goto(n, l) == at' = [at EXCEPT ![n] = l]

Bound == events < MaxEvents /\ events' = events + 1

AllOf(n) == {c \in Conns : conn[c].node = n}

Of(n, u) == {c \in AllOf(n) : conn[c].user = u}

On(i, n) == {c \in AllOf(n) : conn[c].on = i}

(* The connections that hysteria2 calls back for.                          *)
Hysteria(c) == conn[c].on # None /\ Type(conn[c].on) = "hysteria2"

Drop(cs) == [c \in Conns |-> IF c \in cs THEN NoConn ELSE conn[c]]

----------------------------------------------------------------------------
(* The controller of a node.                                               *)

(* AddLimiter: the marks of the old limiter are gone.                      *)
AddLimiter(n, us) ==
    /\ limiter' = [limiter EXCEPT ![n] = TRUE]
    /\ limited' = [limited EXCEPT ![n] = us]
    /\ over' = [over EXCEPT ![n] = {}]
    /\ missed' = missed \cup AllOf(n)

Start(n, us) ==
    /\ at[n] = "down"
    /\ list' = [list EXCEPT ![n] = us]
    /\ AddLimiter(n, us)
    /\ Goto(n, "node")
    /\ UNCHANGED <<core, new, pend, conn, storages, events, panicked, shared,
                   left, uncharged>>

(* Selector.AddNode and AddNode of the core it chose.                      *)
AddNode(n) ==
    /\ at[n] = "node"
    /\ \E i \in Candidates(setup[n]) : owner' = [owner EXCEPT ![n] = i]
    /\ inbound' = [inbound EXCEPT ![n] = {}]
    /\ Goto(n, "users")
    /\ UNCHANGED <<setup, uids, list, new, limiter, limited, over, pend, conn,
                   storages, events, panicked, history>>

(* Core.AddUsers for the users us of node n.                               *)
AddUsersTo(n, us) ==
    LET i == owner[n]  ks == Keys(i, n, us) IN
    /\ uids' = [uids EXCEPT ![i] = @ \cup ks]
    /\ inbound' = [inbound EXCEPT ![n] = IF Type(i) = "hysteria2" THEN {}
                                         ELSE @ \cup us]
    /\ shared' = shared \ {<<i, k>> : k \in ks}
    /\ left' = left \ {<<i, k>> : k \in ks}

AddUsers(n) ==
    /\ at[n] = "users"
    /\ AddUsersTo(n, list[n])
    /\ Goto(n, "up")
    /\ UNCHANGED <<setup, owner, list, new, limiter, limited, over, pend, conn,
                   storages, events, panicked, uncharged, missed>>

(* A poll with another user list; an empty one is taken for no change.     *)
Poll(n, us) ==
    /\ at[n] = "up" /\ us # list[n] /\ Bound
    /\ new' = [new EXCEPT ![n] = us]
    /\ Goto(n, "del")
    /\ UNCHANGED <<core, list, limiter, limited, over, pend, conn, storages,
                   panicked, history>>

(* Mutant: the uids go and the inbound keeps the users.                    *)
DelUsersUids(n) ==
    LET i == owner[n]
        ks == Keys(i, n, list[n] \ new[n])
    IN  /\ at[n] = "del"
        /\ uids' = [uids EXCEPT ![i] = @ \ ks]
        /\ left' = left \ {<<i, k>> : k \in ks}
        /\ Goto(n, "add")
        /\ UNCHANGED <<setup, owner, inbound, list, new, limiter, limited, over,
                       pend, conn, storages, events, panicked, shared, uncharged,
                       missed>>

(* Core.DelUsers.  It drops the counters and, on xray only, closes the     *)
(* connections; on sing-box they keep the storage that is dropped.         *)
DelUsers(n) ==
    LET i == owner[n]
        us == list[n] \ new[n]
        ks == Keys(i, n, us)
        cs == {c \in On(i, n) : conn[c].user \in us}
    IN  /\ at[n] = "del"
        /\ uids' = [uids EXCEPT ![i] = @ \ ks]
        /\ inbound' = [inbound EXCEPT ![n] = @ \ us]
        /\ pend' = pend \ ({i} \X {n} \X us)
        /\ conn' = IF Type(i) = "xray" THEN Drop(cs) ELSE conn
        /\ orphans' = IF Type(i) = "sing" THEN orphans \cup cs ELSE orphans
        /\ severed' = IF Type(i) = "sing"
                      THEN severed \cup {c \in Conns : conn[c].on = i /\ conn[c].user \in us}
                      ELSE severed
        /\ shared' = IF Type(i) = "xray" THEN shared
                     ELSE shared \cup {<<i, k>> : k \in ks}
        /\ left' = left \ {<<i, k>> : k \in ks}
        /\ Goto(n, "add")
        /\ UNCHANGED <<setup, owner, list, new, limiter, limited, over, events,
                       panicked, uncharged, missed>>

AddNewUsers(n) ==
    /\ at[n] = "add"
    /\ AddUsersTo(n, new[n] \ list[n])
    /\ Goto(n, "update")
    /\ UNCHANGED <<setup, owner, list, new, limiter, limited, over, pend, conn,
                   storages, events, panicked, uncharged, missed>>

(* Limiter.UpdateUser, and the new list becomes the old one.               *)
UpdateUser(n) ==
    /\ at[n] = "update"
    /\ list' = [list EXCEPT ![n] = new[n]] /\ new' = [new EXCEPT ![n] = {}]
    /\ limited' = [limited EXCEPT ![n] = new[n]]
    /\ over' = [over EXCEPT ![n] = @ \cap list[n] \cap new[n]]
    /\ missed' = missed \cup {c \in AllOf(n) :
                                 conn[c].user \notin list[n] \cap new[n]}
    /\ Goto(n, "up")
    /\ UNCHANGED <<core, limiter, pend, conn, storages, events, panicked, shared,
                   left, uncharged>>

(* Selector.DelNode and DelNode of its core: the uids stay, and of the     *)
(* hysteria2 core the counters and connections of the node go.             *)
RemoveNode(n) ==
    LET i == owner[n] IN
    /\ owner' = [owner EXCEPT ![n] = None]
    /\ inbound' = [inbound EXCEPT ![n] = {}]
    /\ pend' = IF Type(i) = "hysteria2" THEN pend \ ({i} \X {n} \X Users)
              ELSE pend
    /\ conn' = IF Type(i) = "hysteria2" THEN Drop(On(i, n)) ELSE conn
    /\ left' = left \cup {<<i, k>> : k \in Keys(i, n, list[n])}
    /\ UNCHANGED <<setup, uids, storages, shared, uncharged>>

(* Mutant: the old limiter is deleted after the new one took its tag.      *)
ReloadDeletes(n, us) ==
    /\ at[n] = "up" /\ Bound
    /\ list' = [list EXCEPT ![n] = us]
    /\ RemoveNode(n)
    /\ limiter' = [limiter EXCEPT ![n] = FALSE]
    /\ Goto(n, "node")
    /\ UNCHANGED <<new, limited, over, missed, panicked>>

(* nodeInfoMonitor with a new configuration, up to AddNode; the list may   *)
(* be new too.  Nodes without Options.Name, whose limiter is replaced.     *)
Reload(n, us) ==
    /\ at[n] = "up" /\ Bound
    /\ list' = [list EXCEPT ![n] = us]
    /\ RemoveNode(n)
    /\ AddLimiter(n, us)
    /\ Goto(n, "node")
    /\ UNCHANGED <<new, panicked>>

(* Controller.Close: the limiter first, the node last.                     *)
DeleteLimiter(n) ==
    /\ at[n] = "up" /\ Bound
    /\ limiter' = [limiter EXCEPT ![n] = FALSE]
    /\ limited' = [limited EXCEPT ![n] = {}] /\ over' = [over EXCEPT ![n] = {}]
    /\ missed' = missed \cup AllOf(n)
    /\ Goto(n, "closing")
    /\ UNCHANGED <<core, list, new, pend, conn, storages, panicked, shared, left,
                   uncharged>>

DelNode(n) ==
    /\ at[n] = "closing"
    /\ RemoveNode(n)
    /\ list' = [list EXCEPT ![n] = {}]
    /\ Goto(n, "down")
    /\ UNCHANGED <<new, limiter, limited, over, events, panicked, missed>>

(* GetUserTrafficSlice with reset: traffic of a key without a uid is       *)
(* dropped with its counter.  The hysteria2 core looks the counter up for  *)
(* all it counts, the others once for a connection.                        *)
Report(n) ==
    LET i == owner[n]
        moved == {u \in Users : <<i, n, u>> \in pend}
        lost == {u \in moved : UidKey(i, n, u) \notin uids[i]}
    IN  /\ i # None /\ moved # {}
        /\ pend' = pend \ ({i} \X {n} \X Users)
        /\ orphans' = IF Type(i) = "hysteria2" THEN orphans
                      ELSE orphans \cup {c \in On(i, n) : conn[c].user \in lost}
        /\ uncharged' = uncharged \cup
               {<<n, u>> : u \in {v \in lost \cap list[n] :
                   at[n] = "up" /\ <<i, <<None, v>>>> \notin shared}}
        /\ UNCHANGED <<core, ctl, over, conn, severed, events, panicked, shared,
                       left, missed>>

Controller(n) ==
    /\ ~panicked
    /\ \/ \E us \in Lists : Start(n, us) \/ Poll(n, us) \/ Reload(n, us)
       \/ AddNode(n) \/ AddUsers(n) \/ DelUsers(n) \/ AddNewUsers(n)
       \/ UpdateUser(n) \/ DeleteLimiter(n) \/ DelNode(n) \/ Report(n)

----------------------------------------------------------------------------
(* Connections.  CheckLimit passes or rejects users it knows (see Limiter) *)
(* and rejects the others.                                                 *)

Open(c, n, u, counted, rejected) ==
    conn' = [conn EXCEPT ![c] = [on |-> owner[n], node |-> n, user |-> u,
                                 counted |-> counted, rejected |-> rejected]]

(* Mutant: a rejection is not recorded.                                    *)
MarkNot(c, n, u, rejected) ==
    /\ rejected \/ u \in limited[n]
    /\ over' = [over EXCEPT ![n] = @ \ {u}]
    /\ missed' = missed \ {c}

(* serverLogger.Connect, TCPRequest, UDPRequest: the mark is the user's,   *)
(* set and removed by whichever connection comes last.                     *)
Mark(c, n, u, rejected) ==
    /\ rejected \/ u \in limited[n]
    /\ over' = [over EXCEPT ![n] = IF rejected /\ u \in limited[n]
                                   THEN @ \cup {u} ELSE @ \ {u}]
    /\ missed' = IF rejected THEN missed \ {c}
                 ELSE (missed \ {c}) \cup (Of(n, u) \ {c})

(* The xray dispatcher refuses, or counts (see Dispatcher).                *)
ConnectXray(c, n, u) ==
    /\ Kind(n) = "xray" /\ u \in limited[n]
    /\ Open(c, n, u, TRUE, FALSE)
    /\ UNCHANGED <<over, missed, severed, panicked>>

(* RoutedConnection, RoutedPacketConnection: without a limiter the         *)
(* connection goes on, unlimited and uncounted.                            *)
ConnectSing(c, n, u) ==
    /\ Kind(n) = "sing" /\ (limiter[n] => u \in limited[n])
    /\ Open(c, n, u, limiter[n], FALSE)
    /\ severed' = IF UidKey(owner[n], n, u) \in uids[owner[n]] THEN severed
                  ELSE severed \cup {c}
    /\ UNCHANGED <<over, missed, panicked>>

(* serverLogger.Connect: without a limiter, a panic.                       *)
ConnectHysteria(c, n, u) ==
    /\ Kind(n) = "hysteria2"
    /\ IF limiter[n]
       THEN \E rejected \in BOOLEAN :
               /\ Mark(c, n, u, rejected)
               /\ Open(c, n, u, TRUE, rejected)
               /\ UNCHANGED panicked
       ELSE panicked' = TRUE /\ UNCHANGED <<conn, over, missed>>
    /\ UNCHANGED severed

Connect(c, n, u) ==
    /\ conn[c] = NoConn /\ Admits(n, u) /\ Bound
    /\ ConnectXray(c, n, u) \/ ConnectSing(c, n, u) \/ ConnectHysteria(c, n, u)
    /\ UNCHANGED <<core, ctl, pend, orphans, shared, left, uncharged>>

(* TCPRequest or UDPRequest of an open connection.                         *)
Request(c) ==
    LET n == conn[c].node  u == conn[c].user IN
    /\ Hysteria(c)
    /\ IF limiter[n]
       THEN \E rejected \in BOOLEAN :
               /\ Mark(c, n, u, rejected)
               /\ Open(c, n, u, TRUE, rejected)
               /\ UNCHANGED panicked
       ELSE panicked' = TRUE /\ UNCHANGED <<conn, over, missed>>
    /\ UNCHANGED <<core, ctl, pend, storages, events, shared, left, uncharged>>

(* The counter of a connection that has one (xray, sing-box): the storage  *)
(* was bound when the connection was opened, and what an orphan moves is   *)
(* in no counter that a report reads.                                      *)
Attached(c) == conn[c].counted /\ ~Hysteria(c) /\ c \notin orphans
Counter(c) == <<conn[c].on, conn[c].node, conn[c].user>>

(* Traffic of a connection that is counted.                                *)
Move(c) ==
    /\ Attached(c)
    /\ pend' = pend \cup {Counter(c)}
    /\ UNCHANGED <<core, ctl, over, conn, storages, events, panicked, history>>

(* ConnCounter.Read and Write of sing-box store the size of the last       *)
(* transfer: at the end of a stream, zero, and what was counted is gone.   *)
StoreZero(c) ==
    /\ Attached(c) /\ Type(conn[c].on) = "sing" /\ Counter(c) \in pend
    /\ pend' = pend \ {Counter(c)}
    /\ UNCHANGED <<core, ctl, over, conn, storages, events, panicked, history>>

(* HookServer.LogTraffic: a marked user's traffic takes the mark away and  *)
(* ends the connection, whichever it is; so does a missing limiter.        *)
LogTraffic(c) ==
    LET n == conn[c].node  u == conn[c].user IN
    /\ Hysteria(c)
    /\ IF limiter[n] /\ u \notin over[n]
       THEN /\ pend' = pend \cup {<<conn[c].on, n, u>>}
            /\ UNCHANGED <<conn, over, missed>>
       ELSE /\ conn' = Drop({c})
            /\ over' = [over EXCEPT ![n] = @ \ {u}]
            /\ missed' = (missed \ {c}) \cup (Of(n, u) \ {c})
            /\ UNCHANGED pend
    /\ UNCHANGED <<core, ctl, storages, events, panicked, shared, left,
                   uncharged>>

(* The client leaves.                                                      *)
Disconnect(c) ==
    /\ conn[c] # NoConn
    /\ conn' = Drop({c})
    /\ missed' = missed \ {c}
    /\ orphans' = orphans \ {c} /\ severed' = severed \ {c}
    /\ UNCHANGED <<core, ctl, over, pend, events, panicked, shared, left,
                   uncharged>>

Connection(c) ==
    /\ ~panicked
    /\ \/ \E n \in Nodes, u \in Users : Connect(c, n, u)
       \/ Request(c) \/ Move(c) \/ StoreZero(c) \/ LogTraffic(c)
       \/ Disconnect(c)

Next == (\E n \in Nodes : Controller(n)) \/ (\E c \in Conns : Connection(c))

Spec == Init /\ [][Next]_vars

----------------------------------------------------------------------------
(* Maps, lists and connections keep their types; a node that is up has a   *)
(* core, one that can run it.                                              *)
CoresTypeOK ==
    /\ owner \in [Nodes -> Cores \cup {None}]
    /\ inbound \in [Nodes -> SUBSET Users]
    /\ \A i \in Cores : uids[i] \subseteq (Nodes \cup {None}) \X Users
    /\ at \in [Nodes -> {"down", "node", "users", "up", "del", "add", "update",
                         "closing"}]
    /\ list \in [Nodes -> SUBSET Users] /\ new \in [Nodes -> SUBSET Users]
    /\ limiter \in [Nodes -> BOOLEAN] /\ limited \in [Nodes -> SUBSET Users]
    /\ over \in [Nodes -> SUBSET Users] /\ pend \subseteq Cores \X Nodes \X Users
    /\ \A c \in Conns : conn[c] = NoConn \/ conn[c] \in
          [on : Cores, node : Nodes, user : Users, counted : BOOLEAN,
           rejected : BOOLEAN]
    /\ orphans \subseteq Conns /\ severed \subseteq Conns
    /\ panicked \in BOOLEAN
    /\ \A n \in Nodes :
          at[n] \in {"users", "up", "del", "add", "update", "closing"}
              => owner[n] \in Candidates(setup[n])

(* A user of a node's list can connect to it, and a report charges what    *)
(* its counter holds, unless the user was deleted from another node of a   *)
(* sing-box or hysteria2 core, which takes the uid, and on hysteria2 the   *)
(* access, from all of its nodes.  On xray, nodes do not interfere, and    *)
(* what a connection moves reaches the counter that is reported; on        *)
(* sing-box not if the uid was missing while it was open, however long ago *)
(* the user came back.                                                     *)
ListedIsServed ==
    /\ uncharged = {}
    /\ \A c \in orphans : Type(conn[c].on) = "sing" /\ c \in severed
    /\ \A n \in Nodes : at[n] = "up" =>
          \A u \in list[n] :
              \/ Admits(n, u)
              \/ Kind(n) = "hysteria2" /\ <<owner[n], <<None, u>>>> \in shared

(* Only users of a node's list can connect to it.  On hysteria2 also those *)
(* of the core's other nodes, and those dropped from a list by a reload or *)
(* left by a node that closed: DelNode does not take them from usersMap.   *)
ServedIsListed ==
    \A n \in Nodes : at[n] = "up" =>
        \A u \in Users \ list[n] : Admits(n, u) =>
            /\ Kind(n) = "hysteria2"
            /\ \/ <<owner[n], <<None, u>>>> \in left
               \/ \E m \in Nodes \ {n} : /\ owner[m] = owner[n]
                                         /\ u \in list[m] \cup new[m]

(* A hysteria2 connection that CheckLimit rejected is marked, to be ended  *)
(* by its next traffic, unless the mark was taken by another connection of *)
(* the same user or an update of the limiter, or the limiter does not know *)
(* the user, who then stays connected without a limit.                     *)
RejectedIsMarked ==
    \A c \in Conns :
        /\ conn[c].rejected /\ c \notin missed
        /\ conn[c].user \in limited[conn[c].node]
        => conn[c].user \in over[conn[c].node]

(* Limits and counters are skipped, or the process panics, only in Close,  *)
(* between DeleteLimiter and DelNode: Start and reloads have the limiter   *)
(* in place before the node.                                               *)
LimitedUnlessClosing ==
    /\ \A n \in Nodes : owner[n] # None /\ ~limiter[n] => at[n] = "closing"
    /\ panicked => \E n \in Nodes : at[n] = "closing" /\ Kind(n) = "hysteria2"

============================================================================
