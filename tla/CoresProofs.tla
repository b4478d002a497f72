---------------------------- MODULE CoresProofs ----------------------------
(* What holds of any number of nodes, users, connections and cores, of any *)
(* types and names, with any configuration of the nodes.                   *)
EXTENDS Cores, TLAPS

ConnRecs == [on : Cores \cup {None}, node : Nodes \cup {None},
             user : Users \cup {None}, counted : BOOLEAN, rejected : BOOLEAN]

(* CoresTypeOK, with what it leaves to the shape of the maps; the core of  *)
(* a node is set exactly from AddNode to DelNode.                          *)
TypeInv ==
    /\ CoresTypeOK
    /\ uids \in [Cores -> SUBSET ((Nodes \cup {None}) \X Users)]
    /\ conn \in [Conns -> ConnRecs]
    /\ setup \in Setups
    /\ \A n \in Nodes : at[n] \in {"down", "node"} <=> owner[n] = None

(* A core the selector chooses is one of the configured cores.             *)
LEMMA CandidatesAreCores ==
    ASSUME NEW o PROVE Candidates(o) \subseteq Cores
BY DEF Candidates, Selectable

(* The keys of users have the shape of a core's map.                       *)
LEMMA KeysType ==
    ASSUME NEW i, NEW n \in Nodes, NEW us \in SUBSET Users
    PROVE  Keys(i, n, us) \subseteq (Nodes \cup {None}) \X Users
BY DEF Keys, UidKey

(* Connections that are dropped are gone, the others as they were.         *)
LEMMA DropType ==
    ASSUME TypeInv, NEW cs \in SUBSET Conns
    PROVE  /\ Drop(cs) \in [Conns -> ConnRecs]
           /\ \A c \in Conns : Drop(cs)[c] = IF c \in cs THEN NoConn ELSE conn[c]
BY DEF TypeInv, Drop, NoConn, ConnRecs

(* Before any controller starts.                                           *)
LEMMA InitType == Init => TypeInv
<1> SUFFICES ASSUME Init PROVE TypeInv
  OBVIOUS
<1> USE CoresAssumption
<1>1. NoConn \in ConnRecs
  BY DEF NoConn, ConnRecs
<1>2. conn \in [Conns -> ConnRecs] /\ \A c \in Conns : conn[c] = NoConn
  BY <1>1 DEF Init
<1>3. CoresTypeOK
  BY <1>2 DEF Init, CoresTypeOK
<1> QED BY <1>2, <1>3 DEF Init, TypeInv

----------------------------------------------------------------------------
(* What each operation on a node's users does to the maps of the cores.    *)

(* AddUsers adds to the inbound of its node and to the map of its core.    *)
LEMMA AddUsersToType ==
    ASSUME TypeInv, NEW n \in Nodes, owner[n] \in Cores, NEW us \in SUBSET Users,
           AddUsersTo(n, us)
    PROVE  /\ inbound' \in [Nodes -> SUBSET Users]
           /\ uids' \in [Cores -> SUBSET ((Nodes \cup {None}) \X Users)]
           /\ uids'[owner[n]] = uids[owner[n]] \cup Keys(owner[n], n, us)
           /\ \A i \in Cores \ {owner[n]} : uids'[i] = uids[i]
           /\ inbound'[n] = IF Type(owner[n]) = "hysteria2" THEN {} ELSE inbound[n] \cup us
           /\ \A m \in Nodes \ {n} : inbound'[m] = inbound[m]
<1>1. Keys(owner[n], n, us) \subseteq (Nodes \cup {None}) \X Users
  BY KeysType
<1>2. uids' = [uids EXCEPT ![owner[n]] = @ \cup Keys(owner[n], n, us)]
  BY DEF AddUsersTo
<1>3. inbound' = [inbound EXCEPT ![n] = IF Type(owner[n]) = "hysteria2" THEN {} ELSE @ \cup us]
  BY DEF AddUsersTo
<1>4. /\ inbound \in [Nodes -> SUBSET Users]
      /\ uids \in [Cores -> SUBSET ((Nodes \cup {None}) \X Users)]
  BY DEF TypeInv, CoresTypeOK
<1> QED BY <1>1, <1>2, <1>3, <1>4

(* DelNode empties the inbound; on hysteria2 it ends the node's            *)
(* connections.                                                            *)
LEMMA RemoveNodeType ==
    ASSUME TypeInv, NEW n \in Nodes, owner[n] \in Cores, RemoveNode(n)
    PROVE  /\ owner' \in [Nodes -> Cores \cup {None}] /\ owner'[n] = None
           /\ \A m \in Nodes \ {n} : owner'[m] = owner[m]
           /\ inbound' \in [Nodes -> SUBSET Users] /\ inbound'[n] = {}
           /\ \A m \in Nodes \ {n} : inbound'[m] = inbound[m]
           /\ pend' \subseteq pend /\ conn' \in [Conns -> ConnRecs]
           /\ \A c \in Conns : conn'[c] = conn[c] \/ conn'[c] = NoConn
           /\ Type(owner[n]) = "hysteria2" =>
                 \A c \in Conns : conn[c].node = n /\ conn[c].on = owner[n]
                                  => conn'[c] = NoConn
           /\ \A c \in Conns : conn'[c] = conn[c] \/ Type(conn[c].on) = "hysteria2"
           /\ UNCHANGED <<setup, uids, storages, shared, uncharged>>
           /\ left' = left \cup {<<owner[n], k>> : k \in Keys(owner[n], n, list[n])}
<1>1. On(owner[n], n) \subseteq Conns
  BY DEF On, AllOf
<1>2. /\ owner' = [owner EXCEPT ![n] = None]
      /\ inbound' = [inbound EXCEPT ![n] = {}]
      /\ pend' \subseteq pend
      /\ conn' = IF Type(owner[n]) = "hysteria2" THEN Drop(On(owner[n], n)) ELSE conn
      /\ UNCHANGED <<setup, uids, storages, shared, uncharged>>
      /\ left' = left \cup {<<owner[n], k>> : k \in Keys(owner[n], n, list[n])}
  BY DEF RemoveNode
<1>3. /\ owner \in [Nodes -> Cores \cup {None}] /\ inbound \in [Nodes -> SUBSET Users]
      /\ conn \in [Conns -> ConnRecs]
  BY DEF TypeInv, CoresTypeOK
<1>4. /\ conn' \in [Conns -> ConnRecs]
      /\ \A c \in Conns : conn'[c] = conn[c] \/ conn'[c] = NoConn
  BY <1>1, <1>2, <1>3, DropType
<1>5. Type(owner[n]) = "hysteria2" =>
         \A c \in Conns : conn[c].node = n /\ conn[c].on = owner[n] => conn'[c] = NoConn
  BY <1>1, <1>2, DropType DEF On, AllOf
<1>6. owner'[n] = None /\ \A m \in Nodes \ {n} : owner'[m] = owner[m]
  BY <1>2, <1>3
<1>7. inbound'[n] = {} /\ \A m \in Nodes \ {n} : inbound'[m] = inbound[m]
  BY <1>2, <1>3
<1>8. owner' \in [Nodes -> Cores \cup {None}] /\ inbound' \in [Nodes -> SUBSET Users]
  BY <1>2, <1>3
<1>9. \A c \in Conns : conn'[c] = conn[c] \/ Type(conn[c].on) = "hysteria2"
  BY <1>1, <1>2, DropType DEF On, AllOf
<1> QED BY <1>2, <1>4, <1>5, <1>6, <1>7, <1>8, <1>9

(* DelUsers.                                                               *)
LEMMA DelUsersType ==
    ASSUME TypeInv, NEW n \in Nodes, owner[n] \in Cores, DelUsers(n)
    PROVE  /\ inbound' \in [Nodes -> SUBSET Users]
           /\ uids' \in [Cores -> SUBSET ((Nodes \cup {None}) \X Users)]
           /\ uids'[owner[n]] = uids[owner[n]] \ Keys(owner[n], n, list[n] \ new[n])
           /\ \A i \in Cores \ {owner[n]} : uids'[i] = uids[i]
           /\ inbound'[n] = inbound[n] \ (list[n] \ new[n])
           /\ \A m \in Nodes \ {n} : inbound'[m] = inbound[m]
           /\ pend' \subseteq pend /\ conn' \in [Conns -> ConnRecs]
           /\ \A c \in Conns : conn'[c] = conn[c] \/ conn'[c] = NoConn
<1> DEFINE us == list[n] \ new[n]
           cs == {c \in On(owner[n], n) : conn[c].user \in us}
<1>1. cs \subseteq Conns
  BY DEF On, AllOf
<1>2. /\ uids' = [uids EXCEPT ![owner[n]] = @ \ Keys(owner[n], n, us)]
      /\ inbound' = [inbound EXCEPT ![n] = @ \ us]
      /\ pend' \subseteq pend
      /\ conn' = IF Type(owner[n]) = "xray" THEN Drop(cs) ELSE conn
  BY DEF DelUsers
<1> HIDE DEF us, cs
<1>3. /\ inbound \in [Nodes -> SUBSET Users] /\ conn \in [Conns -> ConnRecs]
      /\ uids \in [Cores -> SUBSET ((Nodes \cup {None}) \X Users)]
  BY DEF TypeInv, CoresTypeOK
<1>4. /\ conn' \in [Conns -> ConnRecs]
      /\ \A c \in Conns : conn'[c] = conn[c] \/ conn'[c] = NoConn
  BY <1>1, <1>2, <1>3, DropType
<1>5. /\ uids' \in [Cores -> SUBSET ((Nodes \cup {None}) \X Users)]
      /\ uids'[owner[n]] = uids[owner[n]] \ Keys(owner[n], n, us)
      /\ \A i \in Cores \ {owner[n]} : uids'[i] = uids[i]
  BY <1>2, <1>3
<1>6. /\ inbound' \in [Nodes -> SUBSET Users]
      /\ inbound'[n] = inbound[n] \ us
      /\ \A m \in Nodes \ {n} : inbound'[m] = inbound[m]
  BY <1>2, <1>3
<1> QED BY <1>2, <1>4, <1>5, <1>6 DEF us

----------------------------------------------------------------------------
Stages == {"down", "node", "users", "up", "del", "add", "update", "closing"}

(* The state without the connections.                                      *)
ControlType ==
    /\ owner \in [Nodes -> Cores \cup {None}]
    /\ inbound \in [Nodes -> SUBSET Users]
    /\ uids \in [Cores -> SUBSET ((Nodes \cup {None}) \X Users)]
    /\ at \in [Nodes -> Stages]
    /\ list \in [Nodes -> SUBSET Users] /\ new \in [Nodes -> SUBSET Users]
    /\ limiter \in [Nodes -> BOOLEAN] /\ limited \in [Nodes -> SUBSET Users]
    /\ over \in [Nodes -> SUBSET Users]
    /\ setup \in Setups

(* TypeInv from its parts, for a step.                                     *)
ConnType == conn \in [Conns -> ConnRecs] /\ \A c \in Conns : conn[c] = NoConn \/ conn[c] \in
          [on : Cores, node : Nodes, user : Users, counted : BOOLEAN,
           rejected : BOOLEAN]
OwnerType ==
    /\ \A n \in Nodes : at[n] \in {"down", "node"} <=> owner[n] = None
    /\ \A n \in Nodes :
          at[n] \in {"users", "up", "del", "add", "update", "closing"}
              => owner[n] \in Candidates(setup[n])

StorageType == orphans \subseteq Conns /\ severed \subseteq Conns

OtherType == /\ pend \subseteq Cores \X Nodes \X Users /\ panicked \in BOOLEAN
             /\ StorageType

(* The parts of TypeInv, which the steps disturb one by one.               *)
LEMMA TypeParts == TypeInv <=> ControlType /\ ConnType /\ OwnerType /\ OtherType
<1>1. TypeInv => ControlType /\ ConnType /\ OwnerType
  BY DEF TypeInv, CoresTypeOK, ControlType, ConnType, OwnerType, Stages
<1>2. TypeInv => OtherType
  BY DEF TypeInv, CoresTypeOK, OtherType, StorageType
<1>3. ControlType /\ ConnType /\ OwnerType /\ OtherType => TypeInv
  BY DEF TypeInv, CoresTypeOK, ControlType, ConnType, OwnerType, OtherType, StorageType,
         Stages
<1> QED BY <1>1, <1>2, <1>3

(* A node that is up has a core.                                           *)
LEMMA HasCore ==
    ASSUME TypeInv, NEW n \in Nodes, at[n] \notin {"down", "node"}
    PROVE  owner[n] \in Cores /\ owner[n] \in Candidates(setup[n])
<1>1. at[n] \in {"users", "up", "del", "add", "update", "closing"}
  BY DEF TypeInv, CoresTypeOK
<1> QED BY <1>1, CandidatesAreCores DEF TypeInv, CoresTypeOK

(* A step of a controller records connections only.                        *)
LEMMA StorageSteps ==
    ASSUME TypeInv, NEW n \in Nodes, Controller(n) PROVE StorageType'
<1>1. StorageType
  BY TypeParts DEF OtherType
<1>2. CASE DelUsers(n) \/ Report(n)
  BY <1>1, <1>2 DEF DelUsers, Report, On, AllOf, StorageType
<1>3. CASE ~(DelUsers(n) \/ Report(n))
  <2>1. UNCHANGED <<orphans, severed>>
    BY <1>3 DEF Controller, Start, Poll, Reload, AddNode, AddUsers, AddNewUsers,
                UpdateUser, DeleteLimiter, DelNode, RemoveNode, storages
  <2> QED BY <1>1, <2>1 DEF StorageType
<1> QED BY <1>2, <1>3

(* The steps of a controller that leave the cores alone.                   *)
LEMMA ControlSteps ==
    ASSUME TypeInv, NEW n \in Nodes, StorageType',
           \/ \E us \in Lists : Start(n, us) \/ Poll(n, us)
           \/ UpdateUser(n) \/ DeleteLimiter(n) \/ Report(n)
    PROVE  TypeInv'
<1> USE CoresAssumption
<1>0. ControlType
  BY TypeParts
<1>1. ControlType'
  <2>1. CASE \E us \in Lists : Start(n, us)
    BY <1>0, <2>1 DEF ControlType, Start, AddLimiter, Goto, core, Stages
  <2>2. CASE \E us \in Lists : Poll(n, us)
    BY <1>0, <2>2 DEF ControlType, Poll, Goto, core, Stages
  <2>3. CASE UpdateUser(n)
    BY <1>0, <2>3 DEF ControlType, UpdateUser, Goto, core, Stages
  <2>4. CASE DeleteLimiter(n)
    BY <1>0, <2>4 DEF ControlType, DeleteLimiter, Goto, core, Stages
  <2>5. CASE Report(n)
    BY <1>0, <2>5 DEF ControlType, Report, core, ctl
  <2> QED BY <2>1, <2>2, <2>3, <2>4, <2>5
<1>2. conn' = conn /\ pend' \subseteq pend /\ panicked' = panicked
      /\ UNCHANGED <<owner, setup>>
  BY DEF Start, Poll, UpdateUser, DeleteLimiter, Report, core
<1>3. OwnerType'
  <2>1. /\ \A m \in Nodes \ {n} : at'[m] = at[m]
        /\ at'[n] = at[n] \/ (at[n] = "down" /\ at'[n] = "node")
           \/ (at[n] \in {"up", "update"} /\ at'[n] \in {"del", "up", "closing"})
    BY TypeParts DEF ControlType, Start, Poll, UpdateUser, DeleteLimiter, Report, Goto, ctl
  <2> QED BY <1>2, <2>1, TypeParts DEF OwnerType
<1>4. ConnType' /\ OtherType'
  BY <1>2, TypeParts DEF ConnType, OtherType
<1> QED BY <1>1, <1>3, <1>4, TypeParts, PTL

(* The steps of a controller that call its core.                           *)
LEMMA CoreSteps ==
    ASSUME TypeInv, NEW n \in Nodes, StorageType',
           \/ AddNode(n) \/ AddUsers(n) \/ DelUsers(n) \/ AddNewUsers(n)
           \/ \E us \in Lists : Reload(n, us)
           \/ DelNode(n)
    PROVE  TypeInv'
<1> USE CoresAssumption
<1>0. ControlType /\ ConnType /\ OwnerType /\ OtherType
  BY TypeParts
<1>a. ControlType' /\ ConnType' /\ OwnerType' /\ pend' \subseteq pend /\ panicked' = panicked
      => TypeInv'
  <2>1. pend' \subseteq pend /\ panicked' = panicked => OtherType'
    BY <1>0 DEF OtherType
  <2>2. ControlType' /\ ConnType' /\ OwnerType' /\ OtherType' => TypeInv'
    BY TypeParts, PTL
  <2> QED BY <2>1, <2>2
<1>1. CASE AddNode(n)
  <2>1. /\ at[n] = "node" /\ UNCHANGED <<conn, pend, panicked, setup>>
        /\ at' = [at EXCEPT ![n] = "users"]
    BY <1>1 DEF AddNode, Goto
  <2>2. PICK i \in Candidates(setup[n]) : owner' = [owner EXCEPT ![n] = i]
    BY <1>1 DEF AddNode
  <2>3. i \in Cores /\ i # None
    BY CandidatesAreCores
  <2>4. ControlType'
    BY <1>0, <1>1, <2>1, <2>2, <2>3 DEF ControlType, AddNode, Stages
  <2>5. OwnerType'
    BY <1>0, <2>1, <2>2, <2>3 DEF OwnerType, ControlType
  <2> QED BY <1>0, <1>a, <2>1, <2>4, <2>5 DEF ConnType
<1>2. CASE AddUsers(n) \/ AddNewUsers(n)
  <2>1. /\ at[n] \in {"users", "add"}
        /\ at' \in [Nodes -> Stages] /\ at'[n] \in {"up", "update"}
        /\ \A m \in Nodes \ {n} : at'[m] = at[m]
        /\ \E us \in SUBSET Users : AddUsersTo(n, us)
        /\ UNCHANGED <<conn, pend, panicked, setup, owner, list, new, limiter, limited, over>>
    BY <1>0, <1>2 DEF AddUsers, AddNewUsers, Goto, ControlType, Stages
  <2>2. owner[n] \in Cores
    BY <2>1, HasCore
  <2>3. /\ inbound' \in [Nodes -> SUBSET Users]
        /\ uids' \in [Cores -> SUBSET ((Nodes \cup {None}) \X Users)]
    BY <2>1, <2>2, AddUsersToType
  <2>4. ControlType'
    BY <1>0, <2>1, <2>3 DEF ControlType
  <2>5. OwnerType'
    BY <1>0, <2>1 DEF OwnerType, ControlType
  <2> QED BY <1>0, <1>a, <2>1, <2>4, <2>5 DEF ConnType
<1>3. CASE DelUsers(n)
  <2>1. /\ at[n] = "del" /\ at' = [at EXCEPT ![n] = "add"]
        /\ UNCHANGED <<panicked, setup, owner, list, new, limiter, limited, over>>
    BY <1>3 DEF DelUsers, Goto
  <2>2. owner[n] \in Cores
    BY <2>1, HasCore
  <2>3. /\ inbound' \in [Nodes -> SUBSET Users]
        /\ uids' \in [Cores -> SUBSET ((Nodes \cup {None}) \X Users)]
        /\ pend' \subseteq pend /\ conn' \in [Conns -> ConnRecs]
        /\ \A c \in Conns : conn'[c] = conn[c] \/ conn'[c] = NoConn
    BY <1>3, <2>2, DelUsersType
  <2>4. ControlType'
    BY <1>0, <2>1, <2>3 DEF ControlType, Stages
  <2>5. OwnerType'
    BY <1>0, <2>1 DEF OwnerType, ControlType
  <2>6. ConnType'
    BY <1>0, <2>3 DEF ConnType
  <2> QED BY <1>a, <2>1, <2>3, <2>4, <2>5, <2>6
<1>4. CASE (\E us \in Lists : Reload(n, us)) \/ DelNode(n)
  <2>1. /\ at[n] \in {"up", "closing"} /\ RemoveNode(n)
        /\ at' \in [Nodes -> Stages] /\ at'[n] \in {"node", "down"}
        /\ \A m \in Nodes \ {n} : at'[m] = at[m]
        /\ UNCHANGED <<panicked, new>>
    BY <1>0, <1>4 DEF Reload, DelNode, Goto, ControlType, Stages
  <2>a. /\ list' \in [Nodes -> SUBSET Users] /\ limiter' \in [Nodes -> BOOLEAN]
        /\ limited' \in [Nodes -> SUBSET Users] /\ over' \in [Nodes -> SUBSET Users]
    <3>1. CASE DelNode(n)
      BY <1>0, <3>1 DEF DelNode, ControlType
    <3>2. ASSUME NEW us \in Lists, Reload(n, us)
          PROVE  /\ list' \in [Nodes -> SUBSET Users] /\ limiter' \in [Nodes -> BOOLEAN]
                 /\ limited' \in [Nodes -> SUBSET Users] /\ over' \in [Nodes -> SUBSET Users]
      BY <1>0, <3>2 DEF Reload, AddLimiter, ControlType
    <3> QED BY <1>4, <3>1, <3>2
  <2>2. owner[n] \in Cores
    BY <2>1, HasCore
  <2>3. /\ owner' \in [Nodes -> Cores \cup {None}] /\ owner'[n] = None
        /\ \A m \in Nodes \ {n} : owner'[m] = owner[m]
        /\ inbound' \in [Nodes -> SUBSET Users]
        /\ pend' \subseteq pend /\ conn' \in [Conns -> ConnRecs]
        /\ \A c \in Conns : conn'[c] = conn[c] \/ conn'[c] = NoConn
        /\ UNCHANGED <<setup, uids>>
    BY <2>1, <2>2, RemoveNodeType
  <2>4. ControlType'
    BY <1>0, <2>1, <2>3, <2>a DEF ControlType
  <2>5. OwnerType'
    BY <1>0, <2>1, <2>3 DEF OwnerType, ControlType
  <2>6. ConnType'
    BY <1>0, <2>3 DEF ConnType
  <2> QED BY <1>a, <2>1, <2>3, <2>4, <2>5, <2>6
<1> QED BY <1>1, <1>2, <1>3, <1>4

(* A step of a connection changes only it, the marks and the counters.     *)
LEMMA ConnectionFrame ==
    ASSUME NEW c \in Conns, Connection(c)
    PROVE  UNCHANGED <<core, ctl, shared, left, uncharged>>
BY DEF Connection, Connect, Request, Move, StoreZero, LogTraffic, Disconnect, history

(* An open connection has a core, a node and a user.                       *)
LEMMA OpenIsTyped ==
    ASSUME TypeInv, NEW c \in Conns, conn[c] # NoConn
    PROVE  conn[c].on \in Cores /\ conn[c].node \in Nodes /\ conn[c].user \in Users
BY DEF TypeInv, CoresTypeOK

(* Connect and Request write a connection, Mark the marks of its user.     *)
LEMMA OpenType ==
    ASSUME TypeInv, NEW c \in Conns, NEW n \in Nodes, owner[n] \in Cores, NEW u \in Users,
           NEW counted \in BOOLEAN, NEW rejected \in BOOLEAN,
           Open(c, n, u, counted, rejected)
    PROVE  /\ ConnType'
           /\ conn'[c].on = owner[n] /\ conn'[c].node = n /\ conn'[c].user = u
           /\ conn'[c].rejected = rejected
           /\ \A d \in Conns \ {c} : conn'[d] = conn[d]
<1> DEFINE r == [on |-> owner[n], node |-> n, user |-> u, counted |-> counted,
                 rejected |-> rejected]
<1>1. conn' = [conn EXCEPT ![c] = r]
  BY DEF Open
<1>2. /\ r \in ConnRecs
      /\ r \in [on : Cores, node : Nodes, user : Users, counted : BOOLEAN,
                rejected : BOOLEAN]
      /\ r.on = owner[n] /\ r.node = n /\ r.user = u /\ r.rejected = rejected
  BY DEF ConnRecs
<1>3. ConnType
  BY TypeParts
<1> HIDE DEF r
<1>4. conn'[c] = r /\ \A d \in Conns \ {c} : conn'[d] = conn[d]
  BY <1>1, <1>3 DEF ConnType
<1>5. ConnType'
  BY <1>1, <1>2, <1>3, <1>4 DEF ConnType
<1> QED BY <1>2, <1>4, <1>5

----------------------------------------------------------------------------
(* From Start to Close a node has a limiter, which knows the users of its  *)
(* list; a hysteria2 connection does not outlive its node's inbound.       *)
LimitInv ==
    /\ \A n \in Nodes : at[n] \in {"node", "users", "up", "del", "add", "update"}
                         => limiter[n] /\ limited[n] = list[n]
    /\ \A c \in Conns : Hysteria(c) => owner[conn[c].node] = conn[c].on
    /\ panicked => \E n \in Nodes : at[n] = "closing" /\ Kind(n) = "hysteria2"

(* Connect or Request admits a connection and sets or takes its mark.      *)
LEMMA Opened ==
    ASSUME TypeInv, LimitInv, RejectedIsMarked, NEW c \in Conns,
           NEW n \in Nodes, owner[n] \in Cores, NEW u \in Users,
           NEW counted \in BOOLEAN, NEW rejected \in BOOLEAN,
           Open(c, n, u, counted, rejected),
           UNCHANGED <<core, ctl, pend, panicked>>, StorageType',
           \/ Mark(c, n, u, rejected)
           \/ ~rejected /\ UNCHANGED <<over, missed>>
    PROVE  TypeInv' /\ LimitInv' /\ RejectedIsMarked'
<1> USE CoresAssumption
<1>0. ControlType /\ ConnType /\ OwnerType /\ OtherType
  BY TypeParts
<1>a. UNCHANGED <<setup, owner, inbound, uids, at, list, new, limiter, limited>>
  BY DEF core, ctl
<1>1. /\ ConnType'
      /\ conn'[c].on = owner[n] /\ conn'[c].node = n /\ conn'[c].user = u
      /\ conn'[c].rejected = rejected
      /\ \A d \in Conns \ {c} : conn'[d] = conn[d]
  BY OpenType
<1>2. /\ over' \in [Nodes -> SUBSET Users]
      /\ \A m \in Nodes \ {n} : over'[m] = over[m]
      /\ \A v \in Users \ {u} : v \in over[n] => v \in over'[n]
      /\ rejected /\ u \in limited[n] => u \in over'[n]
  BY <1>0 DEF Mark, ControlType
<1>3. TypeInv'
  <2>1. ControlType'
    BY <1>0, <1>a, <1>2 DEF ControlType
  <2>2. OwnerType' /\ OtherType'
    BY <1>0, <1>a DEF OwnerType, OtherType
  <2> QED BY <1>1, <2>1, <2>2, TypeParts, PTL
<1>4. LimitInv'
  BY <1>a, <1>1 DEF LimitInv, Hysteria, Kind
<1>5. RejectedIsMarked'
  <2> SUFFICES ASSUME NEW d \in Conns, conn'[d].rejected, d \notin missed',
                      conn'[d].user \in limited[conn'[d].node]
               PROVE  conn'[d].user \in over'[conn'[d].node]
    BY <1>a DEF RejectedIsMarked
  <2>1. CASE d = c
    BY <1>1, <1>2, <2>1
  <2>2. CASE d # c
    <3>1. conn'[d] = conn[d] /\ conn[d] # NoConn
      BY <1>1, <2>2 DEF NoConn
    <3>2. conn[d].node \in Nodes /\ conn[d].user \in Users
      BY <3>1, OpenIsTyped
    <3>3. CASE conn[d].node = n /\ conn[d].user = u
      <4>1. u \in limited[n]
        BY <3>1, <3>3
      <4>2. CASE Mark(c, n, u, rejected)
        <5>1. rejected
          BY <2>2, <3>3, <4>2 DEF Mark, Of, AllOf
        <5> QED BY <1>2, <3>1, <3>3, <4>1, <5>1
      <4>3. CASE UNCHANGED <<over, missed>>
        BY <3>1, <4>3 DEF RejectedIsMarked
      <4> QED BY <4>2, <4>3
    <3>4. CASE ~(conn[d].node = n /\ conn[d].user = u)
      <4>1. d \notin missed
        BY <2>2 DEF Mark
      <4>2. conn[d].user \in over[conn[d].node]
        BY <3>1, <4>1 DEF RejectedIsMarked
      <4> QED BY <1>2, <3>1, <3>2, <3>4, <4>2
    <3> QED BY <3>3, <3>4
  <2> QED BY <2>1, <2>2
<1> QED BY <1>3, <1>4, <1>5

(* A connection ends; LogTraffic has taken the mark of its user.           *)
LEMMA Ended ==
    ASSUME TypeInv, LimitInv, RejectedIsMarked, NEW c \in Conns, conn[c] # NoConn,
           conn' = Drop({c}), UNCHANGED <<core, ctl, pend, panicked>>, StorageType',
           \/ UNCHANGED over /\ missed' = missed \ {c}
           \/ /\ over' = [over EXCEPT ![conn[c].node] = @ \ {conn[c].user}]
              /\ missed' = (missed \ {c}) \cup (Of(conn[c].node, conn[c].user) \ {c})
    PROVE  TypeInv' /\ LimitInv' /\ RejectedIsMarked'
<1> USE CoresAssumption
<1>0. ControlType /\ ConnType /\ OwnerType /\ OtherType
  BY TypeParts
<1>a. UNCHANGED <<setup, owner, inbound, uids, at, list, new, limiter, limited>>
  BY DEF core, ctl
<1>b. conn[c].node \in Nodes /\ conn[c].user \in Users
  BY OpenIsTyped
<1>1. /\ conn' \in [Conns -> ConnRecs] /\ conn'[c] = NoConn
      /\ \A d \in Conns \ {c} : conn'[d] = conn[d]
  BY DropType
<1>2. over' \in [Nodes -> SUBSET Users]
  BY <1>0, <1>b DEF ControlType
<1>3. TypeInv'
  <2>1. ControlType'
    BY <1>0, <1>a, <1>2 DEF ControlType
  <2>2. OwnerType' /\ OtherType'
    BY <1>0, <1>a DEF OwnerType, OtherType
  <2>3. ConnType'
    BY <1>0, <1>1 DEF ConnType
  <2> QED BY <2>1, <2>2, <2>3, TypeParts, PTL
<1>4. LimitInv'
  <2>1. \A d \in Conns : Hysteria(d)' => d # c /\ Hysteria(d)
    <3>1. NoConn.on = None
      BY DEF NoConn
    <3> QED BY <1>1, <3>1 DEF Hysteria
  <2>2. ASSUME NEW d \in Conns, Hysteria(d)' PROVE owner'[conn'[d].node] = conn'[d].on
    <3>1. d # c /\ Hysteria(d)
      BY <2>1, <2>2
    <3>2. owner[conn[d].node] = conn[d].on
      BY <3>1 DEF LimitInv, Hysteria
    <3>3. conn'[d] = conn[d]
      BY <1>1, <3>1
    <3> QED BY <1>a, <3>2, <3>3
  <2> QED BY <1>a, <2>2 DEF LimitInv, Kind
<1>5. RejectedIsMarked'
  <2> SUFFICES ASSUME NEW d \in Conns, conn'[d].rejected, d \notin missed',
                      conn'[d].user \in limited[conn'[d].node]
               PROVE  conn'[d].user \in over'[conn'[d].node]
    BY <1>a DEF RejectedIsMarked
  <2>0. NoConn.rejected = FALSE
    BY DEF NoConn
  <2>1. d # c /\ conn'[d] = conn[d] /\ conn[d] # NoConn
    BY <1>1, <2>0
  <2>2. conn[d].node \in Nodes /\ conn[d].user \in Users
    BY <2>1, OpenIsTyped
  <2>3. conn[d].user \in over[conn[d].node]
    BY <2>1 DEF RejectedIsMarked
  <2>4. CASE UNCHANGED over
    BY <2>1, <2>3, <2>4
  <2>5. CASE /\ over' = [over EXCEPT ![conn[c].node] = @ \ {conn[c].user}]
             /\ missed' = (missed \ {c}) \cup (Of(conn[c].node, conn[c].user) \ {c})
    <3>1. ~(conn[d].node = conn[c].node /\ conn[d].user = conn[c].user)
      BY <2>1, <2>5 DEF Of, AllOf
    <3> QED BY <1>0, <1>b, <2>1, <2>2, <2>3, <2>5, <3>1 DEF ControlType
  <2> QED BY <2>4, <2>5
<1> QED BY <1>3, <1>4, <1>5

(* Without a limiter a callback of hysteria2 panics: its node is closing.  *)
LEMMA Panics ==
    ASSUME TypeInv, LimitInv, RejectedIsMarked, NEW n \in Nodes,
           Kind(n) = "hysteria2", ~limiter[n], panicked' = TRUE,
           UNCHANGED <<core, ctl, pend, conn, over, missed>>, StorageType'
    PROVE  TypeInv' /\ LimitInv' /\ RejectedIsMarked'
<1> USE CoresAssumption
<1>0. ControlType /\ ConnType /\ OwnerType /\ OtherType
  BY TypeParts
<1>a. UNCHANGED <<setup, owner, inbound, uids, at, list, new, limiter, limited>>
  BY DEF core, ctl
<1>1. owner[n] # None
  BY DEF Kind
<1>2. at[n] = "closing"
  BY <1>0, <1>1 DEF LimitInv, ControlType, OwnerType, Stages
<1>3. TypeInv'
  <2>1. ControlType'
    BY <1>0, <1>a DEF ControlType
  <2>2. OwnerType' /\ OtherType' /\ ConnType'
    BY <1>0, <1>a DEF OwnerType, OtherType, ConnType
  <2> QED BY <2>1, <2>2, TypeParts, PTL
<1>4. LimitInv'
  BY <1>a, <1>2 DEF LimitInv, Hysteria, Kind
<1>5. RejectedIsMarked'
  BY <1>a DEF RejectedIsMarked
<1> QED BY <1>3, <1>4, <1>5

(* Traffic is counted for the core and the node of its connection.         *)
LEMMA Counted ==
    ASSUME TypeInv, LimitInv, RejectedIsMarked, NEW c \in Conns, conn[c] # NoConn,
           pend' \subseteq pend \cup {<<conn[c].on, conn[c].node, conn[c].user>>},
           UNCHANGED <<core, ctl, panicked, conn, over, missed>>, StorageType'
    PROVE  TypeInv' /\ LimitInv' /\ RejectedIsMarked'
<1>0. ControlType /\ ConnType /\ OwnerType /\ OtherType
  BY TypeParts
<1>a. UNCHANGED <<setup, owner, inbound, uids, at, list, new, limiter, limited>>
  BY DEF core, ctl
<1>1. OtherType'
  BY <1>0, OpenIsTyped DEF OtherType
<1>2. ControlType'
  BY <1>0, <1>a DEF ControlType
<1>3. OwnerType' /\ ConnType'
  BY <1>0, <1>a DEF OwnerType, ConnType
<1>4. TypeInv'
  BY <1>1, <1>2, <1>3, TypeParts, PTL
<1>5. LimitInv' /\ RejectedIsMarked'
  BY <1>a DEF LimitInv, Hysteria, Kind, RejectedIsMarked
<1> QED BY <1>4, <1>5

(* Every step of a connection keeps the invariants.                        *)
LEMMA ConnectionStep ==
    ASSUME TypeInv, LimitInv, RejectedIsMarked, NEW c \in Conns, Connection(c)
    PROVE  TypeInv' /\ LimitInv' /\ RejectedIsMarked'
<1> USE CoresAssumption
<1> DEFINE Goal == TypeInv' /\ LimitInv' /\ RejectedIsMarked'
<1>a. UNCHANGED <<core, ctl>>
  BY ConnectionFrame
<1>b. NoConn.on = None /\ NoConn.counted = FALSE
  BY DEF NoConn
<1>s. StorageType'
  BY TypeParts DEF OtherType, StorageType, Connection, Connect, ConnectXray, ConnectSing,
       ConnectHysteria, Request, Move, StoreZero, LogTraffic, Disconnect, storages
<1>1. ASSUME NEW n \in Nodes, NEW u \in Users, Connect(c, n, u) PROVE Goal
  <2>1. owner[n] \in Cores /\ limiter[n] \in BOOLEAN /\ pend' = pend
    BY <1>1 DEF Connect, Admits, TypeInv, CoresTypeOK
  <2>2. CASE ConnectXray(c, n, u)
    BY <1>a, <1>s, <2>1, <2>2, Opened DEF ConnectXray
  <2>3. CASE ConnectSing(c, n, u)
    BY <1>a, <1>s, <2>1, <2>3, Opened DEF ConnectSing
  <2>4. CASE ConnectHysteria(c, n, u) /\ limiter[n]
    BY <1>a, <1>s, <2>1, <2>4, Opened DEF ConnectHysteria
  <2>5. CASE ConnectHysteria(c, n, u) /\ ~limiter[n]
    BY <1>a, <1>s, <2>1, <2>5, Panics DEF ConnectHysteria
  <2> QED BY <1>1, <2>2, <2>3, <2>4, <2>5 DEF Connect
<1>2. CASE Hysteria(c) /\ (Request(c) \/ LogTraffic(c))
  <2>1. /\ conn[c] # NoConn /\ conn[c].node \in Nodes /\ conn[c].user \in Users
        /\ conn[c].on \in Cores /\ Type(conn[c].on) = "hysteria2"
    BY <1>2, <1>b, OpenIsTyped DEF Hysteria
  <2>2. owner[conn[c].node] = conn[c].on /\ Kind(conn[c].node) = "hysteria2"
    BY <1>2, <2>1 DEF LimitInv, Kind
  <2>3. CASE Request(c) /\ limiter[conn[c].node]
    BY <1>a, <1>s, <2>1, <2>2, <2>3, Opened DEF Request
  <2>4. CASE Request(c) /\ ~limiter[conn[c].node]
    BY <1>a, <1>s, <2>1, <2>2, <2>4, Panics DEF Request
  <2>5. CASE LogTraffic(c) /\ limiter[conn[c].node] /\ conn[c].user \notin over[conn[c].node]
    BY <1>a, <1>s, <2>1, <2>5, Counted DEF LogTraffic
  <2>6. CASE LogTraffic(c) /\ ~(limiter[conn[c].node] /\ conn[c].user \notin over[conn[c].node])
    BY <1>a, <1>s, <2>1, <2>6, Ended DEF LogTraffic
  <2> QED BY <1>2, <2>3, <2>4, <2>5, <2>6
<1>3. CASE Move(c) \/ StoreZero(c)
  BY <1>a, <1>b, <1>s, <1>3, Counted DEF Move, StoreZero, Attached, Counter, history
<1>4. CASE Disconnect(c)
  BY <1>a, <1>s, <1>4, Ended DEF Disconnect
<1> QED BY <1>1, <1>2, <1>3, <1>4 DEF Connection, Request, LogTraffic

(* A step of a controller ends connections at most, changes the limiter of *)
(* its node only, and forgets marks only of connections it records.        *)
LEMMA ControllerFrame ==
    ASSUME TypeInv, LimitInv, RejectedIsMarked, NEW n \in Nodes, ~panicked',
           \A c \in Conns : conn'[c] = conn[c] \/ conn'[c] = NoConn,
           \A c \in Conns : Hysteria(c) /\ conn[c].node = n /\ owner'[n] # owner[n]
                            => conn'[c] = NoConn,
           \A m \in Nodes \ {n} : /\ at'[m] = at[m] /\ owner'[m] = owner[m]
                                  /\ limiter'[m] = limiter[m] /\ limited'[m] = limited[m]
                                  /\ list'[m] = list[m] /\ over'[m] = over[m],
           at'[n] \in {"node", "users", "up", "del", "add", "update"}
              => limiter'[n] /\ limited'[n] = list'[n],
           missed \subseteq missed',
           \A c \in Conns : conn[c].node = n /\ c \notin missed'
                /\ conn[c].user \in limited'[n]
                => /\ conn[c].user \in limited[n]
                   /\ conn[c].user \in over[n] => conn[c].user \in over'[n]
    PROVE  LimitInv' /\ RejectedIsMarked'
<1> USE CoresAssumption
<1>0. NoConn.on = None /\ NoConn.rejected = FALSE
  BY DEF NoConn
<1>1. LimitInv'
  <2>1. ASSUME NEW c \in Conns, Hysteria(c)' PROVE owner'[conn'[c].node] = conn'[c].on
    <3>1. conn'[c] = conn[c] /\ conn[c] # NoConn /\ Hysteria(c)
      BY <1>0, <2>1 DEF Hysteria
    <3>2. conn[c].node \in Nodes
      BY <3>1, OpenIsTyped
    <3>3. owner[conn[c].node] = conn[c].on
      BY <3>1 DEF LimitInv, Hysteria
    <3>4. owner'[conn[c].node] = owner[conn[c].node]
      BY <3>1, <3>2
    <3> QED BY <3>1, <3>3, <3>4
  <2>2. \A m \in Nodes : at'[m] \in {"node", "users", "up", "del", "add", "update"}
                         => limiter'[m] /\ limited'[m] = list'[m]
    BY DEF LimitInv
  <2> QED BY <2>1, <2>2 DEF LimitInv
<1>2. RejectedIsMarked'
  <2> SUFFICES ASSUME NEW c \in Conns, conn'[c].rejected, c \notin missed',
                      conn'[c].user \in limited'[conn'[c].node]
               PROVE  conn'[c].user \in over'[conn'[c].node]
    BY DEF RejectedIsMarked
  <2>1. conn'[c] = conn[c] /\ conn[c] # NoConn
    BY <1>0
  <2>2. conn[c].node \in Nodes
    BY <2>1, OpenIsTyped
  <2>3. CASE conn[c].node = n
    <3>1. conn[c].user \in limited[n]
      BY <2>1, <2>3
    <3>2. conn[c].user \in over[n]
      BY <2>1, <2>3, <3>1 DEF RejectedIsMarked
    <3> QED BY <2>1, <2>3, <3>2
  <2>4. CASE conn[c].node # n
    BY <2>1, <2>2, <2>4 DEF RejectedIsMarked
  <2> QED BY <2>3, <2>4
<1> QED BY <1>1, <1>2

(* Every step of a controller keeps limiters and marks.                    *)
LEMMA ControllerLimit ==
    ASSUME TypeInv, LimitInv, RejectedIsMarked, NEW n \in Nodes, Controller(n)
    PROVE  LimitInv' /\ RejectedIsMarked'
<1> USE CoresAssumption
<1>0. ControlType
  BY TypeParts
<1>a. ~panicked'
  BY DEF Controller, Start, Poll, Reload, AddNode, AddUsers, DelUsers, AddNewUsers,
     UpdateUser, DeleteLimiter, DelNode, Report
<1>1. ASSUME NEW us \in Lists, Start(n, us) PROVE LimitInv' /\ RejectedIsMarked'
  <2>1. /\ UNCHANGED <<conn, owner>> /\ missed' = missed \cup AllOf(n)
        /\ list' = [list EXCEPT ![n] = us] /\ limiter' = [limiter EXCEPT ![n] = TRUE]
        /\ limited' = [limited EXCEPT ![n] = us] /\ over' = [over EXCEPT ![n] = {}]
        /\ at' = [at EXCEPT ![n] = "node"]
    BY <1>1 DEF Start, AddLimiter, Goto, core
  <2>2. /\ limiter'[n] /\ limited'[n] = list'[n]
        /\ \A m \in Nodes \ {n} : /\ at'[m] = at[m] /\ limiter'[m] = limiter[m]
                                  /\ limited'[m] = limited[m] /\ list'[m] = list[m]
                                  /\ over'[m] = over[m]
    BY <1>0, <2>1 DEF ControlType
  <2>3. \A c \in Conns : conn[c].node = n => c \in missed'
    BY <2>1 DEF AllOf
  <2>7. \A c \in Conns : conn[c].node = n /\ c \notin missed'
             /\ conn[c].user \in limited'[n]
             => /\ conn[c].user \in limited[n]
                /\ conn[c].user \in over[n] => conn[c].user \in over'[n]
    BY <2>3
  <2>8. missed \subseteq missed'
    BY <2>1
  <2>9. /\ \A c \in Conns : conn'[c] = conn[c] \/ conn'[c] = NoConn
        /\ \A c \in Conns : Hysteria(c) /\ conn[c].node = n /\ owner'[n] # owner[n]
                            => conn'[c] = NoConn
        /\ \A m \in Nodes \ {n} : owner'[m] = owner[m]
    BY <2>1
  <2> QED BY <1>a, <2>2, <2>7, <2>8, <2>9, ControllerFrame
<1>2. ASSUME NEW us \in Lists, Reload(n, us) PROVE LimitInv' /\ RejectedIsMarked'
  <2>1. /\ missed' = missed \cup AllOf(n) /\ RemoveNode(n) /\ at[n] = "up"
        /\ list' = [list EXCEPT ![n] = us] /\ limiter' = [limiter EXCEPT ![n] = TRUE]
        /\ limited' = [limited EXCEPT ![n] = us] /\ over' = [over EXCEPT ![n] = {}]
        /\ at' = [at EXCEPT ![n] = "node"]
    BY <1>2 DEF Reload, AddLimiter, Goto
  <2>2. /\ limiter'[n] /\ limited'[n] = list'[n]
        /\ \A m \in Nodes \ {n} : /\ at'[m] = at[m] /\ limiter'[m] = limiter[m]
                                  /\ limited'[m] = limited[m] /\ list'[m] = list[m]
                                  /\ over'[m] = over[m]
    BY <1>0, <2>1 DEF ControlType
  <2>3. \A c \in Conns : conn[c].node = n => c \in missed'
    BY <2>1 DEF AllOf
  <2>4. owner[n] \in Cores
    BY <2>1, HasCore
  <2>5. /\ \A m \in Nodes \ {n} : owner'[m] = owner[m]
        /\ \A c \in Conns : conn'[c] = conn[c] \/ conn'[c] = NoConn
        /\ Type(owner[n]) = "hysteria2" =>
              \A c \in Conns : conn[c].node = n /\ conn[c].on = owner[n]
                               => conn'[c] = NoConn
    BY <2>1, <2>4, RemoveNodeType
  <2>6. \A c \in Conns : Hysteria(c) /\ conn[c].node = n => conn'[c] = NoConn
    BY <2>5 DEF Hysteria, LimitInv
  <2>7. \A c \in Conns : conn[c].node = n /\ c \notin missed'
             /\ conn[c].user \in limited'[n]
             => /\ conn[c].user \in limited[n]
                /\ conn[c].user \in over[n] => conn[c].user \in over'[n]
    BY <2>3
  <2>8. missed \subseteq missed'
    BY <2>1
  <2> QED BY <1>a, <2>2, <2>5, <2>6, <2>7, <2>8, ControllerFrame
<1>3. CASE DelNode(n)
  <2>1. /\ RemoveNode(n) /\ at[n] = "closing" /\ list' = [list EXCEPT ![n] = {}]
        /\ at' = [at EXCEPT ![n] = "down"] /\ UNCHANGED <<limiter, limited, over, missed>>
    BY <1>3 DEF DelNode, Goto
  <2>2. /\ at'[n] = "down"
        /\ \A m \in Nodes \ {n} : at'[m] = at[m] /\ list'[m] = list[m]
    BY <1>0, <2>1 DEF ControlType
  <2>4. owner[n] \in Cores
    BY <2>1, HasCore
  <2>5. /\ \A m \in Nodes \ {n} : owner'[m] = owner[m]
        /\ \A c \in Conns : conn'[c] = conn[c] \/ conn'[c] = NoConn
        /\ Type(owner[n]) = "hysteria2" =>
              \A c \in Conns : conn[c].node = n /\ conn[c].on = owner[n]
                               => conn'[c] = NoConn
    BY <2>1, <2>4, RemoveNodeType
  <2>6. \A c \in Conns : Hysteria(c) /\ conn[c].node = n => conn'[c] = NoConn
    BY <2>5 DEF Hysteria, LimitInv
  <2> QED BY <1>a, <2>1, <2>2, <2>5, <2>6, ControllerFrame
<1>4. CASE UpdateUser(n)
  <2>1. /\ UNCHANGED <<conn, owner, limiter>> /\ at[n] = "update"
        /\ missed' = missed \cup {c \in AllOf(n) : conn[c].user \notin list[n] \cap new[n]}
        /\ list' = [list EXCEPT ![n] = new[n]]
        /\ limited' = [limited EXCEPT ![n] = new[n]]
        /\ over' = [over EXCEPT ![n] = @ \cap list[n] \cap new[n]]
        /\ at' = [at EXCEPT ![n] = "up"]
    BY <1>4 DEF UpdateUser, Goto, core
  <2>2. /\ limited'[n] = list'[n] /\ over'[n] = over[n] \cap list[n] \cap new[n]
        /\ \A m \in Nodes \ {n} : /\ at'[m] = at[m] /\ limited'[m] = limited[m]
                                  /\ list'[m] = list[m] /\ over'[m] = over[m]
    BY <1>0, <2>1 DEF ControlType
  <2>3. limiter[n] /\ limited[n] = list[n]
    BY <2>1 DEF LimitInv
  <2>4. \A c \in Conns : conn[c].node = n /\ c \notin missed' => conn[c].user \in list[n] \cap new[n]
    BY <2>1 DEF AllOf
  <2> QED BY <1>a, <2>1, <2>2, <2>3, <2>4, ControllerFrame
<1>5. CASE DeleteLimiter(n)
  <2>1. /\ UNCHANGED <<conn, owner, list>> /\ missed' = missed \cup AllOf(n)
        /\ limiter' = [limiter EXCEPT ![n] = FALSE]
        /\ limited' = [limited EXCEPT ![n] = {}] /\ over' = [over EXCEPT ![n] = {}]
        /\ at' = [at EXCEPT ![n] = "closing"]
    BY <1>5 DEF DeleteLimiter, Goto, core
  <2>2. /\ at'[n] = "closing" /\ limited'[n] = {}
        /\ \A m \in Nodes \ {n} : /\ at'[m] = at[m] /\ limiter'[m] = limiter[m]
                                  /\ limited'[m] = limited[m] /\ over'[m] = over[m]
    BY <1>0, <2>1 DEF ControlType
  <2>7. \A c \in Conns : conn[c].node = n /\ c \notin missed'
             /\ conn[c].user \in limited'[n]
             => /\ conn[c].user \in limited[n]
                /\ conn[c].user \in over[n] => conn[c].user \in over'[n]
    BY <2>2
  <2>8. missed \subseteq missed'
    BY <2>1
  <2>9. /\ \A c \in Conns : conn'[c] = conn[c] \/ conn'[c] = NoConn
        /\ \A c \in Conns : Hysteria(c) /\ conn[c].node = n /\ owner'[n] # owner[n]
                            => conn'[c] = NoConn
        /\ \A m \in Nodes \ {n} : owner'[m] = owner[m] /\ list'[m] = list[m]
    BY <2>1
  <2> QED BY <1>a, <2>2, <2>7, <2>8, <2>9, ControllerFrame
<1>6. CASE \/ \E us \in Lists : Poll(n, us)
           \/ AddNode(n) \/ AddUsers(n) \/ DelUsers(n) \/ AddNewUsers(n) \/ Report(n)
  <2>1. /\ UNCHANGED <<list, limiter, limited, over, missed>>
        /\ at'[n] \in {"node", "users", "up", "del", "add", "update"}
              => at[n] \in {"node", "users", "up", "del", "add", "update"}
        /\ \A m \in Nodes \ {n} : at'[m] = at[m] /\ owner'[m] = owner[m]
    BY <1>0, <1>6 DEF Poll, AddNode, AddUsers, DelUsers, AddNewUsers, Report, Goto, core,
       ctl, history, ControlType
  <2>2. \A c \in Conns : conn'[c] = conn[c] \/ conn'[c] = NoConn
    <3>1. CASE DelUsers(n)
      BY <3>1, DelUsersType, HasCore DEF DelUsers
    <3>2. CASE ~DelUsers(n)
      BY <1>6, <3>2 DEF Poll, AddNode, AddUsers, AddNewUsers, Report
    <3> QED BY <3>1, <3>2
  <2>3. \A c \in Conns : ~(Hysteria(c) /\ conn[c].node = n /\ owner'[n] # owner[n])
    <3>1. owner'[n] # owner[n] => owner[n] = None
      BY <1>6 DEF Poll, AddNode, AddUsers, DelUsers, AddNewUsers, Report, core, TypeInv
    <3> QED BY <3>1 DEF LimitInv, Hysteria
  <2>4. at'[n] \in {"node", "users", "up", "del", "add", "update"}
          => limiter'[n] /\ limited'[n] = list'[n]
    BY <2>1 DEF LimitInv
  <2> QED BY <1>a, <2>1, <2>2, <2>3, <2>4, ControllerFrame
<1> QED BY <1>1, <1>2, <1>3, <1>4, <1>5, <1>6 DEF Controller

----------------------------------------------------------------------------
(* The users that the core of a node serves at each stage of its           *)
(* controller: DelUsers and AddUsers lie between the old list and the new. *)
Serves(n) ==
    CASE at[n] \in {"up", "del", "closing"} -> list[n]
      [] at[n] = "add" -> list[n] \cap new[n]
      [] at[n] = "update" -> new[n]
      [] OTHER -> {}

(* The core knows the uid, or another of its nodes deleted it.             *)
Known(n, u) ==
    \/ UidKey(owner[n], n, u) \in uids[owner[n]]
    \/ Type(owner[n]) # "xray" /\ <<owner[n], <<None, u>>>> \in shared

(* The inbound of a node has the users it serves, whose uids are known.    *)
InboundServes(n) ==
    owner[n] # None =>
        /\ inbound[n] \subseteq Serves(n)
        /\ \A u \in Serves(n) :
              /\ Type(owner[n]) # "hysteria2" => u \in inbound[n]
              /\ Known(n, u)

(* A uuid in the map of a core that goes by uuids is a user that one of    *)
(* its nodes serves, or was left by a node that was removed.               *)
Traced(i, u) ==
    Type(i) # "xray" /\ <<None, u>> \in uids[i] =>
        \/ <<i, <<None, u>>>> \in left
        \/ \E m \in Nodes : owner[m] = i /\ u \in Serves(m)

ServeInv ==
    /\ uncharged = {}
    /\ \A n \in Nodes : InboundServes(n)
    /\ \A i \in Cores, u \in Users : Traced(i, u)

(* Keys of two nodes coincide on the cores that go by uuids, only there.   *)
LEMMA KeyMember ==
    ASSUME NEW i, NEW n, NEW m, NEW us, NEW u
    PROVE  /\ UidKey(i, m, u) \in Keys(i, n, us) <=>
                 u \in us /\ (Type(i) = "xray" => m = n)
           /\ Type(i) # "xray" => UidKey(i, m, u) = <<None, u>>
BY DEF Keys, UidKey

(* A history records keys together with their core.                        *)
LEMMA PairMember ==
    ASSUME NEW i, NEW j, NEW k, NEW ks
    PROVE  <<i, k>> \in {<<j, l>> : l \in ks} <=> i = j /\ k \in ks
OBVIOUS

(* A step that leaves the cores' maps and the served users alone.          *)
LEMMA ServeFrame ==
    ASSUME ServeInv, uncharged' = {},
           UNCHANGED <<owner, inbound, uids, shared, left>>,
           \A n \in Nodes : Serves(n)' = Serves(n)
    PROVE  ServeInv'
<1>1. ASSUME NEW n \in Nodes PROVE InboundServes(n)'
  <2>1. InboundServes(n)
    BY DEF ServeInv
  <2>2. Serves(n)' = Serves(n)
    OBVIOUS
  <2> QED BY <2>1, <2>2 DEF InboundServes, Known, UidKey
<1>2. ASSUME NEW i \in Cores, NEW u \in Users PROVE Traced(i, u)'
  <2>1. Traced(i, u)
    BY DEF ServeInv
  <2> QED BY <2>1 DEF Traced
<1> QED BY <1>1, <1>2 DEF ServeInv

(* AddUsers of a core.                                                     *)
LEMMA AddUsersServe ==
    ASSUME TypeInv, ServeInv, NEW n \in Nodes, owner[n] \in Cores, NEW us \in SUBSET Users,
           AddUsersTo(n, us), UNCHANGED <<owner, uncharged>>,
           Serves(n)' = Serves(n) \cup us,
           \A m \in Nodes \ {n} : Serves(m)' = Serves(m)
    PROVE  ServeInv'
<1> USE CoresAssumption
<1> DEFINE i == owner[n]
           ks == Keys(i, n, us)
<1>1. /\ uids'[i] = uids[i] \cup ks
      /\ \A j \in Cores \ {i} : uids'[j] = uids[j]
      /\ inbound'[n] = IF Type(i) = "hysteria2" THEN {} ELSE inbound[n] \cup us
      /\ \A m \in Nodes \ {n} : inbound'[m] = inbound[m]
  BY AddUsersToType
<1>2. /\ shared' = shared \ {<<i, k>> : k \in ks}
      /\ left' = left \ {<<i, k>> : k \in ks}
  BY DEF AddUsersTo
<1>3. \A m, u : UidKey(i, m, u) \in ks <=> u \in us /\ (Type(i) = "xray" => m = n)
  BY KeyMember
<1>4. Type(i) # "xray" => \A m, u : UidKey(i, m, u) = <<None, u>>
  BY DEF UidKey
<1>5. \A j, k : <<j, k>> \in {<<i, l>> : l \in ks} <=> j = i /\ k \in ks
  BY PairMember
<1>6. owner \in [Nodes -> Cores \cup {None}]
  BY DEF TypeInv, CoresTypeOK
<1> HIDE DEF i, ks
<1>7. ASSUME NEW m \in Nodes, NEW u, owner[m] # None, Known(m, u) PROVE Known(m, u)'
  <2>1. owner[m] \in Cores /\ owner'[m] = owner[m]
    BY <1>6, <1>7
  <2>2. UidKey(owner[m], m, u)' = UidKey(owner[m], m, u)
    BY <2>1 DEF UidKey
  <2>3. uids[owner[m]] \subseteq uids'[owner[m]]
    BY <1>1, <2>1
  <2>4. CASE UidKey(owner[m], m, u) \in uids[owner[m]]
    BY <2>1, <2>2, <2>3, <2>4 DEF Known
  <2>5. CASE Type(owner[m]) # "xray" /\ <<owner[m], <<None, u>>>> \in shared
    <3>1. CASE <<owner[m], <<None, u>>>> \in shared'
      BY <2>1, <2>5, <3>1 DEF Known
    <3>2. CASE <<owner[m], <<None, u>>>> \notin shared'
      <4>1. owner[m] = i /\ <<None, u>> \in ks
        BY <1>2, <1>5, <2>5, <3>2
      <4>2. UidKey(owner[m], m, u) \in uids'[i]
        BY <1>1, <1>4, <2>5, <4>1
      <4> QED BY <2>1, <2>2, <4>1, <4>2 DEF Known
    <3> QED BY <3>1, <3>2
  <2> QED BY <1>7, <2>4, <2>5 DEF Known
<1>8. ASSUME NEW m \in Nodes PROVE InboundServes(m)'
  <2>1. InboundServes(m)
    BY DEF ServeInv
  <2> SUFFICES ASSUME owner'[m] # None
               PROVE  /\ inbound'[m] \subseteq Serves(m)'
                      /\ \A u \in Serves(m)' :
                            /\ Type(owner'[m]) # "hysteria2" => u \in inbound'[m]
                            /\ Known(m, u)'
    BY DEF InboundServes, Type
  <2>2. owner[m] # None
    OBVIOUS
  <2>3. CASE m # n
    <3>1. Serves(m)' = Serves(m) /\ inbound'[m] = inbound[m]
      BY <1>1, <2>3
    <3> QED BY <1>7, <2>1, <2>2, <3>1 DEF InboundServes
  <2>4. CASE m = n
    <3>1. inbound'[n] = IF Type(owner[n]) = "hysteria2" THEN {} ELSE inbound[n] \cup us
      BY <1>1 DEF i
    <3>2. \A u \in us : Known(n, u)'
      <4>1. ASSUME NEW u \in us PROVE Known(n, u)'
        <5>1. UidKey(i, n, u) \in uids'[i]
          BY <1>1, <1>3
        <5>2. UidKey(owner[n], n, u)' = UidKey(i, n, u) /\ owner'[n] = i
          BY DEF UidKey, i
        <5> QED BY <5>1, <5>2 DEF Known
      <4> QED BY <4>1
    <3>3. \A u \in Serves(n) : Known(n, u)'
      BY <1>7, <2>1, <2>2, <2>4 DEF InboundServes
    <3> QED BY <2>1, <2>2, <2>4, <3>1, <3>2, <3>3 DEF InboundServes
  <2> QED BY <2>3, <2>4
<1>9. ASSUME NEW j \in Cores, NEW u \in Users PROVE Traced(j, u)'
  <2>1. Traced(j, u)
    BY DEF ServeInv
  <2> SUFFICES ASSUME Type(j) # "xray", <<None, u>> \in uids'[j]
               PROVE  \/ <<j, <<None, u>>>> \in left'
                      \/ \E m \in Nodes : owner'[m] = j /\ u \in Serves(m)'
    BY DEF Traced, Type
  <2>2. CASE j = i /\ <<None, u>> \in ks
    <3>1. u \in us
      BY <1>3, <1>4, <2>2
    <3> QED BY <2>2, <3>1 DEF i
  <2>3. CASE ~(j = i /\ <<None, u>> \in ks)
    <3>1. <<None, u>> \in uids[j]
      BY <1>1, <2>3
    <3>2. <<j, <<None, u>>>> \in left => <<j, <<None, u>>>> \in left'
      BY <1>2, <1>5, <2>3
    <3>3. \A m \in Nodes : Serves(m) \subseteq Serves(m)' /\ owner'[m] = owner[m]
      OBVIOUS
    <3> QED BY <2>1, <3>1, <3>2, <3>3 DEF Traced
  <2> QED BY <2>2, <2>3
<1>10. uncharged' = {}
  BY DEF ServeInv
<1> QED BY <1>8, <1>9, <1>10 DEF ServeInv

(* DelUsers of a core.                                                     *)
LEMMA DelUsersServe ==
    ASSUME TypeInv, ServeInv, NEW n \in Nodes, DelUsers(n)
    PROVE  ServeInv'
<1> USE CoresAssumption
<1> DEFINE i == owner[n]
           us == list[n] \ new[n]
           ks == Keys(i, n, us)
<1>0. i \in Cores
  BY HasCore DEF DelUsers
<1>1. /\ uids'[i] = uids[i] \ ks
      /\ \A j \in Cores \ {i} : uids'[j] = uids[j]
      /\ inbound'[n] = inbound[n] \ us
      /\ \A m \in Nodes \ {n} : inbound'[m] = inbound[m]
  BY <1>0, DelUsersType
<1>2. /\ shared' = IF Type(i) = "xray" THEN shared ELSE shared \cup {<<i, k>> : k \in ks}
      /\ left' = left \ {<<i, k>> : k \in ks}
      /\ owner' = owner /\ uncharged' = {}
  BY DEF DelUsers, ServeInv
<1>3. \A m, u : UidKey(i, m, u) \in ks <=> u \in us /\ (Type(i) = "xray" => m = n)
  BY KeyMember
<1>4. Type(i) # "xray" => \A m, u : UidKey(i, m, u) = <<None, u>>
  BY DEF UidKey
<1>5. \A j, k : <<j, k>> \in {<<i, l>> : l \in ks} <=> j = i /\ k \in ks
  BY PairMember
<1>6. owner \in [Nodes -> Cores \cup {None}]
  BY DEF TypeInv, CoresTypeOK
<1>7. Serves(n)' = Serves(n) \ us /\ \A m \in Nodes \ {n} : Serves(m)' = Serves(m)
  <2>1. /\ at[n] = "del" /\ at' = [at EXCEPT ![n] = "add"] /\ UNCHANGED <<list, new>>
        /\ at \in [Nodes -> Stages]
    BY TypeParts DEF DelUsers, Goto, ControlType
  <2> QED BY <2>1 DEF Serves
<1> HIDE DEF i, us, ks
<1>8. ASSUME NEW m \in Nodes, NEW u, owner[m] # None, Known(m, u), m = n => u \notin us
      PROVE Known(m, u)'
  <2>1. owner[m] \in Cores /\ owner'[m] = owner[m]
    BY <1>2, <1>6, <1>8
  <2>2. UidKey(owner[m], m, u)' = UidKey(owner[m], m, u)
    BY <2>1 DEF UidKey
  <2>3. CASE UidKey(owner[m], m, u) \in uids[owner[m]]
    <3>1. CASE UidKey(owner[m], m, u) \in uids'[owner[m]]
      BY <2>1, <2>2, <3>1 DEF Known
    <3>2. CASE UidKey(owner[m], m, u) \notin uids'[owner[m]]
      <4>1. owner[m] = i /\ UidKey(i, m, u) \in ks
        BY <1>1, <2>1, <2>3, <3>2
      <4>2. Type(i) # "xray"
        BY <1>3, <1>8, <4>1
      <4>3. <<i, <<None, u>>>> \in shared'
        BY <1>2, <1>4, <1>5, <4>1, <4>2
      <4> QED BY <2>1, <4>1, <4>2, <4>3 DEF Known, Type
    <3> QED BY <3>1, <3>2
  <2>4. CASE Type(owner[m]) # "xray" /\ <<owner[m], <<None, u>>>> \in shared
    <3>1. <<owner[m], <<None, u>>>> \in shared'
      BY <1>2, <2>4
    <3> QED BY <2>1, <2>4, <3>1 DEF Known, Type
  <2> QED BY <1>8, <2>3, <2>4 DEF Known
<1>9. ASSUME NEW m \in Nodes PROVE InboundServes(m)'
  <2>1. InboundServes(m)
    BY DEF ServeInv
  <2> SUFFICES ASSUME owner'[m] # None
               PROVE  /\ inbound'[m] \subseteq Serves(m)'
                      /\ \A u \in Serves(m)' :
                            /\ Type(owner'[m]) # "hysteria2" => u \in inbound'[m]
                            /\ Known(m, u)'
    BY DEF InboundServes, Type
  <2>2. owner[m] # None /\ owner'[m] = owner[m]
    BY <1>2
  <2>3. CASE m # n
    <3>1. Serves(m)' = Serves(m) /\ inbound'[m] = inbound[m]
      BY <1>1, <1>7, <2>3
    <3> QED BY <1>8, <2>1, <2>2, <2>3, <3>1 DEF InboundServes
  <2>4. CASE m = n
    <3>1. \A u \in Serves(n) \ us : Known(n, u)'
      BY <1>8, <2>1, <2>2, <2>4 DEF InboundServes
    <3> QED BY <1>1, <1>7, <2>1, <2>2, <2>4, <3>1 DEF InboundServes
  <2> QED BY <2>3, <2>4
<1>10. ASSUME NEW j \in Cores, NEW u \in Users PROVE Traced(j, u)'
  <2>1. Traced(j, u)
    BY DEF ServeInv
  <2> SUFFICES ASSUME Type(j) # "xray", <<None, u>> \in uids'[j]
               PROVE  \/ <<j, <<None, u>>>> \in left'
                      \/ \E m \in Nodes : owner'[m] = j /\ u \in Serves(m)'
    BY DEF Traced, Type
  <2>2. <<None, u>> \in uids[j] /\ ~(j = i /\ <<None, u>> \in ks)
    BY <1>1
  <2>3. CASE <<j, <<None, u>>>> \in left
    BY <1>2, <1>5, <2>2, <2>3
  <2>4. ASSUME NEW m \in Nodes, owner[m] = j, u \in Serves(m)
        PROVE  owner'[m] = j /\ u \in Serves(m)'
    <3>1. CASE m = n
      <4>1. u \notin us
        BY <1>3, <1>4, <2>2, <2>4, <3>1 DEF i
      <4> QED BY <1>2, <1>7, <2>4, <3>1, <4>1
    <3>2. CASE m # n
      BY <1>2, <1>7, <2>4, <3>2
    <3> QED BY <3>1, <3>2
  <2> QED BY <2>1, <2>2, <2>3, <2>4 DEF Traced
<1> QED BY <1>2, <1>9, <1>10 DEF ServeInv

(* The node gets a core, or loses it and leaves its uids behind.           *)
LEMMA OwnerServe ==
    ASSUME TypeInv, ServeInv, NEW n \in Nodes, UNCHANGED <<uids, shared, uncharged>>,
           inbound'[n] = {}, Serves(n)' = {}, left \subseteq left',
           \A u \in Serves(n) : Type(owner[n]) # "xray" => <<owner[n], <<None, u>>>> \in left',
           \A m \in Nodes \ {n} : /\ owner'[m] = owner[m] /\ inbound'[m] = inbound[m]
                                  /\ Serves(m)' = Serves(m)
    PROVE  ServeInv'
<1>1. ASSUME NEW m \in Nodes PROVE InboundServes(m)'
  <2>1. CASE m = n
    BY <2>1 DEF InboundServes
  <2>2. CASE m # n
    <3>1. InboundServes(m)
      BY DEF ServeInv
    <3>2. owner'[m] = owner[m] /\ inbound'[m] = inbound[m] /\ Serves(m)' = Serves(m)
      BY <2>2
    <3> QED BY <3>1, <3>2 DEF InboundServes, Known, UidKey, Type
  <2> QED BY <2>1, <2>2
<1>2. ASSUME NEW i \in Cores, NEW u \in Users PROVE Traced(i, u)'
  <2>1. Traced(i, u)
    BY DEF ServeInv
  <2> SUFFICES ASSUME Type(i) # "xray", <<None, u>> \in uids[i]
               PROVE  \/ <<i, <<None, u>>>> \in left'
                      \/ \E m \in Nodes : owner'[m] = i /\ u \in Serves(m)'
    BY DEF Traced, Type
  <2>2. CASE <<i, <<None, u>>>> \in left
    BY <2>2
  <2>3. ASSUME NEW m \in Nodes, owner[m] = i, u \in Serves(m)
        PROVE  \/ <<i, <<None, u>>>> \in left'
               \/ owner'[m] = i /\ u \in Serves(m)'
    BY <2>3
  <2> QED BY <2>1, <2>2, <2>3 DEF Traced
<1> QED BY <1>1, <1>2 DEF ServeInv

(* Every step of a controller.                                             *)
LEMMA ControllerServe ==
    ASSUME TypeInv, ServeInv, NEW n \in Nodes, Controller(n)
    PROVE  ServeInv'
<1> USE CoresAssumption
<1>0. ControlType /\ uncharged = {}
  BY TypeParts DEF ServeInv
<1>1. CASE \/ \E us \in Lists : Start(n, us) \/ Poll(n, us)
           \/ UpdateUser(n) \/ DeleteLimiter(n)
  <2>1. UNCHANGED <<owner, inbound, uids, shared, left, uncharged>>
    BY <1>1 DEF Start, Poll, UpdateUser, DeleteLimiter, core, history
  <2>2. \A m \in Nodes \ {n} : at'[m] = at[m] /\ list'[m] = list[m] /\ new'[m] = new[m]
    BY <1>0, <1>1 DEF Start, AddLimiter, Poll, UpdateUser, DeleteLimiter, Goto, ControlType
  <2>3. \/ at[n] = "down" /\ at'[n] = "node"
        \/ at[n] = "up" /\ at'[n] \in {"del", "closing"} /\ list'[n] = list[n]
        \/ at[n] = "update" /\ at'[n] = "up" /\ list'[n] = new[n]
    BY <1>0, <1>1 DEF Start, AddLimiter, Poll, UpdateUser, DeleteLimiter, Goto, ControlType
  <2>4. Serves(n)' = Serves(n)
    BY <2>3 DEF Serves
  <2>5. \A m \in Nodes \ {n} : Serves(m)' = Serves(m)
    BY <2>2 DEF Serves
  <2> QED BY <1>0, <2>1, <2>4, <2>5, ServeFrame
<1>2. CASE Report(n)
  <2>1. UNCHANGED <<owner, inbound, uids, at, list, new, shared, left>>
    BY <1>2 DEF Report, core, ctl
  <2>2. \A m \in Nodes : Serves(m)' = Serves(m)
    BY <2>1 DEF Serves
  <2>3. uncharged' = {}
    <3>1. ASSUME NEW u \in list[n], at[n] = "up", owner[n] # None,
                 UidKey(owner[n], n, u) \notin uids[owner[n]],
                 <<owner[n], <<None, u>>>> \notin shared
          PROVE  FALSE
      <4>1. InboundServes(n) /\ Serves(n) = list[n]
        BY <3>1 DEF ServeInv, Serves
      <4> QED BY <3>1, <4>1 DEF InboundServes, Known
    <3> QED BY <1>0, <1>2, <3>1 DEF Report
  <2> QED BY <2>1, <2>2, <2>3, ServeFrame
<1>3. CASE AddUsers(n) \/ AddNewUsers(n)
  <2>1. PICK us \in SUBSET Users :
            /\ AddUsersTo(n, us) /\ UNCHANGED <<owner, uncharged, list, new>>
            /\ \/ at[n] = "users" /\ at' = [at EXCEPT ![n] = "up"] /\ us = list[n]
               \/ at[n] = "add" /\ at' = [at EXCEPT ![n] = "update"] /\ us = new[n] \ list[n]
    <3>1. list[n] \in SUBSET Users /\ new[n] \ list[n] \in SUBSET Users
      BY <1>0 DEF ControlType
    <3> QED BY <1>3, <3>1 DEF AddUsers, AddNewUsers, Goto
  <2>2. owner[n] \in Cores
    BY <2>1, HasCore
  <2>3. Serves(n)' = Serves(n) \cup us /\ \A m \in Nodes \ {n} : Serves(m)' = Serves(m)
    BY <1>0, <2>1 DEF Serves, ControlType
  <2> QED BY <2>1, <2>2, <2>3, AddUsersServe
<1>4. CASE DelUsers(n)
  BY <1>4, DelUsersServe
<1>5. CASE AddNode(n)
  <2>1. /\ UNCHANGED <<uids, shared, left, uncharged, list, new>>
        /\ inbound' = [inbound EXCEPT ![n] = {}]
        /\ \E i : owner' = [owner EXCEPT ![n] = i]
        /\ at[n] = "node" /\ at' = [at EXCEPT ![n] = "users"]
    BY <1>5 DEF AddNode, Goto, history
  <2>2. /\ Serves(n) = {} /\ Serves(n)' = {} /\ inbound'[n] = {}
        /\ \A m \in Nodes \ {n} : /\ owner'[m] = owner[m] /\ inbound'[m] = inbound[m]
                                  /\ Serves(m)' = Serves(m)
    BY <1>0, <2>1 DEF Serves, ControlType
  <2>3. left \subseteq left'
    BY <2>1
  <2> QED BY <2>1, <2>2, <2>3, OwnerServe
<1>6. CASE (\E us \in Lists : Reload(n, us)) \/ DelNode(n)
  <2>1. /\ at[n] \in {"up", "closing"} /\ RemoveNode(n) /\ new' = new
        /\ \E l \in {"node", "down"} : at' = [at EXCEPT ![n] = l]
        /\ \E us : list' = [list EXCEPT ![n] = us]
    BY <1>6 DEF Reload, DelNode, Goto
  <2>2. owner[n] \in Cores
    BY <2>1, HasCore
  <2>3. /\ \A m \in Nodes \ {n} : owner'[m] = owner[m] /\ inbound'[m] = inbound[m]
        /\ inbound'[n] = {}
        /\ UNCHANGED <<uids, shared, uncharged>>
        /\ left' = left \cup {<<owner[n], k>> : k \in Keys(owner[n], n, list[n])}
    BY <2>1, <2>2, RemoveNodeType
  <2>4. /\ Serves(n) = list[n] /\ Serves(n)' = {}
        /\ \A m \in Nodes \ {n} : Serves(m)' = Serves(m)
    BY <1>0, <2>1 DEF Serves, ControlType
  <2>5. ASSUME NEW u \in Serves(n), Type(owner[n]) # "xray"
        PROVE  <<owner[n], <<None, u>>>> \in left'
    <3>1. <<None, u>> \in Keys(owner[n], n, list[n])
      BY <2>4, <2>5 DEF Keys, UidKey
    <3> QED BY <2>3, <3>1
  <2>6. left \subseteq left'
    BY <2>3
  <2> QED BY <2>3, <2>4, <2>5, <2>6, OwnerServe
<1> QED BY <1>1, <1>2, <1>3, <1>4, <1>5, <1>6 DEF Controller

----------------------------------------------------------------------------
(* The core has no uid for the user of a connection that keeps its storage.*)
Missing(c) ==
    /\ conn[c] # NoConn /\ ~Hysteria(c)
    /\ UidKey(conn[c].on, conn[c].node, conn[c].user) \notin uids[conn[c].on]

(* A storage is deleted only of a connection that is recorded, and the     *)
(* uid is missing only for those: on xray, whose DelUsers ends the         *)
(* connections with the uid, for none.                                     *)
StorageInv ==
    /\ \A c \in Conns : Missing(c) => c \in severed
    /\ orphans \subseteq severed
    /\ \A c \in severed : conn[c] # NoConn /\ Type(conn[c].on) = "sing"

(* A recorded connection is not one of hysteria2.                          *)
LEMMA SeveredIsSing ==
    ASSUME StorageInv, NEW c \in severed PROVE ~Hysteria(c)
BY DEF StorageInv, Hysteria

(* A step that takes no uid away and records nothing; what it opens has    *)
(* its uid.                                                                *)
LEMMA StorageFrame ==
    ASSUME TypeInv, StorageInv, UNCHANGED <<orphans, severed>>,
           \A i \in Cores : uids[i] \subseteq uids'[i],
           \A c \in Conns : \/ conn'[c] = conn[c]
                            \/ c \notin severed /\ ~Missing(c)'
    PROVE  StorageInv'
<1>1. ASSUME NEW c \in Conns, Missing(c)' PROVE c \in severed'
  <2>1. conn'[c] = conn[c] /\ conn[c] # NoConn
    BY <1>1 DEF Missing
  <2>2. conn[c].on \in Cores
    BY <2>1, OpenIsTyped
  <2>3. Missing(c)
    BY <1>1, <2>1, <2>2 DEF Missing, Hysteria, UidKey, Type
  <2> QED BY <2>3 DEF StorageInv
<1>2. \A c \in severed' : conn'[c] = conn[c]
  BY TypeParts DEF OtherType, StorageType
<1>3. \A c \in severed' : conn'[c] # NoConn /\ Type(conn'[c].on) = "sing"
  BY <1>2 DEF StorageInv
<1> QED BY <1>1, <1>3 DEF StorageInv, Type

(* Every step of a connection.                                             *)
LEMMA ConnectionStorage ==
    ASSUME TypeInv, LimitInv, ServeInv, StorageInv, NEW c \in Conns, Connection(c)
    PROVE  StorageInv'
<1> USE CoresAssumption
<1>a. /\ uids' = uids /\ ConnType /\ StorageType
      /\ NoConn.on = None /\ NoConn.counted = FALSE
  BY ConnectionFrame, TypeParts DEF core, OtherType, NoConn
<1>1. ASSUME NEW n \in Nodes, NEW u \in Users, Connect(c, n, u) PROVE StorageInv'
  <2>1. owner[n] \in Cores /\ limiter[n] \in BOOLEAN /\ conn[c] = NoConn /\ Admits(n, u)
    BY <1>1 DEF Connect, Admits, TypeInv, CoresTypeOK
  <2>2. c \notin severed /\ c \notin orphans /\ orphans' = orphans
    BY <1>1, <2>1 DEF StorageInv, Connect
  <2>o. ASSUME NEW counted \in BOOLEAN, NEW rejected \in BOOLEAN,
               Open(c, n, u, counted, rejected)
        PROVE  /\ conn'[c].on = owner[n] /\ conn'[c].node = n /\ conn'[c].user = u
               /\ conn'[c] # NoConn
               /\ \A d \in Conns \ {c} : conn'[d] = conn[d]
    BY <1>a, <2>1, <2>o, OpenType
  <2>3. CASE ConnectXray(c, n, u)
    <3>1. /\ conn'[c].on = owner[n] /\ conn'[c].node = n /\ conn'[c].user = u
          /\ \A d \in Conns \ {c} : conn'[d] = conn[d]
      BY <2>3, <2>o DEF ConnectXray
    <3>2. owner[n] # None /\ Type(owner[n]) = "xray" /\ u \in inbound[n]
      BY <2>1, <2>3 DEF ConnectXray, Kind, Admits
    <3>3. UidKey(owner[n], n, u) \in uids[owner[n]]
      <4>1. InboundServes(n)
        BY DEF ServeInv
      <4> QED BY <3>2, <4>1 DEF InboundServes, Known
    <3>4. ~Missing(c)'
      BY <1>a, <3>1, <3>3 DEF Missing, UidKey, Type
    <3> QED BY <1>a, <2>2, <2>3, <3>1, <3>4, StorageFrame DEF ConnectXray
  <2>4. CASE ConnectSing(c, n, u)
    <3>1. /\ conn'[c].on = owner[n] /\ conn'[c].node = n /\ conn'[c].user = u
          /\ conn'[c] # NoConn
          /\ \A d \in Conns \ {c} : conn'[d] = conn[d]
      BY <2>1, <2>4, <2>o DEF ConnectSing
    <3>2. /\ severed' = IF UidKey(owner[n], n, u) \in uids[owner[n]] THEN severed
                        ELSE severed \cup {c}
          /\ Type(owner[n]) = "sing"
      BY <2>1, <2>4 DEF ConnectSing, Kind
    <3>3. ASSUME NEW d \in Conns, Missing(d)' PROVE d \in severed'
      <4>1. CASE d = c
        BY <1>a, <3>1, <3>2, <3>3, <4>1 DEF Missing, UidKey, Type
      <4>2. CASE d # c
        <5>1. Missing(d)
          BY <1>a, <3>1, <3>3, <4>2 DEF Missing, Hysteria, UidKey, Type
        <5> QED BY <3>2, <5>1 DEF StorageInv
      <4> QED BY <4>1, <4>2
    <3>4. \A d \in severed' : conn'[d] # NoConn /\ Type(conn'[d].on) = "sing"
      BY <1>a, <2>2, <3>1, <3>2 DEF StorageInv, StorageType
    <3>5. orphans' \subseteq severed'
      BY <2>2, <3>2 DEF StorageInv
    <3> QED BY <3>3, <3>4, <3>5 DEF StorageInv, Type
  <2>5. CASE ConnectHysteria(c, n, u)
    <3>1. CASE conn' = conn
      BY <1>a, <2>2, <2>5, <3>1, StorageFrame DEF ConnectHysteria
    <3>2. CASE \E rejected \in BOOLEAN : Open(c, n, u, TRUE, rejected)
      <4>1. /\ conn'[c].on = owner[n] /\ \A d \in Conns \ {c} : conn'[d] = conn[d]
        BY <2>o, <3>2
      <4>2. Hysteria(c)'
        BY <2>1, <2>5, <4>1 DEF ConnectHysteria, Kind, Hysteria, Type
      <4> QED BY <1>a, <2>2, <2>5, <4>1, <4>2, StorageFrame DEF ConnectHysteria, Missing
    <3> QED BY <2>5, <3>1, <3>2 DEF ConnectHysteria
  <2> QED BY <1>1, <2>3, <2>4, <2>5 DEF Connect
<1>2. CASE Hysteria(c) /\ (Request(c) \/ LogTraffic(c))
  <2>1. /\ conn[c] # NoConn /\ conn[c].node \in Nodes /\ conn[c].user \in Users
        /\ conn[c].on \in Cores /\ Type(conn[c].on) = "hysteria2"
    BY <1>2, <1>a, OpenIsTyped DEF Hysteria
  <2>2. owner[conn[c].node] = conn[c].on
    BY <1>2, <2>1 DEF LimitInv
  <2>3. UNCHANGED <<orphans, severed>> /\ c \notin severed
    BY <1>2, SeveredIsSing DEF Request, LogTraffic, storages
  <2>4. CASE conn' = conn
    BY <1>a, <2>3, <2>4, StorageFrame
  <2>5. CASE conn' = Drop({c})
    <3>1. conn'[c] = NoConn /\ \A d \in Conns \ {c} : conn'[d] = conn[d]
      BY <2>5, DropType
    <3> QED BY <1>a, <2>3, <3>1, StorageFrame DEF Missing
  <2>6. CASE \E rejected \in BOOLEAN : Open(c, conn[c].node, conn[c].user, TRUE, rejected)
    <3>1. conn'[c].on = conn[c].on /\ \A d \in Conns \ {c} : conn'[d] = conn[d]
      <4>1. PICK counted \in BOOLEAN, rejected \in BOOLEAN, n \in Nodes, u \in Users :
                /\ n = conn[c].node /\ u = conn[c].user
                /\ Open(c, n, u, counted, rejected)
        BY <2>1, <2>6, Zenon
      <4>2. owner[n] \in Cores
        BY <2>1, <2>2, <4>1
      <4>3. conn'[c].on = owner[n] /\ \A d \in Conns \ {c} : conn'[d] = conn[d]
        BY <4>1, <4>2, OpenType
      <4> QED BY <2>2, <4>1, <4>3
    <3>2. Hysteria(c)'
      BY <2>1, <3>1 DEF Hysteria, Type
    <3> QED BY <1>a, <2>3, <3>1, <3>2, StorageFrame DEF Missing
  <2> QED BY <1>2, <2>4, <2>5, <2>6 DEF Request, LogTraffic
<1>3. CASE Move(c) \/ StoreZero(c)
  <2>1. UNCHANGED <<conn, orphans, severed>>
    BY <1>3 DEF Move, StoreZero, storages
  <2> QED BY <1>a, <2>1, StorageFrame
<1>4. CASE Disconnect(c)
  <2>1. conn'[c] = NoConn /\ \A d \in Conns \ {c} : conn'[d] = conn[d]
    BY <1>4, DropType DEF Disconnect
  <2>2. orphans' = orphans \ {c} /\ severed' = severed \ {c}
    BY <1>4 DEF Disconnect
  <2>3. ASSUME NEW d \in Conns, Missing(d)' PROVE d \in severed'
    <3>1. d # c /\ conn'[d] = conn[d]
      BY <2>1, <2>3 DEF Missing
    <3>2. Missing(d)
      BY <1>a, <2>3, <3>1 DEF Missing, Hysteria, UidKey, Type
    <3> QED BY <2>2, <3>1, <3>2 DEF StorageInv
  <2>4. \A d \in severed' : conn'[d] # NoConn /\ Type(conn'[d].on) = "sing"
    BY <1>a, <2>1, <2>2 DEF StorageInv, StorageType
  <2> QED BY <2>2, <2>3, <2>4 DEF StorageInv, Type
<1> QED BY <1>1, <1>2, <1>3, <1>4 DEF Connection, Request, LogTraffic

(* DelUsers ends the connections whose uid it takes, or records them.      *)
LEMMA DelUsersStorage ==
    ASSUME TypeInv, StorageInv, NEW n \in Nodes, DelUsers(n)
    PROVE  StorageInv'
<1> USE CoresAssumption
<1> DEFINE i  == owner[n]
           us == list[n] \ new[n]
           cs == {c \in On(i, n) : conn[c].user \in us}
           rs == {c \in Conns : conn[c].on = i /\ conn[c].user \in us}
<1>0. i \in Cores /\ i # None
  BY HasCore DEF DelUsers
<1>1. /\ uids'[i] = uids[i] \ Keys(i, n, us) /\ \A j \in Cores \ {i} : uids'[j] = uids[j]
      /\ \A c \in Conns : conn'[c] = conn[c] \/ conn'[c] = NoConn
  BY <1>0, DelUsersType
<1>2. /\ conn' = IF Type(i) = "xray" THEN Drop(cs) ELSE conn
      /\ orphans' = IF Type(i) = "sing" THEN orphans \cup cs ELSE orphans
      /\ severed' = IF Type(i) = "sing" THEN severed \cup rs ELSE severed
  BY DEF DelUsers
<1>3. /\ cs \subseteq rs /\ rs \subseteq Conns
      /\ \A c \in Conns : c \in cs <=> /\ conn[c].node = n /\ conn[c].on = i
                                       /\ conn[c].user \in us
  BY DEF On, AllOf
<1>4. \A c \in rs : conn[c].on = i /\ conn[c].user \in us /\ conn[c] # NoConn
  BY <1>0 DEF NoConn
<1> HIDE DEF us, cs
<1>5. ASSUME NEW c \in Conns, Missing(c)' PROVE c \in severed'
  <2>1. conn'[c] = conn[c] /\ conn[c] # NoConn
    BY <1>1, <1>5 DEF Missing
  <2>2. conn[c].on \in Cores
    BY <2>1, OpenIsTyped
  <2>3. CASE Missing(c)
    BY <1>2, <2>3 DEF StorageInv
  <2>4. CASE ~Missing(c)
    <3>1. /\ ~Hysteria(c)
          /\ UidKey(conn[c].on, conn[c].node, conn[c].user) \in uids[conn[c].on]
          /\ UidKey(conn[c].on, conn[c].node, conn[c].user) \notin uids'[conn[c].on]
      BY <1>5, <2>1, <2>4 DEF Missing, Hysteria, UidKey, Type
    <3>2. /\ conn[c].on = i
          /\ UidKey(i, conn[c].node, conn[c].user) \in Keys(i, n, us)
      BY <1>1, <2>2, <3>1
    <3>3. conn[c].user \in us /\ (Type(i) = "xray" => conn[c].node = n)
      BY <3>2, KeyMember
    <3>4. CASE Type(i) = "xray"
      <4>1. c \in cs /\ cs \subseteq Conns
        BY <1>3, <3>2, <3>3, <3>4
      <4> QED BY <1>2, <2>1, <3>4, <4>1, DropType
    <3>5. CASE Type(i) = "sing"
      BY <1>2, <3>2, <3>3, <3>5
    <3>6. CASE Type(i) = "hysteria2"
      BY <1>0, <3>1, <3>2, <3>6 DEF Hysteria
    <3> QED BY <1>0, <3>4, <3>5, <3>6 DEF Types
  <2> QED BY <2>3, <2>4
<1>6. orphans' \subseteq severed'
  BY <1>2, <1>3 DEF StorageInv
<1>7. ASSUME NEW c \in severed' PROVE conn'[c] # NoConn /\ Type(conn'[c].on) = "sing"
  <2>0. c \in Conns
    BY <1>2, <1>3, TypeParts DEF OtherType, StorageType
  <2>1. conn[c] # NoConn /\ Type(conn[c].on) = "sing"
    BY <1>2, <1>4 DEF StorageInv
  <2>2. conn'[c] = conn[c]
    <3>1. CASE Type(i) = "xray"
      <4>1. c \notin cs /\ cs \subseteq Conns
        BY <1>3, <2>0, <2>1, <3>1
      <4> QED BY <1>2, <2>0, <3>1, <4>1, DropType
    <3>2. CASE Type(i) # "xray"
      BY <1>2, <3>2
    <3> QED BY <3>1, <3>2
  <2> QED BY <2>1, <2>2
<1> QED BY <1>5, <1>6, <1>7 DEF StorageInv, Type

(* Every step of a controller.                                             *)
LEMMA ControllerStorage ==
    ASSUME TypeInv, StorageInv, NEW n \in Nodes, Controller(n)
    PROVE  StorageInv'
<1> USE CoresAssumption
<1>0. ControlType /\ StorageType
  BY TypeParts DEF OtherType
<1>1. CASE \/ \E us \in Lists : Start(n, us) \/ Poll(n, us)
           \/ UpdateUser(n) \/ DeleteLimiter(n) \/ AddNode(n)
  <2>1. UNCHANGED <<uids, conn, orphans, severed>>
    BY <1>1 DEF Start, Poll, UpdateUser, DeleteLimiter, AddNode, core, storages
  <2> QED BY <2>1, StorageFrame
<1>2. CASE AddUsers(n) \/ AddNewUsers(n)
  <2>1. /\ UNCHANGED <<conn, orphans, severed>> /\ at[n] \in {"users", "add"}
        /\ \E us \in SUBSET Users : AddUsersTo(n, us)
    BY <1>0, <1>2 DEF AddUsers, AddNewUsers, storages, ControlType
  <2>2. owner[n] \in Cores
    BY <2>1, HasCore
  <2>3. \A i \in Cores : uids[i] \subseteq uids'[i]
    BY <2>1, <2>2, AddUsersToType
  <2> QED BY <2>1, <2>3, StorageFrame
<1>3. CASE (\E us \in Lists : Reload(n, us)) \/ DelNode(n)
  <2>1. at[n] \in {"up", "closing"} /\ RemoveNode(n)
    BY <1>3 DEF Reload, DelNode
  <2>2. owner[n] \in Cores
    BY <2>1, HasCore
  <2>3. /\ \A c \in Conns : conn'[c] = conn[c] \/ conn'[c] = NoConn
        /\ \A c \in Conns : conn'[c] = conn[c] \/ Type(conn[c].on) = "hysteria2"
        /\ UNCHANGED <<uids, orphans, severed>>
    BY <2>1, <2>2, RemoveNodeType DEF storages
  <2>4. \A c \in Conns : conn'[c] = conn[c] \/ (c \notin severed /\ ~Missing(c)')
    BY <2>3 DEF StorageInv, Missing
  <2> QED BY <2>3, <2>4, StorageFrame
<1>4. CASE DelUsers(n)
  BY <1>4, DelUsersStorage
<1>5. CASE Report(n)
  <2> DEFINE i    == owner[n]
             lost == {u \in Users : <<i, n, u>> \in pend /\ UidKey(i, n, u) \notin uids[i]}
             cs   == {c \in On(i, n) : conn[c].user \in lost}
  <2>1. /\ UNCHANGED <<conn, uids, severed>> /\ i # None
        /\ orphans' = IF Type(i) = "hysteria2" THEN orphans ELSE orphans \cup cs
    BY <1>5 DEF Report, core
  <2>2. ASSUME NEW c \in cs, Type(i) # "hysteria2" PROVE c \in severed
    <3>1. c \in Conns /\ conn[c].node = n /\ conn[c].on = i /\ conn[c].user \in lost
      BY DEF On, AllOf
    <3>2. conn[c] # NoConn
      BY <3>1 DEF NoConn
    <3>3. Missing(c)
      BY <2>2, <3>1, <3>2 DEF Missing, Hysteria
    <3> QED BY <3>1, <3>3 DEF StorageInv
  <2>3. \A c \in Conns : Missing(c)' => Missing(c)
    BY <2>1 DEF Missing, Hysteria, UidKey, Type
  <2> HIDE DEF i, lost, cs
  <2> QED BY <2>1, <2>2, <2>3 DEF StorageInv, Type
<1> QED BY <1>1, <1>2, <1>3, <1>4, <1>5 DEF Controller

----------------------------------------------------------------------------
CoresInv == TypeInv /\ LimitInv /\ RejectedIsMarked /\ ServeInv /\ StorageInv

(* The cores, the limiters and the connections agree in every reachable    *)
(* state: the inductive invariant of the module.                           *)
THEOREM CoresInvariant == Spec => []CoresInv
<1> USE CoresAssumption
<1>1. Init => CoresInv
  <2> SUFFICES ASSUME Init PROVE CoresInv
    OBVIOUS
  <2>1. TypeInv
    BY InitType
  <2>2. NoConn.on = None /\ NoConn.rejected = FALSE
    BY DEF NoConn
  <2>3. \A c \in Conns : ~Hysteria(c) /\ ~conn[c].rejected
    BY <2>2 DEF Init, Hysteria
  <2>4. LimitInv /\ RejectedIsMarked
    BY <2>3 DEF Init, LimitInv, RejectedIsMarked
  <2>5. ServeInv
    BY DEF Init, ServeInv, InboundServes, Traced
  <2>6. StorageInv
    BY DEF Init, StorageInv, Missing
  <2> QED BY <2>1, <2>4, <2>5, <2>6 DEF CoresInv
<1>2. CoresInv /\ [Next]_vars => CoresInv'
  <2> SUFFICES ASSUME CoresInv, [Next]_vars PROVE CoresInv'
    OBVIOUS
  <2>0. TypeInv /\ LimitInv /\ RejectedIsMarked /\ ServeInv /\ StorageInv
    BY DEF CoresInv
  <2>1. ASSUME NEW n \in Nodes, Controller(n) PROVE CoresInv'
    <3>1. TypeInv'
      BY <2>0, <2>1, StorageSteps, ControlSteps, CoreSteps DEF Controller
    <3>2. LimitInv' /\ RejectedIsMarked'
      BY <2>0, <2>1, ControllerLimit
    <3>3. ServeInv'
      BY <2>0, <2>1, ControllerServe
    <3>4. StorageInv'
      BY <2>0, <2>1, ControllerStorage
    <3> QED BY <3>1, <3>2, <3>3, <3>4 DEF CoresInv
  <2>2. ASSUME NEW c \in Conns, Connection(c) PROVE CoresInv'
    <3>1. TypeInv' /\ LimitInv' /\ RejectedIsMarked'
      BY <2>0, <2>2, ConnectionStep
    <3>2. UNCHANGED <<owner, inbound, uids, at, list, new, shared, left, uncharged>>
      BY <2>2, ConnectionFrame DEF core, ctl
    <3>3. \A n \in Nodes : Serves(n)' = Serves(n)
      BY <3>2 DEF Serves
    <3>4. ServeInv'
      BY <2>0, <3>2, <3>3, ServeFrame DEF ServeInv
    <3>5. StorageInv'
      BY <2>0, <2>2, ConnectionStorage
    <3> QED BY <3>1, <3>4, <3>5 DEF CoresInv
  <2>3. CASE UNCHANGED vars
    <3>1. UNCHANGED <<setup, owner, inbound, uids, at, list, new, limiter, limited, over,
                      pend, conn, orphans, severed, panicked, shared, left, uncharged,
                      missed>>
      BY <2>3 DEF vars, core, ctl, storages, history
    <3>2. TypeInv'
      <4>1. ControlType /\ ConnType /\ OwnerType /\ OtherType
        BY <2>0, TypeParts
      <4>2. ControlType' /\ ConnType' /\ OwnerType' /\ OtherType'
        BY <3>1, <4>1 DEF ControlType, ConnType, OwnerType, OtherType, StorageType
      <4> QED BY <4>2, TypeParts, PTL
    <3>3. LimitInv' /\ RejectedIsMarked'
      BY <2>0, <3>1 DEF LimitInv, RejectedIsMarked, Hysteria, Kind
    <3>4. \A n \in Nodes : Serves(n)' = Serves(n)
      BY <3>1 DEF Serves
    <3>5. ServeInv'
      BY <2>0, <3>1, <3>4, ServeFrame DEF ServeInv
    <3>6. StorageInv'
      BY <2>0, <3>1, StorageFrame
    <3> QED BY <3>2, <3>3, <3>5, <3>6 DEF CoresInv
  <2> QED BY <2>1, <2>2, <2>3 DEF Next
<1> QED BY <1>1, <1>2, PTL DEF Spec

(* The maps of the selector and the cores keep their types, and a node is  *)
(* only ever on a core that its Options allow: CoresTypeOK.                *)
THEOREM CoresTypeCorrect == Spec => []CoresTypeOK
<1>1. CoresInv => CoresTypeOK
  BY DEF CoresInv, TypeInv
<1> QED BY <1>1, CoresInvariant, PTL

(* Only between DeleteLimiter and DelNode of Close is a node in its core   *)
(* without a limiter, and only then can hysteria2 callbacks panic.         *)
THEOREM CoresLimitedUnlessClosing == Spec => []LimitedUnlessClosing
<1>1. CoresInv => LimitedUnlessClosing
  <2> SUFFICES ASSUME CoresInv PROVE LimitedUnlessClosing
    OBVIOUS
  <2>1. TypeInv /\ LimitInv
    BY DEF CoresInv
  <2>2. \A n \in Nodes : owner[n] # None /\ ~limiter[n] => at[n] = "closing"
    BY <2>1, TypeParts DEF LimitInv, ControlType, OwnerType, Stages
  <2> QED BY <2>1, <2>2 DEF LimitedUnlessClosing, LimitInv
<1> QED BY <1>1, CoresInvariant, PTL

(* A connection that CheckLimit rejected keeps its mark until its traffic  *)
(* ends it, or another connection or an update takes the mark.             *)
THEOREM CoresRejectedIsMarked == Spec => []RejectedIsMarked
<1>1. CoresInv => RejectedIsMarked
  BY DEF CoresInv
<1> QED BY <1>1, CoresInvariant, PTL

(* With any number of nodes on a core, a user of a node's list can connect *)
(* and what its counter holds is charged, unless another node of the same  *)
(* sing-box or hysteria2 core deleted the user; and a connection's storage *)
(* is the one reported, unless it is one of sing-box and its user's uid    *)
(* was missing while it was open.                                          *)
THEOREM CoresListedIsServed == Spec => []ListedIsServed
<1>1. CoresInv => ListedIsServed
  <2> SUFFICES ASSUME CoresInv PROVE ListedIsServed
    OBVIOUS
  <2>1. TypeInv /\ ServeInv
    BY DEF CoresInv
  <2>2. ASSUME NEW n \in Nodes, at[n] = "up", NEW u \in list[n]
        PROVE  \/ Admits(n, u)
               \/ Kind(n) = "hysteria2" /\ <<owner[n], <<None, u>>>> \in shared
    <3>1. owner[n] \in Cores /\ owner[n] # None
      BY <2>1, <2>2, HasCore, CoresAssumption
    <3>2. InboundServes(n) /\ Serves(n) = list[n]
      BY <2>1, <2>2 DEF ServeInv, Serves
    <3> QED BY <3>1, <3>2 DEF InboundServes, Known, Admits, Kind
  <2>3. \A c \in orphans : Type(conn[c].on) = "sing" /\ c \in severed
    BY DEF CoresInv, StorageInv
  <2> QED BY <2>1, <2>2, <2>3 DEF ListedIsServed, ServeInv
<1> QED BY <1>1, CoresInvariant, PTL

(* Nobody but the users of a node's list can connect to it, except on      *)
(* hysteria2 those of the core's other nodes and of removed nodes.         *)
THEOREM CoresServedIsListed == Spec => []ServedIsListed
<1>1. CoresInv => ServedIsListed
  <2> SUFFICES ASSUME CoresInv, NEW n \in Nodes, at[n] = "up",
                      NEW u \in Users \ list[n], Admits(n, u)
               PROVE  /\ Kind(n) = "hysteria2"
                      /\ \/ <<owner[n], <<None, u>>>> \in left
                         \/ \E m \in Nodes \ {n} : /\ owner[m] = owner[n]
                                                   /\ u \in list[m] \cup new[m]
    BY DEF ServedIsListed
  <2>1. TypeInv /\ ServeInv
    BY DEF CoresInv
  <2>2. owner[n] \in Cores /\ owner[n] # None
    BY <2>1, HasCore, CoresAssumption
  <2>3. InboundServes(n) /\ Serves(n) = list[n]
    BY <2>1 DEF ServeInv, Serves
  <2>4. Kind(n) = "hysteria2" /\ Type(owner[n]) = "hysteria2"
    BY <2>2, <2>3 DEF InboundServes, Admits, Kind
  <2>5. <<None, u>> \in uids[owner[n]]
    BY <2>4 DEF Admits, UidKey
  <2>6. Traced(owner[n], u)
    BY <2>1, <2>2 DEF ServeInv
  <2>7. \A m \in Nodes : u \in Serves(m) => m # n /\ u \in list[m] \cup new[m]
    BY <2>3 DEF Serves
  <2> QED BY <2>4, <2>5, <2>6, <2>7 DEF Traced
<1> QED BY <1>1, CoresInvariant, PTL
============================================================================
