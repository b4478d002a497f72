------------------------- MODULE DispatcherProofs -------------------------
(***************************************************************************)
(* Proofs about Dispatcher, for any users and connections and any number   *)
(* of deletions: managers hold what is open, a deleted user is cut off,    *)
(* and what is open is counted.                                            *)
(***************************************************************************)
EXTENDS Dispatcher, TLAPS

(* What a connection has at each stage.                                    *)
Staged(c) ==
    LET r == conn[c] IN
    /\ r.at = "idle" => r.user = None /\ ~r.linked /\ r.st = None
    /\ r.at # "idle" => r.user \in Users
    /\ r.at \in {"limit", "manager", "store"} => ~r.linked /\ r.st = None
    /\ r.at \in {"store", "link", "counter", "create", "storage", "route", "open"}
          => r.lm \in Conns
    /\ r.at = "store" => r.lm = c
    /\ r.at = "link" => ~r.linked /\ (r.mode = "link" => r.st \in Conns)
    /\ r.at \in {"counter", "create", "storage"}
          => r.linked = (r.mode = "pipe") /\ r.st = None
    /\ r.at \in {"create", "storage"} => r.tc \in Conns
    /\ r.at = "create" => r.tc = c
    /\ r.at \in {"route", "open"} => r.linked /\ r.st \in Conns
    /\ r.linked => r.lm \in Conns
    /\ r.at \in {"idle", "over"} => ~r.open
    /\ Registering(c) => r.open
    /\ r.closed => ~r.open

(* Where the monitor is in DelUsers.                                       *)
Deleting ==
    /\ del.at = "idle" => del.user = None
    /\ del.at # "idle" => del.user \in Users
    /\ del.at \in {"counter", "load", "range", "forget"} => del.user \notin users
    /\ del.at = "range" => del.lm \in Conns

DispatcherInv == DispatcherTypeOK /\ (\A c \in Conns : Staged(c)) /\ Deleting

(* Connections that have their manager and may still be open.              *)
Attached(c) == conn[c].at \in {"link", "counter", "create", "storage", "route", "open"}

(* A deletion finds the manager of every connection it has to close.       *)
Reached ==
    \A c \in Conns : Attached(c) /\ conn[c].open /\ c \notin excused
        => linkManagers[conn[c].user] = conn[c].lm

(* A user that is out of the inbound has open connections only until the   *)
(* deletion in progress comes to them.                                     *)
Pursued ==
    \A c \in Conns :
        /\ conn[c].open /\ c \notin excused /\ conn[c].user \notin users
        => /\ del.user = conn[c].user
           /\ \/ del.at \in {"counter", "load"}
              \/ /\ del.at = "range" /\ conn[c].linked
                 /\ conn[c].lm = del.lm /\ c \in del.todo

CutInv == LinksAreOpen /\ Reached /\ Pursued

(* The counter of a connection is the one that is collected, and its       *)
(* storage the one of its user, from when it has them.                     *)
Counted(c) ==
    c \notin uncounted =>
    /\ conn[c].at = "storage" \/ conn[c].st # None
          => counter # None /\ conn[c].tc = counter
    /\ conn[c].st # None => counters[counter][conn[c].user] = conn[c].st

CountInv == \A c \in Conns : Counted(c)

---------------------------------------------------------------------------
(* The type of what is neither a connection nor the monitor.               *)
MapsType ==
    /\ users \subseteq Users /\ limited \subseteq Users
    /\ linkManagers \in [Users -> Conns \cup {None}]
    /\ links \in [Conns -> SUBSET Conns]
    /\ counter \in Conns \cup {None}
    /\ counters \in [Conns -> [Users -> Conns \cup {None}]]
    /\ changes \in 0 .. MaxChanges /\ fatal \in BOOLEAN
    /\ excused \subseteq Conns /\ uncounted \subseteq Conns

(* A step of one connection that keeps the monitor and the users.          *)
LEMMA StageStep ==
    ASSUME DispatcherInv, NEW c \in Conns,
           users' = users, del'.at = del.at, del'.user = del.user,
           del'.lm = del.lm, del' \in Deletion,
           MapsType', conn' \in [Conns -> Connection], Staged(c)',
           \A d \in Conns \ {c} : conn'[d] = conn[d]
    PROVE  DispatcherInv'
<1>1. ASSUME NEW d \in Conns PROVE Staged(d)'
  BY <1>1 DEF DispatcherInv, Staged, Registering
<1>2. Deleting'
  BY DEF DispatcherInv, Deleting
<1>3. DispatcherTypeOK'
  BY <1>1 DEF DispatcherTypeOK, MapsType, Staged
<1> QED BY <1>1, <1>2, <1>3 DEF DispatcherInv

(* The steps of getLink and DispatchLink up to the counter.                *)
LEMMA SetUpType ==
    ASSUME DispatcherInv, NEW c \in Conns, SetUp(c) PROVE DispatcherInv'
<1> USE DispatcherAssumption
<1>0. /\ DispatcherTypeOK /\ Staged(c) /\ conn[c] \in Connection /\ del \in Deletion
  BY DEF DispatcherInv, DispatcherTypeOK
<1>1. CASE Refuse(c)
  <2>1. /\ conn' \in [Conns -> Connection] /\ Staged(c)'
        /\ \A d \in Conns \ {c} : conn'[d] = conn[d]
    BY <1>0, <1>1 DEF Refuse, DispatcherTypeOK, Connection, Stages, Modes,
                      Staged, Registering
  <2>2. MapsType'
    BY <1>0, <1>1 DEF Refuse, maps, MapsType, DispatcherTypeOK, Staged
  <2> QED BY <1>0, <1>1, <2>1, <2>2, StageStep DEF Refuse
<1>2. CASE CheckLimit(c)
  <2>1. /\ conn' \in [Conns -> Connection] /\ Staged(c)'
        /\ \A d \in Conns \ {c} : conn'[d] = conn[d]
    BY <1>0, <1>2 DEF CheckLimit, Step, DispatcherTypeOK, Connection, Stages, Modes,
                      Staged, Registering
  <2>2. MapsType'
    BY <1>0, <1>2 DEF CheckLimit, maps, MapsType, DispatcherTypeOK, Staged
  <2> QED BY <1>0, <1>2, <2>1, <2>2, StageStep DEF CheckLimit
<1>3. CASE LoadManager(c)
  <2>1. /\ conn' \in [Conns -> Connection] /\ Staged(c)'
        /\ \A d \in Conns \ {c} : conn'[d] = conn[d]
    BY <1>0, <1>3 DEF LoadManager, AfterManager, DispatcherTypeOK, Connection, Stages, Modes,
                      Staged, Registering
  <2>2. MapsType'
    BY <1>0, <1>3 DEF LoadManager, maps, MapsType, DispatcherTypeOK, Staged
  <2> QED BY <1>0, <1>3, <2>1, <2>2, StageStep DEF LoadManager
<1>4. CASE StoreManager(c)
  <2>1. /\ conn' \in [Conns -> Connection] /\ Staged(c)'
        /\ \A d \in Conns \ {c} : conn'[d] = conn[d]
    BY <1>0, <1>4 DEF StoreManager, AfterManager, Step, DispatcherTypeOK, Connection, Stages, Modes,
                      Staged, Registering
  <2>2. MapsType'
    BY <1>0, <1>4 DEF StoreManager, MapsType, DispatcherTypeOK, Staged
  <2> QED BY <1>0, <1>4, <2>1, <2>2, StageStep DEF StoreManager
<1>5. CASE AddLink(c)
  <2>1. /\ conn' \in [Conns -> Connection] /\ Staged(c)'
        /\ \A d \in Conns \ {c} : conn'[d] = conn[d]
    BY <1>0, <1>5 DEF AddLink, AfterLink, DispatcherTypeOK, Connection, Stages, Modes,
                      Staged, Registering
  <2>2. MapsType'
    BY <1>0, <1>5 DEF AddLink, MayBeFatal, MapsType, DispatcherTypeOK, Staged
  <2>3. /\ del'.at = del.at /\ del'.user = del.user /\ del'.lm = del.lm
        /\ del' \in Deletion
    BY <1>0, <1>5 DEF AddLink, DispatcherTypeOK, Deletion
  <2> QED BY <1>5, <2>1, <2>2, <2>3, StageStep DEF AddLink
<1>6. CASE LoadCounter(c)
  <2>1. /\ conn' \in [Conns -> Connection] /\ Staged(c)'
        /\ \A d \in Conns \ {c} : conn'[d] = conn[d]
    BY <1>0, <1>6 DEF LoadCounter, DispatcherTypeOK, Connection, Stages, Modes,
                      Staged, Registering
  <2>2. MapsType'
    BY <1>0, <1>6 DEF LoadCounter, maps, MapsType, DispatcherTypeOK, Staged
  <2> QED BY <1>0, <1>6, <2>1, <2>2, StageStep DEF LoadCounter
<1>7. CASE StoreCounter(c)
  <2>1. /\ conn' \in [Conns -> Connection] /\ Staged(c)'
        /\ \A d \in Conns \ {c} : conn'[d] = conn[d]
    BY <1>0, <1>7 DEF StoreCounter, Step, DispatcherTypeOK, Connection, Stages, Modes,
                      Staged, Registering
  <2>2. MapsType'
    BY <1>0, <1>7 DEF StoreCounter, MapsType, DispatcherTypeOK, Staged
  <2> QED BY <1>0, <1>7, <2>1, <2>2, StageStep DEF StoreCounter
<1>8. CASE GetCounter(c)
  <2>1. /\ conn' \in [Conns -> Connection] /\ Staged(c)'
        /\ \A d \in Conns \ {c} : conn'[d] = conn[d]
    BY <1>0, <1>8 DEF GetCounter, AfterStorage, DispatcherTypeOK, Connection, Stages, Modes,
                      Staged, Registering
  <2>2. MapsType'
    BY <1>0, <1>8 DEF GetCounter, MapsType, DispatcherTypeOK, Staged
  <2> QED BY <1>0, <1>8, <2>1, <2>2, StageStep DEF GetCounter
<1> QED BY <1>1, <1>2, <1>3, <1>4, <1>5, <1>6, <1>7, <1>8 DEF SetUp

(* Routing a connection and ending it.                                     *)
LEMMA ServeType ==
    ASSUME DispatcherInv, NEW c \in Conns, Serve(c) PROVE DispatcherInv'
<1> USE DispatcherAssumption
<1>0. /\ DispatcherTypeOK /\ Staged(c) /\ conn[c] \in Connection /\ del \in Deletion
  BY DEF DispatcherInv, DispatcherTypeOK
<1>1. CASE Route(c)
  <2>0. /\ conn' \in [Conns -> Connection]
        /\ \A d \in Conns \ {c} : conn'[d] = conn[d]
        /\ conn'[c].at = "open" /\ conn'[c].user = conn[c].user
        /\ conn'[c].lm = conn[c].lm /\ conn'[c].st = conn[c].st
        /\ conn'[c].linked = conn[c].linked /\ conn'[c].open = conn[c].open
        /\ conn'[c].closed = conn[c].closed
    BY <1>0, <1>1 DEF Route, Step, DispatcherTypeOK, Connection, Stages
  <2>1. Staged(c)'
    BY <1>0, <1>1, <2>0 DEF Route, Staged, Registering
  <2>2. MapsType'
    BY <1>0, <1>1 DEF Route, maps, MapsType, DispatcherTypeOK, Staged
  <2> QED BY <1>0, <1>1, <2>0, <2>1, <2>2, StageStep DEF Route
<1>2. ASSUME conn[c].at \in {"route", "open"}, Finish(c) PROVE DispatcherInv'
  <2>0. /\ conn' \in [Conns -> Connection]
        /\ \A d \in Conns \ {c} : conn'[d] = conn[d]
        /\ conn'[c].at = "over" /\ conn'[c].user = conn[c].user
        /\ conn'[c].lm = conn[c].lm /\ conn'[c].st = conn[c].st
        /\ conn'[c].linked = conn[c].linked /\ conn'[c].open = FALSE
    BY <1>0, <1>2 DEF Finish, DispatcherTypeOK, Connection, Stages
  <2>1. Staged(c)'
    BY <1>0, <1>2, <2>0 DEF Staged, Registering
  <2>2. links' \in [Conns -> SUBSET Conns] /\ fatal' \in BOOLEAN
    <3>1. links \in [Conns -> SUBSET Conns] /\ fatal \in BOOLEAN
      BY <1>0 DEF DispatcherTypeOK
    <3>2. CASE conn[c].mode = "link"
      <4>1. RemoveWriter(c)
        BY <1>2, <3>2 DEF Finish
      <4> QED BY <3>1, <4>1 DEF RemoveWriter, MayBeFatal
    <3>3. CASE conn[c].mode # "link"
      BY <1>2, <3>1, <3>3 DEF Finish
    <3> QED BY <3>2, <3>3
  <2>3. MapsType'
    BY <1>0, <1>2, <2>2 DEF Finish, MapsType, DispatcherTypeOK
  <2> QED BY <1>0, <1>2, <2>0, <2>1, <2>3, StageStep DEF Finish
<1>3. CASE InboundCloses(c)
  <2>1. /\ conn' \in [Conns -> Connection] /\ Staged(c)'
        /\ \A d \in Conns \ {c} : conn'[d] = conn[d]
    BY <1>0, <1>3 DEF InboundCloses, DispatcherTypeOK, Connection, Stages, Modes,
                      Staged, Registering
  <2>2. MapsType'
    BY <1>0, <1>3 DEF InboundCloses, RemoveWriter, MayBeFatal, MapsType, DispatcherTypeOK, Staged
  <2> QED BY <1>0, <1>3, <2>1, <2>2, StageStep DEF InboundCloses
<1> QED BY <1>1, <1>2, <1>3 DEF Serve, Reject, HandlerEnds

(* A new connection takes the place of one that is over.                   *)
LEMMA AcceptType ==
    ASSUME DispatcherInv, NEW c \in Conns, NEW u \in Users, NEW mode \in Modes,
           Accept(c, u, mode)
    PROVE  DispatcherInv'
<1> USE DispatcherAssumption
<1>0. /\ DispatcherTypeOK /\ Staged(c) /\ conn[c] \in Connection
  BY DEF DispatcherInv, DispatcherTypeOK
<1> DEFINE new == [Unused EXCEPT !.at = "limit", !.user = u, !.mode = mode,
                                 !.open = TRUE]
<1>1. /\ new \in Connection /\ new.at = "limit" /\ new.user = u /\ new.open
      /\ ~new.linked /\ new.st = None /\ ~new.closed
  BY DEF Unused, Connection, Stages, Modes
<1>2. conn' = [conn EXCEPT ![c] = new]
  BY DEF Accept
<1> HIDE DEF new
<1>3. MapsType'
  BY <1>0 DEF Accept, maps, DispatcherTypeOK, MapsType
<1>4. /\ conn' \in [Conns -> Connection] /\ Staged(c)'
      /\ \A d \in Conns \ {c} : conn'[d] = conn[d]
  BY <1>0, <1>1, <1>2 DEF DispatcherTypeOK, Staged, Registering
<1> QED BY <1>0, <1>3, <1>4, StageStep DEF Accept, DispatcherTypeOK

(* Steps of the monitor, which change a connection at most by cutting it.  *)
LEMMA MonitorType ==
    ASSUME DispatcherInv, LinksAreOpen,
           \/ \E u \in Users, again \in BOOLEAN : RemoveUser(u, again)
           \/ \E u \in Users : AddUser(u)
           \/ \E t \in Conns, u \in Users : DeleteUnknown(t, u)
           \/ DelUsersStep
    PROVE  DispatcherInv'
<1> USE DispatcherAssumption
<1>0. DispatcherTypeOK /\ Deleting
  BY DEF DispatcherInv
<1>a. ASSUME UNCHANGED conn, MapsType', del' \in Deletion, Deleting'
      PROVE  DispatcherInv'
  <2>1. \A c \in Conns : Staged(c)'
    BY <1>a DEF DispatcherInv, Staged, Registering
  <2>2. DispatcherTypeOK'
    BY <1>0, <1>a, <2>1 DEF DispatcherTypeOK, MapsType, Staged
  <2> QED BY <1>a, <2>1, <2>2 DEF DispatcherInv
<1>1. ASSUME NEW u \in Users, NEW again \in BOOLEAN, RemoveUser(u, again)
      PROVE  DispatcherInv'
  <2>a. changes \in 0 .. MaxChanges /\ changes < MaxChanges /\ changes' = changes + 1
    BY <1>0, <1>1, Zenon DEF RemoveUser, DispatcherTypeOK
  <2>0. changes' \in 0 .. MaxChanges
    BY <2>a
  <2>1. MapsType'
    BY <1>0, <1>1, <2>0 DEF RemoveUser, maps, MapsType, DispatcherTypeOK
  <2>2. del' \in Deletion /\ Deleting'
    BY <1>0, <1>1 DEF RemoveUser, NoDeletion, Deletion, DispatcherTypeOK, Deleting
  <2> QED BY <1>1, <1>a, <2>1, <2>2 DEF RemoveUser
<1>2. ASSUME NEW u \in Users, AddUser(u) PROVE DispatcherInv'
  <2>a. changes \in 0 .. MaxChanges /\ changes < MaxChanges /\ changes' = changes + 1
    BY <1>0, <1>2, Zenon DEF AddUser, DispatcherTypeOK
  <2>0. changes' \in 0 .. MaxChanges
    BY <2>a
  <2>1. MapsType'
    BY <1>0, <1>2, <2>0 DEF AddUser, maps, MapsType, DispatcherTypeOK
  <2>2. del' \in Deletion /\ Deleting'
    BY <1>0, <1>2 DEF AddUser, NoDeletion, Deletion, DispatcherTypeOK, Deleting
  <2> QED BY <1>2, <1>a, <2>1, <2>2 DEF AddUser
<1>3. CASE DropCounter
  <2>1. MapsType'
    BY <1>0, <1>3 DEF DropCounter, MapsType, DispatcherTypeOK, Deleting
  <2>2. del' \in Deletion /\ Deleting'
    BY <1>0, <1>3 DEF DropCounter, Deletion, DispatcherTypeOK, Deleting
  <2> QED BY <1>3, <1>a, <2>1, <2>2 DEF DropCounter
<1>4. CASE LoadLinks
  <2>1. MapsType'
    BY <1>0, <1>4 DEF LoadLinks, maps, MapsType, DispatcherTypeOK, Deleting
  <2>2. del' \in Deletion /\ Deleting'
    BY <1>0, <1>4 DEF LoadLinks, Deletion, DispatcherTypeOK, Deleting
  <2> QED BY <1>4, <1>a, <2>1, <2>2 DEF LoadLinks
<1>5. CASE EndRange
  <2>1. MapsType'
    BY <1>0, <1>5 DEF EndRange, maps, MapsType, DispatcherTypeOK, Deleting
  <2>2. del' \in Deletion /\ Deleting'
    BY <1>0, <1>5 DEF EndRange, Deletion, DispatcherTypeOK, Deleting
  <2> QED BY <1>5, <1>a, <2>1, <2>2 DEF EndRange
<1>6. CASE ForgetManager
  <2>1. MapsType'
    BY <1>0, <1>6 DEF ForgetManager, MapsType, DispatcherTypeOK, Deleting
  <2>2. del' \in Deletion /\ Deleting'
    BY <1>0, <1>6 DEF ForgetManager, Deletion, DispatcherTypeOK, Deleting
  <2> QED BY <1>6, <1>a, <2>1, <2>2 DEF ForgetManager
<1>7. CASE ReAdd
  <2>1. MapsType'
    BY <1>0, <1>7 DEF ReAdd, maps, MapsType, DispatcherTypeOK, Deleting
  <2>2. del' \in Deletion /\ Deleting'
    BY <1>0, <1>7 DEF ReAdd, Deletion, DispatcherTypeOK, Deleting
  <2> QED BY <1>7, <1>a, <2>1, <2>2 DEF ReAdd
<1>8. CASE UpdateUser
  <2>1. MapsType'
    BY <1>0, <1>8 DEF UpdateUser, maps, MapsType, DispatcherTypeOK, Deleting
  <2>2. del' \in Deletion /\ Deleting'
    BY <1>0, <1>8 DEF UpdateUser, NoDeletion, Deletion, DispatcherTypeOK, Deleting
  <2> QED BY <1>8, <1>a, <2>1, <2>2 DEF UpdateUser
<1>9. ASSUME NEW c \in Conns, CloseLink(c) PROVE DispatcherInv'
  <2>1. MapsType'
    BY <1>0, <1>9 DEF CloseLink, MapsType, DispatcherTypeOK
  <2>2. /\ users' = users /\ del'.at = del.at /\ del'.user = del.user
        /\ del'.lm = del.lm /\ del' \in Deletion
    BY <1>0, <1>9 DEF CloseLink, Deletion, DispatcherTypeOK
  <2>3. Staged(c) /\ conn[c].linked
    BY <1>0, <1>9 DEF CloseLink, LinksAreOpen, Deleting, DispatcherInv
  <2>a. /\ conn' = [conn EXCEPT ![c].open = FALSE]
        /\ conn \in [Conns -> Connection]
    BY <1>0, <1>9 DEF CloseLink, DispatcherTypeOK
  <2>4. /\ conn' \in [Conns -> Connection]
        /\ \A d \in Conns \ {c} : conn'[d] = conn[d]
        /\ conn'[c].at = conn[c].at /\ conn'[c].user = conn[c].user
        /\ conn'[c].mode = conn[c].mode /\ conn'[c].tc = conn[c].tc
        /\ conn'[c].lm = conn[c].lm /\ conn'[c].st = conn[c].st
        /\ conn'[c].linked = conn[c].linked /\ conn'[c].open = FALSE
    BY <2>a DEF Connection
  <2>5. Staged(c)'
    BY <2>3, <2>4 DEF Staged, Registering
  <2> QED BY <2>1, <2>2, <2>4, <2>5, StageStep
<1>10. ASSUME NEW t \in Conns, NEW u \in Users, DeleteUnknown(t, u) PROVE DispatcherInv'
  <2>1. MapsType'
    BY <1>0, <1>10 DEF DeleteUnknown, MapsType, DispatcherTypeOK
  <2>2. del' \in Deletion /\ Deleting'
    BY <1>0, <1>10 DEF DeleteUnknown, DispatcherTypeOK, Deleting
  <2> QED BY <1>10, <1>a, <2>1, <2>2 DEF DeleteUnknown
<1> QED BY <1>1, <1>2, <1>3, <1>4, <1>5, <1>6, <1>7, <1>8, <1>9, <1>10 DEF DelUsersStep

---------------------------------------------------------------------------
(* A step of one connection that leaves the managers and the monitor alone.*)
LEMMA LightCut ==
    ASSUME DispatcherInv, CutInv, NEW c \in Conns, conn[c].at # "over",
           users' = users, linkManagers' = linkManagers, links' = links,
           del' = del, excused' = excused,
           \A d \in Conns \ {c} : conn'[d] = conn[d],
           conn'[c].user = conn[c].user, conn'[c].mode = conn[c].mode,
           conn'[c].linked = conn[c].linked, conn'[c].closed = conn[c].closed,
           conn'[c].open => conn[c].open,
           conn[c].linked => /\ conn'[c].open = conn[c].open
                             /\ conn'[c].lm = conn[c].lm,
           Attached(c)' /\ conn'[c].open
              => \/ linkManagers[conn[c].user] = conn'[c].lm
                 \/ Attached(c) /\ conn'[c].lm = conn[c].lm
    PROVE  CutInv'
<1>1. LinksAreOpen'
  BY DEF CutInv, LinksAreOpen
<1>2. Reached'
  BY DEF CutInv, Reached, Attached
<1>3. Pursued'
  BY DEF CutInv, Pursued
<1> QED BY <1>1, <1>2, <1>3 DEF CutInv

(* A connection that is set up is one a deletion will find.                *)
LEMMA SetUpCut ==
    ASSUME DispatcherInv, CutInv, NEW c \in Conns, SetUp(c) PROVE CutInv'
<1> USE DispatcherAssumption
<1>0. /\ DispatcherTypeOK /\ Staged(c) /\ conn \in [Conns -> Connection]
  BY DEF DispatcherInv, DispatcherTypeOK
<1>1. CASE Refuse(c)
  <2>1. /\ conn' = [conn EXCEPT ![c].at = "over", ![c].open = FALSE]
        /\ conn[c].at = "limit"
    BY <1>1 DEF Refuse
  <2>2. /\ \A d \in Conns \ {c} : conn'[d] = conn[d]
        /\ conn'[c].at = "over" /\ conn'[c].open = FALSE
        /\ conn'[c].user = conn[c].user /\ conn'[c].mode = conn[c].mode
        /\ conn'[c].linked = conn[c].linked /\ conn'[c].closed = conn[c].closed
        /\ conn'[c].lm = conn[c].lm
    BY <1>0, <2>1 DEF Connection
  <2>3. ~conn[c].linked
    BY <1>0, <2>1 DEF Staged
  <2> QED BY <1>1, <2>1, <2>2, <2>3, LightCut DEF Refuse, maps, Attached
<1>2. CASE CheckLimit(c)
  <2>1. /\ conn' = [conn EXCEPT ![c].at = "manager"] /\ conn[c].at = "limit"
    BY <1>2 DEF CheckLimit, Step
  <2>2. /\ \A d \in Conns \ {c} : conn'[d] = conn[d]
        /\ conn'[c].at = "manager" /\ conn'[c].open = conn[c].open
        /\ conn'[c].user = conn[c].user /\ conn'[c].mode = conn[c].mode
        /\ conn'[c].linked = conn[c].linked /\ conn'[c].closed = conn[c].closed
        /\ conn'[c].lm = conn[c].lm
    BY <1>0, <2>1 DEF Connection
  <2> QED BY <1>2, <2>1, <2>2, LightCut DEF CheckLimit, maps, Attached
<1>3. CASE LoadManager(c)
  <2>1. PICK m \in Conns \cup {None}, at \in Stages :
           /\ conn' = [conn EXCEPT ![c].at = at, ![c].lm = m]
           /\ at # "store" => m = linkManagers[conn[c].user]
           /\ conn[c].at = "manager"
    BY <1>0, <1>3 DEF LoadManager, AfterManager, DispatcherTypeOK, Stages
  <2>2. /\ \A d \in Conns \ {c} : conn'[d] = conn[d]
        /\ conn'[c].at = at /\ conn'[c].lm = m /\ conn'[c].open = conn[c].open
        /\ conn'[c].user = conn[c].user /\ conn'[c].mode = conn[c].mode
        /\ conn'[c].linked = conn[c].linked /\ conn'[c].closed = conn[c].closed
    BY <1>0, <2>1 DEF Connection
  <2>3. ~conn[c].linked
    BY <1>0, <2>1 DEF Staged
  <2> QED BY <1>3, <2>1, <2>2, <2>3, LightCut DEF LoadManager, maps, Attached
<1>4. CASE StoreManager(c)
  <2>1. PICK at \in {"link", "counter"} : conn' = [conn EXCEPT ![c].at = at]
    BY <1>4 DEF StoreManager, Step, AfterManager
  <2>2. /\ \A d \in Conns \ {c} : conn'[d] = conn[d]
        /\ conn'[c].at = at /\ conn'[c].lm = conn[c].lm
        /\ conn'[c].open = conn[c].open
        /\ conn'[c].user = conn[c].user /\ conn'[c].mode = conn[c].mode
        /\ conn'[c].linked = conn[c].linked /\ conn'[c].closed = conn[c].closed
    BY <1>0, <2>1 DEF Connection
  <2>3. conn[c].lm = c /\ conn[c].user \in Users /\ ~conn[c].linked
    BY <1>0, <1>4 DEF StoreManager, Staged
  <2>4. LinksAreOpen'
    BY <1>4, <2>2, <2>3 DEF StoreManager, CutInv, LinksAreOpen
  <2>5. /\ linkManagers'[conn[c].user] = c
        /\ \A u \in Users : u # conn[c].user => linkManagers'[u] = linkManagers[u]
    BY <1>0, <1>4, <2>3 DEF StoreManager, DispatcherTypeOK
  <2>6. Reached'
    <3> SUFFICES ASSUME NEW d \in Conns, d # c,
                        Attached(d), conn[d].open, d \notin excused'
                 PROVE  linkManagers'[conn[d].user] = conn[d].lm
      BY <2>2, <2>3, <2>5 DEF Reached, Attached
    <3>1. conn[d].lm \in Conns /\ conn[d].user \in Users
      BY DEF DispatcherInv, Staged, Attached
    <3>2. linkManagers[conn[d].user] = conn[d].lm
      BY <1>4 DEF StoreManager, CutInv, Reached
    <3>3. conn[d].user # conn[c].user
      BY <1>4, <3>1, <3>2 DEF StoreManager
    <3> QED BY <2>5, <3>1, <3>2, <3>3
  <2>7. Pursued'
    BY <1>4, <2>2 DEF StoreManager, CutInv, Pursued
  <2> QED BY <2>4, <2>6, <2>7 DEF CutInv
<1>5. CASE AddLink(c)
  <2>1. PICK at \in {"counter", "route"} :
           conn' = [conn EXCEPT ![c].at = at, ![c].linked = TRUE]
    BY <1>5 DEF AddLink, AfterLink
  <2>2. /\ \A d \in Conns \ {c} : conn'[d] = conn[d]
        /\ conn'[c].at = at /\ conn'[c].lm = conn[c].lm
        /\ conn'[c].open = conn[c].open
        /\ conn'[c].user = conn[c].user /\ conn'[c].mode = conn[c].mode
        /\ conn'[c].linked = TRUE /\ conn'[c].closed = conn[c].closed
    BY <1>0, <2>1 DEF Connection
  <2>3. /\ conn[c].lm \in Conns /\ ~conn[c].linked /\ conn[c].open
        /\ conn[c].at = "link"
    BY <1>0, <1>5 DEF AddLink, Staged, Registering
  <2>4. /\ links'[conn[c].lm] = links[conn[c].lm] \cup {c}
        /\ \A m \in Conns : m # conn[c].lm => links'[m] = links[m]
    BY <1>0, <1>5, <2>3 DEF AddLink, DispatcherTypeOK
  <2>u. users' = users /\ linkManagers' = linkManagers /\ excused' = excused
    BY <1>5 DEF AddLink
  <2>5. LinksAreOpen'
    <3> SUFFICES ASSUME NEW d \in Conns
        PROVE  /\ \A m \in Conns : d \in links'[m] => conn'[d].linked /\ m = conn'[d].lm
               /\ conn'[d].linked /\ conn'[d].open => d \in links'[conn'[d].lm]
               /\ conn'[d].linked /\ ~conn'[d].open /\ d \in links'[conn'[d].lm]
                    => /\ conn'[d].mode = "pipe" /\ conn'[d].at = "over"
                       /\ ~conn'[d].closed
      BY DEF LinksAreOpen
    <3>1. CASE d = c
      BY <2>2, <2>3, <2>4, <3>1 DEF CutInv, LinksAreOpen
    <3>2. CASE d # c
      <4>1. conn'[d] = conn[d] /\ (conn[d].linked => conn[d].lm \in Conns)
        BY <2>2, <3>2 DEF DispatcherInv, Staged
      <4>2. \A m \in Conns : d \in links'[m] <=> d \in links[m]
        BY <2>4, <3>2
      <4> QED BY <4>1, <4>2 DEF CutInv, LinksAreOpen
    <3> QED BY <3>1, <3>2
  <2>6. Reached'
    BY <2>u, <2>2, <2>3 DEF CutInv, Reached, Attached
  <2>7. /\ del'.at = del.at /\ del'.user = del.user /\ del'.lm = del.lm
        /\ del.todo \subseteq del'.todo
    BY <1>0, <1>5 DEF AddLink, DispatcherTypeOK, Deletion
  <2>8. Pursued'
    BY <2>u, <2>2, <2>3, <2>7 DEF CutInv, Pursued
  <2> QED BY <2>5, <2>6, <2>8 DEF CutInv
<1>6. CASE LoadCounter(c)
  <2>1. PICK at \in {"create", "storage"}, t \in Conns :
            conn' = [conn EXCEPT ![c].at = at, ![c].tc = t]
    BY <1>0, <1>6 DEF LoadCounter, DispatcherTypeOK
  <2>2. /\ \A d \in Conns \ {c} : conn'[d] = conn[d]
        /\ conn'[c].at = at /\ conn'[c].lm = conn[c].lm
        /\ conn'[c].open = conn[c].open
        /\ conn'[c].user = conn[c].user /\ conn'[c].mode = conn[c].mode
        /\ conn'[c].linked = conn[c].linked /\ conn'[c].closed = conn[c].closed
    BY <1>0, <2>1 DEF Connection
  <2> QED BY <1>6, <2>2, LightCut DEF LoadCounter, maps, Attached
<1>7. CASE StoreCounter(c)
  <2>1. conn' = [conn EXCEPT ![c].at = "storage"]
    BY <1>7 DEF StoreCounter, Step
  <2>2. /\ \A d \in Conns \ {c} : conn'[d] = conn[d]
        /\ conn'[c].at = "storage" /\ conn'[c].lm = conn[c].lm
        /\ conn'[c].open = conn[c].open
        /\ conn'[c].user = conn[c].user /\ conn'[c].mode = conn[c].mode
        /\ conn'[c].linked = conn[c].linked /\ conn'[c].closed = conn[c].closed
    BY <1>0, <2>1 DEF Connection
  <2> QED BY <1>7, <2>2, LightCut DEF StoreCounter, Attached
<1>8. CASE GetCounter(c)
  <2> DEFINE t == conn[c].tc
             u == conn[c].user
             s == IF counters[t][u] = None THEN c ELSE counters[t][u]
  <2>1. PICK at \in {"route", "link"} :
               conn' = [conn EXCEPT ![c].at = at, ![c].st = s]
    BY <1>8, Zenon DEF GetCounter, AfterStorage
  <2> HIDE DEF s
  <2>2. /\ \A d \in Conns \ {c} : conn'[d] = conn[d]
        /\ conn'[c].at = at /\ conn'[c].lm = conn[c].lm
        /\ conn'[c].open = conn[c].open
        /\ conn'[c].user = conn[c].user /\ conn'[c].mode = conn[c].mode
        /\ conn'[c].linked = conn[c].linked /\ conn'[c].closed = conn[c].closed
    BY <1>0, <2>1 DEF Connection
  <2> QED BY <1>8, <2>2, LightCut DEF GetCounter, Attached
<1> QED BY <1>1, <1>2, <1>3, <1>4, <1>5, <1>6, <1>7, <1>8 DEF SetUp

(* A step that ends the managed direction of a connection: by the managed  *)
(* writer, which leaves its manager, or below it on a pipe.                *)
LEMMA EndCut ==
    ASSUME DispatcherInv, CutInv, NEW c \in Conns, conn[c].linked,
           users' = users, linkManagers' = linkManagers, excused' = excused,
           del'.at = del.at, del'.user = del.user, del'.lm = del.lm,
           del.todo \ {c} \subseteq del'.todo,
           \A d \in Conns \ {c} : conn'[d] = conn[d],
           conn'[c].lm = conn[c].lm, conn'[c].linked = conn[c].linked,
           conn'[c].open = FALSE,
           \/ links' = [links EXCEPT ![conn[c].lm] = @ \ {c}]
           \/ /\ links' = links
              /\ conn'[c].mode = "pipe" /\ conn'[c].at = "over"
              /\ c \in links[conn[c].lm] => ~conn'[c].closed
    PROVE  CutInv'
<1>1. conn[c].lm \in Conns /\ links \in [Conns -> SUBSET Conns]
  BY DEF DispatcherInv, Staged, DispatcherTypeOK
<1>2. LinksAreOpen'
  <2> SUFFICES ASSUME NEW d \in Conns
      PROVE  /\ \A m \in Conns : d \in links'[m] => conn'[d].linked /\ m = conn'[d].lm
             /\ conn'[d].linked /\ conn'[d].open => d \in links'[conn'[d].lm]
             /\ conn'[d].linked /\ ~conn'[d].open /\ d \in links'[conn'[d].lm]
                  => /\ conn'[d].mode = "pipe" /\ conn'[d].at = "over"
                     /\ ~conn'[d].closed
    BY DEF LinksAreOpen
  <2>1. CASE d = c
    <3>1. CASE links' = [links EXCEPT ![conn[c].lm] = @ \ {c}]
      BY <1>1, <2>1, <3>1 DEF CutInv, LinksAreOpen
    <3>2. CASE links' = links /\ conn'[c].mode = "pipe" /\ conn'[c].at = "over"
               /\ (c \in links[conn[c].lm] => ~conn'[c].closed)
      BY <2>1, <3>2 DEF CutInv, LinksAreOpen
    <3> QED BY <3>1, <3>2
  <2>2. CASE d # c
    <3>1. conn'[d] = conn[d] /\ (conn[d].linked => conn[d].lm \in Conns)
      BY <2>2 DEF DispatcherInv, Staged
    <3>2. \A m \in Conns : d \in links'[m] <=> d \in links[m]
      BY <1>1, <2>2
    <3> QED BY <3>1, <3>2 DEF CutInv, LinksAreOpen
  <2> QED BY <2>1, <2>2
<1>3. Reached'
  BY DEF CutInv, Reached, Attached
<1>4. Pursued'
  BY DEF CutInv, Pursued
<1> QED BY <1>2, <1>3, <1>4 DEF CutInv

(* A connection that ends leaves the managers that hold it.                *)
LEMMA ServeCut ==
    ASSUME DispatcherInv, CutInv, NEW c \in Conns, Serve(c) PROVE CutInv'
<1> USE DispatcherAssumption
<1>0. /\ DispatcherTypeOK /\ Staged(c) /\ conn \in [Conns -> Connection]
  BY DEF DispatcherInv, DispatcherTypeOK
<1>1. CASE Route(c)
  <2>1. conn' = [conn EXCEPT ![c].at = "open"] /\ conn[c].at = "route"
    BY <1>1 DEF Route, Step
  <2>2. /\ \A d \in Conns \ {c} : conn'[d] = conn[d]
        /\ conn'[c].at = "open" /\ conn'[c].lm = conn[c].lm
        /\ conn'[c].open = conn[c].open
        /\ conn'[c].user = conn[c].user /\ conn'[c].mode = conn[c].mode
        /\ conn'[c].linked = conn[c].linked /\ conn'[c].closed = conn[c].closed
    BY <1>0, <2>1 DEF Connection
  <2> QED BY <1>1, <2>1, <2>2, LightCut DEF Route, maps, Attached
<1>2. ASSUME conn[c].at \in {"route", "open"}, Finish(c) PROVE CutInv'
  <2>1. conn' = [conn EXCEPT ![c].at = "over", ![c].open = FALSE]
    BY <1>2 DEF Finish
  <2>2. /\ \A d \in Conns \ {c} : conn'[d] = conn[d]
        /\ conn'[c].at = "over" /\ conn'[c].lm = conn[c].lm
        /\ conn'[c].open = FALSE /\ conn'[c].mode = conn[c].mode
        /\ conn'[c].linked = conn[c].linked /\ conn'[c].closed = conn[c].closed
    BY <1>0, <2>1 DEF Connection
  <2>3. conn[c].linked /\ (conn[c].closed => ~conn[c].open)
    BY <1>0, <1>2 DEF Staged
  <2>4. \/ links' = [links EXCEPT ![conn[c].lm] = @ \ {c}]
        \/ links' = links /\ conn[c].mode = "pipe"
    BY <1>0, <1>2 DEF Finish, RemoveWriter, Connection, Modes
  <2>5. c \in links[conn[c].lm] => ~conn[c].closed
    BY <2>3 DEF CutInv, LinksAreOpen
  <2>6. /\ users' = users /\ linkManagers' = linkManagers /\ excused' = excused
        /\ del' = del
    BY <1>2 DEF Finish
  <2> QED BY <2>2, <2>3, <2>4, <2>5, <2>6, EndCut
<1>3. CASE InboundCloses(c)
  <2>1. /\ conn' = [conn EXCEPT ![c].open = FALSE, ![c].closed = TRUE]
        /\ conn[c].linked
    BY <1>3 DEF InboundCloses
  <2>2. /\ \A d \in Conns \ {c} : conn'[d] = conn[d]
        /\ conn'[c].lm = conn[c].lm /\ conn'[c].open = FALSE
        /\ conn'[c].linked = conn[c].linked
    BY <1>0, <2>1 DEF Connection
  <2>3. /\ links' = [links EXCEPT ![conn[c].lm] = @ \ {c}]
        /\ users' = users /\ linkManagers' = linkManagers /\ excused' = excused
        /\ del' = del
    BY <1>3 DEF InboundCloses, RemoveWriter
  <2> QED BY <2>1, <2>2, <2>3, EndCut
<1> QED BY <1>1, <1>2, <1>3 DEF Serve, Reject, HandlerEnds

(* A new connection is in no manager yet.                                  *)
LEMMA AcceptCut ==
    ASSUME DispatcherInv, CutInv, NEW c \in Conns, NEW u \in Users,
           NEW mode \in Modes, Accept(c, u, mode)
    PROVE  CutInv'
<1> USE DispatcherAssumption
<1>0. /\ conn \in [Conns -> Connection] /\ Staged(c)
  BY DEF DispatcherInv, DispatcherTypeOK
<1> DEFINE new == [Unused EXCEPT !.at = "limit", !.user = u, !.mode = mode,
                                 !.open = TRUE]
<1>1. new.at = "limit" /\ new.user = u /\ ~new.linked
  BY DEF Unused
<1>2. /\ conn' = [conn EXCEPT ![c] = new] /\ conn[c].at = "idle" /\ u \in users
      /\ users' = users /\ linkManagers' = linkManagers /\ links' = links
      /\ del' = del /\ excused' = excused
  BY DEF Accept, maps
<1> HIDE DEF new
<1>3. conn'[c] = new /\ \A d \in Conns \ {c} : conn'[d] = conn[d]
  BY <1>0, <1>2
<1>4. ~conn[c].linked
  BY <1>0, <1>2 DEF Staged
<1>5. LinksAreOpen'
  BY <1>1, <1>2, <1>3, <1>4 DEF CutInv, LinksAreOpen
<1>6. Reached'
  BY <1>1, <1>2, <1>3 DEF CutInv, Reached, Attached
<1>7. Pursued'
  BY <1>1, <1>2, <1>3 DEF CutInv, Pursued
<1> QED BY <1>5, <1>6, <1>7 DEF CutInv

(* A step of the monitor that closes nothing and keeps the managers.       *)
LEMMA MonitorStays ==
    ASSUME CutInv, conn' = conn, links' = links, linkManagers' = linkManagers,
           excused \subseteq excused', Pursued'
    PROVE  CutInv'
BY DEF CutInv, LinksAreOpen, Reached, Attached

(* The steps of DelUsers, and a user who comes back.                       *)
LEMMA MonitorCut ==
    ASSUME DispatcherInv, CutInv,
           \/ \E u \in Users, again \in BOOLEAN : RemoveUser(u, again)
           \/ \E u \in Users : AddUser(u)
           \/ \E t \in Conns, u \in Users : DeleteUnknown(t, u)
           \/ DelUsersStep
    PROVE  CutInv'
<1> USE DispatcherAssumption
<1>0. /\ DispatcherTypeOK /\ Deleting /\ (\A c \in Conns : Staged(c))
      /\ del \in Deletion /\ LinksAreOpen /\ Reached /\ Pursued
  BY DEF DispatcherInv, DispatcherTypeOK, CutInv
<1>1. ASSUME NEW u \in Users, NEW again \in BOOLEAN, RemoveUser(u, again)
      PROVE  CutInv'
  <2>1. del'.at = "counter" /\ del'.user = u
    BY <1>1 DEF RemoveUser, NoDeletion
  <2>2. del.user = None
    BY <1>0, <1>1 DEF RemoveUser, Deleting
  <2>3. /\ users' = users \ {u} /\ conn' = conn /\ excused' = excused
        /\ links' = links /\ linkManagers' = linkManagers /\ del.at = "idle"
    BY <1>1 DEF RemoveUser, maps
  <2>4. Pursued'
    BY <1>0, <2>1, <2>2, <2>3 DEF Pursued
  <2> QED BY <2>3, <2>4, MonitorStays
<1>2. ASSUME NEW u \in Users, AddUser(u) PROVE CutInv'
  <2>1. /\ users' = users /\ conn' = conn /\ excused' = excused
        /\ links' = links /\ linkManagers' = linkManagers /\ del.at = "idle"
    BY <1>2 DEF AddUser, maps
  <2>2. Pursued'
    BY <1>0, <2>1 DEF Pursued
  <2> QED BY <2>1, <2>2, MonitorStays
<1>3. CASE DropCounter
  <2>1. /\ users' = users /\ conn' = conn /\ excused' = excused
        /\ links' = links /\ linkManagers' = linkManagers /\ del.at = "counter"
    BY <1>3 DEF DropCounter
  <2>2. del'.at = "load" /\ del'.user = del.user
    BY <1>0, <1>3 DEF DropCounter, Deletion
  <2>3. Pursued'
    BY <1>0, <2>1, <2>2 DEF Pursued
  <2> QED BY <2>1, <2>3, MonitorStays
<1>4. CASE LoadLinks
  <2> DEFINE m == linkManagers[del.user]
  <2>1. /\ users' = users /\ conn' = conn /\ del.at = "load"
        /\ links' = links /\ linkManagers' = linkManagers
        /\ excused' = excused \cup {c \in Conns : conn[c].user = del.user
                                                   /\ Registering(c)}
    BY <1>4 DEF LoadLinks, maps
  <2>2. /\ del'.user = del.user
        /\ m # None => /\ del'.at = "range" /\ del'.lm = m
                       /\ del'.todo = links[m]
    BY <1>0, <1>4 DEF LoadLinks, Deletion
  <2>3. ASSUME NEW c \in Conns, conn[c].open, c \notin excused',
               conn[c].user \notin users
        PROVE  /\ del'.user = conn[c].user /\ del'.at = "range" /\ conn[c].linked
               /\ conn[c].lm = del'.lm /\ c \in del'.todo
    <3>1. conn[c].user = del.user /\ c \notin excused
      BY <1>0, <2>1, <2>3 DEF Pursued
    <3>2. conn[c].linked /\ conn[c].at \notin {"idle", "over"}
      BY <1>0, <2>1, <2>3, <3>1 DEF Staged, Registering
    <3>3. Attached(c) /\ conn[c].lm \in Conns
      BY <1>0, <3>2 DEF Staged, Attached, DispatcherTypeOK, Connection, Stages
    <3>4. m = conn[c].lm
      BY <1>0, <2>3, <3>1, <3>3 DEF Reached
    <3>5. c \in links[m]
      BY <1>0, <2>3, <3>2, <3>4 DEF LinksAreOpen
    <3> QED BY <2>2, <3>1, <3>2, <3>3, <3>4, <3>5
  <2>4. Pursued'
    BY <2>1, <2>3 DEF Pursued
  <2> QED BY <2>1, <2>4, MonitorStays
<1>5. CASE EndRange
  <2>1. /\ users' = users /\ conn' = conn /\ excused' = excused
        /\ links' = links /\ linkManagers' = linkManagers /\ del.at = "range"
        /\ del.todo \cap links[del.lm] = {}
    BY <1>5 DEF EndRange, maps
  <2>2. Pursued'
    BY <1>0, <2>1 DEF Pursued, LinksAreOpen
  <2> QED BY <2>1, <2>2, MonitorStays
<1>6. CASE ForgetManager
  <2>1. /\ users' = users /\ conn' = conn /\ excused' = excused
        /\ links' = links /\ del.at = "forget"
        /\ linkManagers' = [linkManagers EXCEPT ![del.user] = None]
    BY <1>6 DEF ForgetManager
  <2>2. \A c \in Conns : conn[c].open /\ c \notin excused => conn[c].user \in users
    BY <1>0, <2>1 DEF Pursued
  <2>3. del.user \notin users /\ \A u \in Users : u # del.user
                                     => linkManagers'[u] = linkManagers[u]
    BY <1>0, <2>1 DEF Deleting, DispatcherTypeOK
  <2>4. Reached'
    BY <1>0, <2>1, <2>2, <2>3 DEF Reached, Attached, DispatcherTypeOK
  <2>5. Pursued'
    BY <2>1, <2>2 DEF Pursued
  <2>6. LinksAreOpen'
    BY <1>0, <2>1 DEF LinksAreOpen
  <2> QED BY <2>4, <2>5, <2>6 DEF CutInv
<1>7. CASE ReAdd
  <2>1. /\ users \subseteq users' /\ conn' = conn /\ excused' = excused
        /\ links' = links /\ linkManagers' = linkManagers /\ del.at = "add"
    BY <1>7 DEF ReAdd, maps
  <2>2. Pursued'
    BY <1>0, <2>1 DEF Pursued
  <2> QED BY <2>1, <2>2, MonitorStays
<1>8. CASE UpdateUser
  <2>1. /\ users' = users /\ conn' = conn /\ excused' = excused
        /\ links' = links /\ linkManagers' = linkManagers /\ del.at = "update"
    BY <1>8 DEF UpdateUser, maps
  <2>2. Pursued'
    BY <1>0, <2>1 DEF Pursued
  <2> QED BY <2>1, <2>2, MonitorStays
<1>9. ASSUME NEW c \in Conns, CloseLink(c) PROVE CutInv'
  <2>1. /\ conn' = [conn EXCEPT ![c].open = FALSE]
        /\ c \in links[del.lm] /\ del.lm \in Conns
        /\ links' = [links EXCEPT ![del.lm] = @ \ {c}]
        /\ users' = users /\ linkManagers' = linkManagers /\ excused' = excused
    BY <1>0, <1>9 DEF CloseLink, Deleting
  <2>2. conn \in [Conns -> Connection]
    BY <1>0 DEF DispatcherTypeOK
  <2>3. /\ \A d \in Conns \ {c} : conn'[d] = conn[d]
        /\ conn'[c].lm = conn[c].lm /\ conn'[c].open = FALSE
        /\ conn'[c].linked = conn[c].linked
    BY <2>1, <2>2 DEF Connection
  <2>4. conn[c].linked /\ del.lm = conn[c].lm
    BY <1>0, <2>1 DEF LinksAreOpen
  <2>5. /\ del'.at = del.at /\ del'.user = del.user /\ del'.lm = del.lm
        /\ del'.todo = del.todo \ {c}
    BY <1>0, <1>9 DEF CloseLink, Deletion
  <2> QED BY <2>1, <2>3, <2>4, <2>5, EndCut
<1>10. ASSUME NEW t \in Conns, NEW u \in Users, DeleteUnknown(t, u) PROVE CutInv'
  <2>1. /\ users' = users /\ conn' = conn /\ excused' = excused /\ del' = del
        /\ links' = links /\ linkManagers' = linkManagers
    BY <1>10 DEF DeleteUnknown
  <2>2. Pursued'
    BY <1>0, <2>1 DEF Pursued
  <2> QED BY <2>1, <2>2, MonitorStays
<1> QED BY <1>1, <1>2, <1>3, <1>4, <1>5, <1>6, <1>7, <1>8, <1>9, <1>10 DEF DelUsersStep

---------------------------------------------------------------------------
(* A step that leaves the counters alone: a connection that is new to      *)
(* Counted has no storage.                                                 *)
LEMMA CountStays ==
    ASSUME CountInv, counter' = counter, counters' = counters,
           uncounted' = uncounted,
           \A d \in Conns :
              /\ conn'[d].at = "storage" => conn[d].at = "storage"
              /\ \/ conn'[d].st = None
                 \/ conn'[d].st = conn[d].st /\ conn'[d].user = conn[d].user
              /\ conn'[d].tc = conn[d].tc \/ conn'[d].st = None
              /\ conn'[d].at = "storage" => conn'[d].tc = conn[d].tc
    PROVE  CountInv'
BY DEF CountInv, Counted

(* Every step keeps the counters of open connections in the map.           *)
LEMMA CountStep ==
    ASSUME DispatcherInv, CountInv, [Next]_vars PROVE CountInv'
<1> USE DispatcherAssumption
<1>0. /\ DispatcherTypeOK /\ (\A c \in Conns : Staged(c)) /\ Deleting
      /\ conn \in [Conns -> Connection] /\ del \in Deletion
  BY DEF DispatcherInv, DispatcherTypeOK
<1>1. ASSUME NEW c \in Conns, SetUp(c) \/ Serve(c) PROVE CountInv'
  <2>1. ASSUME \/ Refuse(c) \/ CheckLimit(c) \/ LoadManager(c) \/ StoreManager(c)
               \/ AddLink(c) \/ Route(c) \/ Finish(c) \/ InboundCloses(c)
        PROVE  CountInv'
    <3>1. counter' = counter /\ counters' = counters /\ uncounted' = uncounted
      BY <2>1 DEF Refuse, CheckLimit, LoadManager, StoreManager, AddLink, Route,
                  Finish, InboundCloses, maps
    <3>2. ASSUME NEW d \in Conns
          PROVE  /\ conn'[d].at = "storage" => conn[d].at = "storage"
                 /\ conn'[d].st = conn[d].st /\ conn'[d].user = conn[d].user
                 /\ conn'[d].tc = conn[d].tc
      <4>1. CASE Refuse(c) \/ CheckLimit(c) \/ Route(c)
        BY <1>0, <4>1 DEF Refuse, CheckLimit, Route, Step, Connection
      <4>2. CASE Finish(c)
        BY <1>0, <4>2 DEF Finish, Connection
      <4>3. CASE InboundCloses(c)
        BY <1>0, <4>3 DEF InboundCloses, Connection
      <4>4. CASE LoadManager(c)
        BY <1>0, <4>4 DEF LoadManager, AfterManager, Connection
      <4>5. CASE StoreManager(c)
        BY <1>0, <4>5 DEF StoreManager, AfterManager, Step, Connection
      <4>6. CASE AddLink(c)
        BY <1>0, <4>6 DEF AddLink, AfterLink, Connection
      <4> QED BY <2>1, <4>1, <4>2, <4>3, <4>4, <4>5, <4>6
    <3> QED BY <3>1, <3>2, CountStays
  <2>2. CASE LoadCounter(c)
    <3>1. PICK at \in {"create", "storage"}, t \in Conns :
              /\ conn' = [conn EXCEPT ![c].at = at, ![c].tc = t]
              /\ at = "storage" => t = counter /\ counter # None
      BY <1>0, <2>2 DEF LoadCounter, DispatcherTypeOK
    <3>2. /\ \A d \in Conns \ {c} : conn'[d] = conn[d]
          /\ conn'[c].at = at /\ conn'[c].tc = t /\ conn'[c].st = conn[c].st
      BY <1>0, <3>1 DEF Connection
    <3>3. conn[c].st = None
      BY <1>0, <2>2 DEF LoadCounter, Staged
    <3>4. counter' = counter /\ counters' = counters /\ uncounted' = uncounted
      BY <2>2 DEF LoadCounter, maps
    <3> QED BY <3>1, <3>2, <3>3, <3>4 DEF CountInv, Counted
  <2>3. CASE StoreCounter(c)
    <3>1. conn' = [conn EXCEPT ![c].at = "storage"]
      BY <2>3 DEF StoreCounter, Step
    <3>2. /\ \A d \in Conns \ {c} : conn'[d] = conn[d]
          /\ conn'[c].at = "storage" /\ conn'[c].tc = conn[c].tc
          /\ conn'[c].st = conn[c].st
      BY <1>0, <3>1 DEF Connection
    <3>3. conn[c].st = None /\ conn[c].tc = c
      BY <1>0, <2>3 DEF StoreCounter, Staged
    <3>4. /\ counter' = c /\ counters' = counters
          /\ uncounted' = uncounted \cup {d \in Conns \ {c} :
                                       counter # None /\ conn[d].tc = counter}
      BY <2>3 DEF StoreCounter
    <3>5. ASSUME NEW d \in Conns PROVE Counted(d)'
      <4>1. CASE d = c
        BY <3>2, <3>3, <3>4, <4>1 DEF Counted
      <4>2. CASE d # c
        <5>1. conn'[d] = conn[d]
          BY <3>2, <4>2
        <5>2. ASSUME d \notin uncounted'
              PROVE  conn[d].at # "storage" /\ conn[d].st = None
          BY <3>4, <4>2, <5>2 DEF CountInv, Counted
        <5> QED BY <5>1, <5>2 DEF Counted
      <4> QED BY <4>1, <4>2
    <3> QED BY <3>5 DEF CountInv
  <2>4. CASE GetCounter(c)
    <3> DEFINE t == conn[c].tc
               u == conn[c].user
               s == IF counters[t][u] = None THEN c ELSE counters[t][u]
    <3>0. /\ conn[c].at = "storage" /\ t \in Conns /\ u \in Users
          /\ counters \in [Conns -> [Users -> Conns \cup {None}]]
      BY <1>0, <2>4 DEF GetCounter, Staged, DispatcherTypeOK
    <3>1. PICK at \in {"route", "link"} :
               conn' = [conn EXCEPT ![c].at = at, ![c].st = s]
      BY <2>4, Zenon DEF GetCounter, AfterStorage
    <3>2. counters' = [counters EXCEPT ![t][u] = s]
      BY <2>4 DEF GetCounter
    <3>3. counter' = counter /\ uncounted' = uncounted
      BY <2>4 DEF GetCounter
    <3>4. /\ \A d \in Conns \ {c} : conn'[d] = conn[d]
          /\ conn'[c].at = at /\ conn'[c].tc = t /\ conn'[c].st = s
          /\ conn'[c].user = u
      BY <1>0, <3>1 DEF Connection
    <3>5. /\ counters'[t][u] = s
          /\ \A x \in Conns, v \in Users :
                <<x, v>> # <<t, u>> => counters'[x][v] = counters[x][v]
          /\ counters[t][u] # None => s = counters[t][u]
      BY <3>0, <3>2
    <3> HIDE DEF t, u, s
    <3>6. ASSUME NEW d \in Conns, d \notin uncounted' PROVE Counted(d)'
      <4>1. CASE d = c
        <5>1. counter # None /\ t = counter
          BY <3>0, <3>3, <3>6, <4>1 DEF CountInv, Counted, t
        <5> QED BY <3>3, <3>4, <3>5, <4>1, <5>1 DEF Counted
      <4>2. CASE d # c /\ conn[d].st # None
        <5>1. conn'[d] = conn[d]
          BY <3>4, <4>2
        <5>2. /\ counter # None /\ conn[d].tc = counter
              /\ counters[counter][conn[d].user] = conn[d].st
          BY <3>3, <3>6, <4>2 DEF CountInv, Counted
        <5>3. counter \in Conns /\ conn[d].user \in Users
          BY <1>0, <4>2, <5>2 DEF DispatcherTypeOK, Staged
        <5>4. counters'[counter][conn[d].user] = counters[counter][conn[d].user]
          BY <3>5, <4>2, <5>2, <5>3
        <5> QED BY <3>3, <5>1, <5>2, <5>4 DEF Counted
      <4>3. CASE d # c /\ conn[d].st = None
        BY <3>3, <3>4, <3>6, <4>3 DEF CountInv, Counted
      <4> QED BY <4>1, <4>2, <4>3
    <3> QED BY <3>6 DEF CountInv, Counted
  <2> QED BY <1>1, <2>1, <2>2, <2>3, <2>4 DEF SetUp, Serve, Reject, HandlerEnds
<1>2. ASSUME NEW c \in Conns, NEW u \in Users, NEW mode \in Modes,
             Accept(c, u, mode)
      PROVE  CountInv'
  <2> DEFINE new == [Unused EXCEPT !.at = "limit", !.user = u, !.mode = mode,
                                   !.open = TRUE]
  <2>1. new.at = "limit" /\ new.st = None
    BY DEF Unused
  <2>2. /\ conn' = [conn EXCEPT ![c] = new]
        /\ counter' = counter /\ counters' = counters /\ uncounted' = uncounted
    BY <1>2 DEF Accept, maps
  <2> HIDE DEF new
  <2> QED BY <1>0, <2>1, <2>2 DEF CountInv, Counted
<1>3. CASE DropCounter
  <2>1. /\ counter' = counter /\ conn' = conn
        /\ uncounted' = uncounted \cup {c \in Conns : conn[c].user = del.user
                                                       /\ conn[c].st # None}
    BY <1>3 DEF DropCounter
  <2>2. \A x \in Conns, v \in Users : v # del.user => counters'[x][v] = counters[x][v]
    BY <1>0, <1>3 DEF DropCounter, DispatcherTypeOK
  <2>3. ASSUME NEW d \in Conns, d \notin uncounted' PROVE Counted(d)'
    <3>1. CASE conn[d].st = None
      BY <2>1, <2>3, <3>1 DEF CountInv, Counted
    <3>2. CASE conn[d].st # None
      <4>1. /\ counter # None /\ conn[d].tc = counter
            /\ counters[counter][conn[d].user] = conn[d].st
            /\ conn[d].user # del.user
        BY <2>1, <2>3, <3>2 DEF CountInv, Counted
      <4>2. counter \in Conns /\ conn[d].user \in Users
        BY <1>0, <3>2, <4>1 DEF DispatcherTypeOK, Staged
      <4> QED BY <2>1, <2>2, <4>1, <4>2 DEF Counted
    <3> QED BY <3>1, <3>2
  <2> QED BY <2>3 DEF CountInv, Counted
<1>6. ASSUME NEW t \in Conns, NEW u \in Users, DeleteUnknown(t, u) PROVE CountInv'
  <2>1. /\ counter' = counter /\ conn' = conn
        /\ uncounted' = uncounted \cup {c \in Conns : /\ conn[c].user = u /\ conn[c].tc = t
                                                     /\ conn[c].st # None}
    BY <1>6 DEF DeleteUnknown
  <2>2. \A x \in Conns, v \in Users : <<x, v>> # <<t, u>> => counters'[x][v] = counters[x][v]
    BY <1>0, <1>6 DEF DeleteUnknown, DispatcherTypeOK
  <2>3. ASSUME NEW d \in Conns, d \notin uncounted' PROVE Counted(d)'
    <3>1. CASE conn[d].st = None
      BY <2>1, <2>3, <3>1 DEF CountInv, Counted
    <3>2. CASE conn[d].st # None
      <4>1. /\ counter # None /\ conn[d].tc = counter
            /\ counters[counter][conn[d].user] = conn[d].st
            /\ ~(conn[d].user = u /\ counter = t)
        BY <2>1, <2>3, <3>2 DEF CountInv, Counted
      <4>2. counter \in Conns /\ conn[d].user \in Users
        BY <1>0, <3>2, <4>1 DEF DispatcherTypeOK, Staged
      <4>3. counters'[counter][conn[d].user] = counters[counter][conn[d].user]
        BY <2>2, <4>1, <4>2
      <4> QED BY <2>1, <4>1, <4>3 DEF Counted
    <3> QED BY <3>1, <3>2
  <2> QED BY <2>3 DEF CountInv, Counted
<1>4. ASSUME NEW c \in Conns, CloseLink(c) PROVE CountInv'
  <2>1. /\ conn' = [conn EXCEPT ![c].open = FALSE]
        /\ counter' = counter /\ counters' = counters /\ uncounted' = uncounted
    BY <1>4 DEF CloseLink
  <2>2. \A d \in Conns : /\ conn'[d].at = conn[d].at /\ conn'[d].st = conn[d].st
                         /\ conn'[d].user = conn[d].user /\ conn'[d].tc = conn[d].tc
    BY <1>0, <2>1 DEF Connection
  <2> QED BY <2>1, <2>2, CountStays
<1>5. ASSUME \/ \E u \in Users, again \in BOOLEAN : RemoveUser(u, again)
             \/ \E u \in Users : AddUser(u)
             \/ LoadLinks \/ EndRange \/ ForgetManager \/ ReAdd \/ UpdateUser
             \/ UNCHANGED vars
      PROVE  CountInv'
  <2>1. /\ counter' = counter /\ counters' = counters /\ uncounted' = uncounted
        /\ conn' = conn
    BY <1>5 DEF RemoveUser, AddUser, LoadLinks, EndRange, ForgetManager, ReAdd,
                UpdateUser, maps, vars
  <2> QED BY <2>1, CountStays
<1> QED BY <1>1, <1>2, <1>3, <1>4, <1>5, <1>6 DEF Next, DelUsersStep

---------------------------------------------------------------------------
(* Before the first connection.                                            *)
LEMMA InitHolds == Init => DispatcherInv /\ CutInv /\ CountInv
<1> USE DispatcherAssumption
<1> SUFFICES ASSUME Init PROVE DispatcherInv /\ CutInv /\ CountInv
  OBVIOUS
<1>1. /\ Unused \in Connection /\ Unused.at = "idle" /\ Unused.user = None
      /\ ~Unused.linked /\ Unused.st = None /\ ~Unused.open /\ ~Unused.closed
      /\ NoDeletion \in Deletion /\ NoDeletion.at = "idle" /\ NoDeletion.user = None
  BY DEF Unused, Connection, Stages, Modes, NoDeletion, Deletion
<1>2. /\ conn \in [Conns -> Connection] /\ \A c \in Conns : conn[c] = Unused
  BY <1>1 DEF Init
<1>3. \A c \in Conns : Staged(c)
  BY <1>1, <1>2 DEF Staged, Registering
<1>4. DispatcherTypeOK
  <2>a. changes \in 0 .. MaxChanges
    BY DEF Init
  <2>b. /\ users \subseteq Users /\ limited \subseteq Users
        /\ fatal \in BOOLEAN /\ excused \subseteq Conns /\ uncounted \subseteq Conns
    BY DEF Init
  <2>c. /\ linkManagers \in [Users -> Conns \cup {None}]
        /\ links \in [Conns -> SUBSET Conns]
        /\ counter \in Conns \cup {None}
        /\ counters \in [Conns -> [Users -> Conns \cup {None}]]
    BY DEF Init
  <2>1. MapsType
    BY <2>a, <2>b, <2>c DEF MapsType
  <2>2. del \in Deletion
    BY <1>1 DEF Init
  <2> QED BY <1>2, <1>3, <2>1, <2>2 DEF MapsType, DispatcherTypeOK, Staged
<1>5. Deleting
  BY <1>1 DEF Init, Deleting
<1>6. CutInv
  BY <1>1, <1>2 DEF Init, CutInv, LinksAreOpen, Reached, Pursued, Attached
<1>7. CountInv
  BY <1>1, <1>2 DEF CountInv, Counted
<1> QED BY <1>3, <1>4, <1>5, <1>6, <1>7 DEF DispatcherInv

(* Every step keeps the three invariants.                                  *)
LEMMA Inductive ==
    ASSUME DispatcherInv, CutInv, CountInv, [Next]_vars
    PROVE  DispatcherInv' /\ CutInv' /\ CountInv'
<1>1. CountInv'
  BY CountStep
<1>2. CASE UNCHANGED vars
  <2>1. DispatcherInv'
    BY <1>2 DEF vars, maps, DispatcherInv, DispatcherTypeOK, Staged, Deleting,
                Registering
  <2>2. CutInv'
    BY <1>2 DEF vars, maps, CutInv, LinksAreOpen, Reached, Pursued, Attached
  <2> QED BY <1>1, <2>1, <2>2
<1>3. ASSUME NEW c \in Conns, SetUp(c) \/ Serve(c)
      PROVE  DispatcherInv' /\ CutInv'
  BY <1>3, SetUpType, SetUpCut, ServeType, ServeCut
<1>4. ASSUME NEW c \in Conns, NEW u \in Users, NEW mode \in Modes,
             Accept(c, u, mode)
      PROVE  DispatcherInv' /\ CutInv'
  BY <1>4, AcceptType, AcceptCut
<1>5. ASSUME \/ \E u \in Users, again \in BOOLEAN : RemoveUser(u, again)
             \/ \E u \in Users : AddUser(u)
             \/ \E t \in Conns, u \in Users : DeleteUnknown(t, u)
             \/ DelUsersStep
      PROVE  DispatcherInv' /\ CutInv'
  <2>1. DispatcherInv'
    BY <1>5, MonitorType DEF CutInv
  <2>2. CutInv'
    BY <1>5, MonitorCut
  <2> QED BY <2>1, <2>2
<1> QED BY <1>1, <1>2, <1>3, <1>4, <1>5 DEF Next

(* In every reachable state connections, managers, counters and the        *)
(* deletion in progress agree as getLink, DispatchLink and DelUsers leave  *)
(* them: the inductive invariant that the theorems below are read off.     *)
THEOREM DispatcherInvariant == Spec => [](DispatcherInv /\ CutInv /\ CountInv)
<1> QED BY InitHolds, Inductive, PTL DEF Spec

(* Managers, counters and connections keep their types, and a connection   *)
(* has a manager and a counter whenever getLink or DispatchLink works with *)
(* one.                                                                    *)
THEOREM DispatcherTypeCorrect == Spec => []DispatcherTypeOK
<1>1. DispatcherInv => DispatcherTypeOK
  BY DEF DispatcherInv
<1> QED BY <1>1, DispatcherInvariant, PTL

(* A manager's map holds exactly the links that ManagedWriter.Close has    *)
(* not removed, however many connections and deletions there are.          *)
THEOREM ManagersHoldOpenLinks == Spec => []LinksAreOpen
<1>1. CutInv => LinksAreOpen
  BY DEF CutInv
<1> QED BY <1>1, DispatcherInvariant, PTL

(* DelUsers leaves no connection of the user open that CloseAll could have *)
(* known of, however they interleave.                                      *)
THEOREM DelUsersCutsOff == Spec => []DeletedUserCut
<1>1. DispatcherInv /\ CutInv => DeletedUserCut
  <2> SUFFICES ASSUME DispatcherInv, CutInv, NEW c \in Conns,
                      conn[c].linked, c \notin excused, conn[c].open,
                      \/ conn[c].user \notin users /\ del.user # conn[c].user
                      \/ conn[c].user = del.user /\ del.at = "forget"
               PROVE  FALSE
    BY DEF DeletedUserCut
  <2>1. conn[c].user \notin users
    BY DEF DispatcherInv, Deleting
  <2> QED BY <2>1 DEF CutInv, Pursued
<1> QED BY <1>1, DispatcherInvariant, PTL

(* What an open connection moves is collected by GetUserTrafficSlice,      *)
(* unless DelUsers, a report while the user was deleted or a second        *)
(* TrafficCounter of the node dropped its storage.                         *)
THEOREM OpenConnectionsAreCounted == Spec => []OpenIsCounted
<1>1. DispatcherInv /\ CountInv => OpenIsCounted
  <2> SUFFICES ASSUME DispatcherInv, CountInv, NEW c \in Conns,
                      conn[c].at \in {"route", "open"}, c \notin uncounted
               PROVE  counter # None /\ counters[counter][conn[c].user] = conn[c].st
    BY DEF OpenIsCounted
  <2>1. conn[c].st \in Conns
    BY DEF DispatcherInv, Staged
  <2> QED BY <2>1, DispatcherAssumption DEF CountInv, Counted
<1> QED BY <1>1, DispatcherInvariant, PTL
===========================================================================
