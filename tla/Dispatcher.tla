---------------------------- MODULE Dispatcher ----------------------------
(***************************************************************************)
(* The xray dispatcher (core/xray/app/dispatcher): what Dispatch and       *)
(* DispatchLink set up for a connection; DelUsers, which closes the        *)
(* connections of a deleted user while others are being set up; and the    *)
(* report, which drops the storage of a user that is gone.                 *)
(*                                                                         *)
(* One node, so one tag and one TrafficCounter.  Dispatch ("pipe") makes   *)
(* two pipes and manages the one for the upload; DispatchLink ("link") is  *)
(* given a link and manages its writer, the download.  A LinkManager, a    *)
(* TrafficCounter and a TrafficStorage have the name of the connection     *)
(* that made them.  LinkManagers and Counter are sync.Maps: each call is   *)
(* atomic, a Load and the Store that follows it are not.                   *)
(***************************************************************************)
EXTENDS Naturals, FiniteSets

CONSTANTS Users, Conns, None,
          MaxChanges       \* bound: users added and deleted

ASSUME DispatcherAssumption ==
    /\ None \notin Users \cup Conns
    /\ MaxChanges \in Nat

VARIABLES
    users,         \* users of the inbound's UserManager
    limited,       \* users the limiter knows
    linkManagers,  \* LinkManagers: the manager of a user, or None
    links,         \* the connections in each manager's map
    counter,       \* Counter: the node's TrafficCounter, or None
    counters,      \* the storage of each user in each TrafficCounter
    conn,          \* the connections
    del,           \* the monitor in DelUsers, AddUsers, UpdateUser
    changes,
    fatal,         \* the Go runtime ended the process
    excused,       \* history: connections CloseAll could not know of
    uncounted      \* history: connections whose storage was dropped

maps == <<linkManagers, links, counter, counters>>
vars == <<users, limited, maps, conn, del, changes, fatal, excused,
          uncounted>>

Modes == {"pipe", "link"}

(* Where a connection is; whether it has been added to its manager; that   *)
(* the inbound of a pipe closed its writer; and that the direction which   *)
(* the managed writer carries is open.                                     *)
Stages == {"idle", "limit", "manager", "store", "link", "counter", "create",
           "storage", "route", "open", "over"}

Connection == [at : Stages, user : Users \cup {None}, mode : Modes,
               lm : Conns \cup {None}, tc : Conns \cup {None},
               st : Conns \cup {None}, linked : BOOLEAN,
               closed : BOOLEAN, open : BOOLEAN]

Unused == [at |-> "idle", user |-> None, mode |-> "pipe", lm |-> None,
           tc |-> None, st |-> None, linked |-> FALSE,
           closed |-> FALSE, open |-> FALSE]

Deletion == [at : {"idle", "counter", "load", "range", "forget", "add",
                   "update"},
             user : Users \cup {None}, lm : Conns \cup {None},
             todo : SUBSET Conns, again : BOOLEAN]

NoDeletion == [at |-> "idle", user |-> None, lm |-> None, todo |-> {},
               again |-> FALSE]

(* Stages in which a connection is not yet in its manager.                 *)
Registering(c) == conn[c].at # "idle" /\ conn[c].at # "over" /\ ~conn[c].linked

Init ==
    /\ users \in SUBSET Users /\ limited = users
    /\ linkManagers = [u \in Users |-> None]
    /\ links = [m \in Conns |-> {}]
    /\ counter = None
    /\ counters = [t \in Conns |-> [u \in Users |-> None]]
    /\ conn = [c \in Conns |-> Unused]
    /\ del = NoDeletion /\ changes = 0 /\ fatal = FALSE
    /\ excused = {} /\ uncounted = {}

Step(c, at) == conn' = [conn EXCEPT ![c].at = at]

(* Writing to a map that another goroutine ranges over: the runtime may    *)
(* notice and end the process.                                             *)
MayBeFatal(m) == fatal' \in {FALSE, del.at = "range" /\ del.lm = m}

---------------------------------------------------------------------------
(* A new connection: getLink, or the first half of DispatchLink.           *)

(* The inbound authenticates a user and calls the dispatcher.              *)
Accept(c, u, mode) ==
    /\ conn[c].at = "idle" /\ u \in users
    /\ conn' = [conn EXCEPT ![c] = [Unused EXCEPT !.at = "limit", !.user = u,
                                        !.mode = mode, !.open = TRUE]]
    /\ UNCHANGED <<users, limited, maps, del, changes, fatal, excused,
                   uncounted>>

(* No limiter, a user it does not know, or a limit that is reached (see    *)
(* Limiter): both directions are closed.                                   *)
Refuse(c) ==
    /\ conn[c].at = "limit"
    /\ conn' = [conn EXCEPT ![c].at = "over", ![c].open = FALSE]
    /\ UNCHANGED <<users, limited, maps, del, changes, fatal, excused,
                   uncounted>>

CheckLimit(c) ==
    /\ conn[c].at = "limit" /\ conn[c].user \in limited
    /\ Step(c, "manager")
    /\ UNCHANGED <<users, limited, maps, del, changes, fatal, excused,
                   uncounted>>

(* Dispatch registers the link before it takes the counter, DispatchLink   *)
(* after it.                                                               *)
AfterManager(c) == IF conn[c].mode = "pipe" THEN "link" ELSE "counter"
AfterLink(c) == IF conn[c].mode = "pipe" THEN "counter" ELSE "route"
AfterStorage(c) == IF conn[c].mode = "pipe" THEN "route" ELSE "link"

(* d.LinkManagers.Load(user.Email)                                         *)
LoadManager(c) ==
    LET m == linkManagers[conn[c].user] IN
    /\ conn[c].at = "manager"
    /\ conn' = IF m = None
               THEN [conn EXCEPT ![c].at = "store", ![c].lm = c]
               ELSE [conn EXCEPT ![c].at = AfterManager(c), ![c].lm = m]
    /\ UNCHANGED <<users, limited, maps, del, changes, fatal, excused,
                   uncounted>>

(* d.LinkManagers.Store: a manager stored meanwhile is out of reach.       *)
StoreManager(c) ==
    LET u == conn[c].user IN
    /\ conn[c].at = "store"
    /\ linkManagers' = [linkManagers EXCEPT ![u] = c]
    /\ excused' = excused \cup
           {d \in Conns \ {c} : /\ linkManagers[u] # None
                               /\ conn[d].lm = linkManagers[u]}
    /\ Step(c, AfterManager(c))
    /\ UNCHANGED <<users, limited, links, counter, counters, del, changes,
                   fatal, uncounted>>

(* lm.AddLink.  A range in progress may or may not come across the link.   *)
AddLink(c) ==
    LET m == conn[c].lm IN
    /\ conn[c].at = "link"
    /\ links' = [links EXCEPT ![m] = @ \cup {c}]
    /\ conn' = [conn EXCEPT ![c].at = AfterLink(c), ![c].linked = TRUE]
    /\ MayBeFatal(m)
    /\ del' \in {del, IF del.at = "range" /\ del.lm = m
                      THEN [del EXCEPT !.todo = @ \cup {c}] ELSE del}
    /\ UNCHANGED <<users, limited, linkManagers, counter, counters, changes,
                   excused, uncounted>>

(* d.Counter.Load(sessionInbound.Tag)                                      *)
LoadCounter(c) ==
    /\ conn[c].at = "counter"
    /\ conn' = IF counter = None
               THEN [conn EXCEPT ![c].at = "create", ![c].tc = c]
               ELSE [conn EXCEPT ![c].at = "storage", ![c].tc = counter]
    /\ UNCHANGED <<users, limited, maps, del, changes, fatal, excused,
                   uncounted>>

(* d.Counter.Store: a counter stored meanwhile is collected no more.       *)
StoreCounter(c) ==
    /\ conn[c].at = "create"
    /\ counter' = c
    /\ uncounted' = uncounted \cup {d \in Conns \ {c} :
                                       counter # None /\ conn[d].tc = counter}
    /\ Step(c, "storage")
    /\ UNCHANGED <<users, limited, linkManagers, links, counters, del,
                   changes, fatal, excused>>

(* Mutant: a storage for every connection.                                 *)
GetCounterAnew(c) ==
    /\ conn[c].at = "storage"
    /\ counters' = [counters EXCEPT ![conn[c].tc][conn[c].user] = c]
    /\ conn' = [conn EXCEPT ![c].at = AfterStorage(c), ![c].st = c]
    /\ UNCHANGED <<users, limited, linkManagers, links, counter, del,
                   changes, fatal, excused, uncounted>>

(* TrafficCounter.GetCounter: LoadOrStore.                                 *)
GetCounter(c) ==
    LET t == conn[c].tc  u == conn[c].user
        s == IF counters[t][u] = None THEN c ELSE counters[t][u]
    IN  /\ conn[c].at = "storage"
        /\ counters' = [counters EXCEPT ![t][u] = s]
        /\ conn' = [conn EXCEPT ![c].at = AfterStorage(c), ![c].st = s]
        /\ UNCHANGED <<users, limited, linkManagers, links, counter, del,
                       changes, fatal, excused, uncounted>>

SetUp(c) ==
    \/ Refuse(c) \/ CheckLimit(c) \/ LoadManager(c) \/ StoreManager(c)
    \/ AddLink(c) \/ LoadCounter(c) \/ StoreCounter(c) \/ GetCounter(c)

---------------------------------------------------------------------------
(* The life of a connection.  From the sniffing on, a pipe has two ends    *)
(* that run on their own: the inbound, and routedDispatch with its handler.*)

(* The sniffer comes to an end, with a result or without (see Sniffer), a  *)
(* handler is found, and it dispatches the link.                           *)
Route(c) ==
    /\ conn[c].at = "route"
    /\ Step(c, "open")
    /\ UNCHANGED <<users, limited, maps, del, changes, fatal, excused,
                   uncounted>>

(* ManagedWriter.Close, which may have been called before.                 *)
RemoveWriter(c) ==
    /\ links' = [links EXCEPT ![conn[c].lm] = @ \ {c}]
    /\ MayBeFatal(conn[c].lm)

(* Mutant: the writer below the managed one is closed.                     *)
FinishRaw(c) ==
    /\ conn' = [conn EXCEPT ![c].at = "over", ![c].open = FALSE]
    /\ UNCHANGED <<users, limited, maps, del, changes, fatal, excused,
                   uncounted>>

(* common.Close(link.Writer), common.Interrupt(link.Reader).  On a pipe    *)
(* both directions end and the link stays until the inbound closes its     *)
(* writer.  The reader of DispatchLink is a CounterReader or a             *)
(* cachedReader around one, which have nothing to interrupt: only the      *)
(* managed writer is closed.                                               *)
Finish(c) ==
    /\ conn' = [conn EXCEPT ![c].at = "over", ![c].open = FALSE]
    /\ IF conn[c].mode = "link" THEN RemoveWriter(c)
       ELSE UNCHANGED <<links, fatal>>
    /\ UNCHANGED <<users, limited, linkManagers, counter, counters, del,
                   changes, excused, uncounted>>

(* A rule forbids the domain or the protocol, or there is no outbound.     *)
Reject(c) == conn[c].at = "route" /\ Finish(c)

(* The handler is done.                                                    *)
HandlerEnds(c) == conn[c].at = "open" /\ Finish(c)

(* The inbound of a pipe closes its writer: the client has sent all it     *)
(* wants to, the upload fails, or the download has ended.                  *)
InboundCloses(c) ==
    /\ conn[c].mode = "pipe" /\ conn[c].linked /\ ~conn[c].closed
    /\ conn[c].at \in {"route", "open", "over"}
    /\ RemoveWriter(c)
    /\ conn' = [conn EXCEPT ![c].open = FALSE, ![c].closed = TRUE]
    /\ UNCHANGED <<users, limited, linkManagers, counter, counters, del,
                   changes, excused, uncounted>>

Serve(c) == Route(c) \/ Reject(c) \/ HandlerEnds(c) \/ InboundCloses(c)

---------------------------------------------------------------------------
(* The monitor: Xray.DelUsers for one user, AddUsers when it comes back    *)
(* with another speed limit, and the limiter's UpdateUser.                 *)

RemoveUser(u, again) ==
    /\ del.at = "idle" /\ u \in users /\ changes < MaxChanges
    /\ changes' = changes + 1
    /\ users' = users \ {u}
    /\ del' = [NoDeletion EXCEPT !.at = "counter", !.user = u, !.again = again]
    /\ UNCHANGED <<limited, maps, conn, fatal, excused, uncounted>>

(* tc.Delete(user) for the counter that Counter.Load returns.              *)
DropCounter ==
    /\ del.at = "counter"
    /\ del' = [del EXCEPT !.at = "load"]
    /\ counters' = IF counter = None THEN counters
                   ELSE [counters EXCEPT ![counter][del.user] = None]
    /\ uncounted' = uncounted \cup {c \in Conns : conn[c].user = del.user
                                                   /\ conn[c].st # None}
    /\ UNCHANGED <<users, limited, linkManagers, links, counter, conn,
                   changes, fatal, excused>>

(* LinkManagers.Load(user) and the start of CloseAll.                      *)
LoadLinks ==
    LET m == linkManagers[del.user] IN
    /\ del.at = "load"
    /\ del' = IF m = None THEN [del EXCEPT !.at = "add"]
              ELSE [del EXCEPT !.at = "range", !.lm = m, !.todo = links[m]]
    /\ excused' = excused \cup {c \in Conns : conn[c].user = del.user
                                               /\ Registering(c)}
    /\ UNCHANGED <<users, limited, maps, conn, changes, fatal, uncounted>>

(* Mutant: the reader is interrupted and the writer not closed.            *)
CloseLinkReader(c) ==
    /\ del.at = "range" /\ c \in del.todo \cap links[del.lm]
    /\ del' = [del EXCEPT !.todo = @ \ {c}]
    /\ links' = [links EXCEPT ![del.lm] = @ \ {c}]
    /\ conn' = [conn EXCEPT ![c].open = @ /\ conn[c].mode = "link"]
    /\ UNCHANGED <<users, limited, linkManagers, counter, counters, changes,
                   fatal, excused, uncounted>>

(* Mutant: the range holds the lock that RemoveWriter waits for.           *)
CloseLinkLocked(c) ==
    /\ del.at = "range" /\ c \in del.todo \cap links[del.lm]
    /\ FALSE /\ UNCHANGED vars

(* One round of CloseAll: close the writer, which removes itself, and      *)
(* interrupt the reader, the same pipe or one that cannot be interrupted.  *)
CloseLink(c) ==
    /\ del.at = "range" /\ c \in del.todo \cap links[del.lm]
    /\ del' = [del EXCEPT !.todo = @ \ {c}]
    /\ links' = [links EXCEPT ![del.lm] = @ \ {c}]
    /\ conn' = [conn EXCEPT ![c].open = FALSE]
    /\ UNCHANGED <<users, limited, linkManagers, counter, counters, changes,
                   fatal, excused, uncounted>>

EndRange ==
    /\ del.at = "range" /\ del.todo \cap links[del.lm] = {}
    /\ del' = [del EXCEPT !.at = "forget", !.todo = {}]
    /\ UNCHANGED <<users, limited, maps, conn, changes, fatal, excused,
                   uncounted>>

(* c.dispatcher.LinkManagers.Delete(user)                                  *)
ForgetManager ==
    /\ del.at = "forget"
    /\ del' = [del EXCEPT !.at = "add", !.lm = None]
    /\ linkManagers' = [linkManagers EXCEPT ![del.user] = None]
    /\ UNCHANGED <<users, limited, links, counter, counters, conn, changes,
                   fatal, excused, uncounted>>

(* AddUsers, for a user that is to be there.                               *)
ReAdd ==
    /\ del.at = "add"
    /\ del' = [del EXCEPT !.at = "update"]
    /\ users' = IF del.again THEN users \cup {del.user} ELSE users
    /\ UNCHANGED <<limited, maps, conn, changes, fatal, excused, uncounted>>

UpdateUser ==
    /\ del.at = "update"
    /\ del' = NoDeletion
    /\ limited' = IF del.again THEN limited \cup {del.user}
                  ELSE limited \ {del.user}
    /\ UNCHANGED <<users, maps, conn, changes, fatal, excused, uncounted>>

(* A new user.                                                             *)
AddUser(u) ==
    /\ del.at = "idle" /\ u \notin users /\ changes < MaxChanges
    /\ changes' = changes + 1
    /\ del' = [NoDeletion EXCEPT !.at = "add", !.user = u, !.again = TRUE]
    /\ UNCHANGED <<users, limited, maps, conn, fatal, excused, uncounted>>

DelUsersStep ==
    \/ DropCounter \/ LoadLinks \/ EndRange \/ ForgetManager \/ ReAdd \/ UpdateUser
    \/ \E c \in Conns : CloseLink(c)

---------------------------------------------------------------------------
(* GetUserTrafficSlice deletes the storage of a user without uid.  It is a *)
(* reader of the lock that DelUsers holds, and may still range over a      *)
(* TrafficCounter that another has replaced.  (The collection itself: see  *)
(* Traffic.)                                                               *)
Locked == del.at \in {"counter", "load", "range", "forget"}

DeleteUnknown(t, u) ==
    /\ ~Locked /\ u \notin users /\ counters[t][u] # None
    /\ counters' = [counters EXCEPT ![t][u] = None]
    /\ uncounted' = uncounted \cup {c \in Conns : /\ conn[c].user = u /\ conn[c].tc = t
                                                 /\ conn[c].st # None}
    /\ UNCHANGED <<users, limited, linkManagers, links, counter, conn, del,
                   changes, fatal, excused>>

Next ==
    /\ ~fatal
    /\ \/ \E c \in Conns : SetUp(c) \/ Serve(c)
       \/ \E c \in Conns, u \in Users, mode \in Modes : Accept(c, u, mode)
       \/ \E u \in Users, again \in BOOLEAN : RemoveUser(u, again)
       \/ \E u \in Users : AddUser(u)
       \/ \E t \in Conns, u \in Users : DeleteUnknown(t, u)
       \/ DelUsersStep

(* The monitor's goroutine runs on.                                        *)
Spec == Init /\ [][Next]_vars /\ WF_vars(~fatal /\ DelUsersStep)

---------------------------------------------------------------------------
(* Managers, counters and connections keep their types; a connection has a *)
(* manager and a storage whenever it works with one.                       *)
DispatcherTypeOK ==
    /\ users \subseteq Users /\ limited \subseteq Users
    /\ linkManagers \in [Users -> Conns \cup {None}]
    /\ links \in [Conns -> SUBSET Conns]
    /\ counter \in Conns \cup {None}
    /\ counters \in [Conns -> [Users -> Conns \cup {None}]]
    /\ conn \in [Conns -> Connection] /\ del \in Deletion
    /\ changes \in 0 .. MaxChanges /\ fatal \in BOOLEAN
    /\ excused \subseteq Conns /\ uncounted \subseteq Conns
    /\ \A c \in Conns :
          /\ conn[c].at # "idle" => conn[c].user \in Users
          /\ conn[c].at \in {"store", "link"} \/ conn[c].linked => conn[c].lm \in Conns
          /\ conn[c].at \in {"create", "storage"} => conn[c].tc \in Conns

(* A manager's map holds exactly the connections whose managed direction   *)
(* is open: nothing is left behind by ManagedWriter.Close, however the     *)
(* connection ended, and nothing open is out of the manager.  (A pipe that *)
(* was rejected or whose handler is done stays until its inbound closes.)  *)
LinksAreOpen ==
    \A c \in Conns :
        /\ \A m \in Conns : c \in links[m] => conn[c].linked /\ m = conn[c].lm
        /\ conn[c].linked /\ conn[c].open => c \in links[conn[c].lm]
        /\ conn[c].linked /\ ~conn[c].open /\ c \in links[conn[c].lm]
              => conn[c].mode = "pipe" /\ conn[c].at = "over" /\ ~conn[c].closed

(* When DelUsers has closed what CloseAll found, no connection of the user *)
(* has its managed direction open, other than those that were being set up *)
(* at that moment, and those whose manager lost to another first           *)
(* connection's Store.                                                     *)
DeletedUserCut ==
    \A c \in Conns :
        /\ conn[c].linked /\ c \notin excused
        /\ \/ conn[c].user \notin users /\ del.user # conn[c].user
           \/ conn[c].user = del.user /\ del.at = "forget"
        => ~conn[c].open

(* What an open connection moves goes into the storage that                *)
(* GetUserTrafficSlice collects, unless its user was deleted, a report ran *)
(* before the deleted user came back, or two first connections of the node *)
(* each stored a TrafficCounter.                                           *)
OpenIsCounted ==
    \A c \in Conns :
        /\ conn[c].at \in {"route", "open"} /\ c \notin uncounted
        => counter # None /\ counters[counter][conn[c].user] = conn[c].st

(* DelUsers, which holds the lock that the traffic report needs, returns:  *)
(* the writers CloseAll closes call back into the manager it ranges over.  *)
DelUsersReturns == del.at # "idle" ~> del.at = "idle" \/ fatal

===========================================================================
