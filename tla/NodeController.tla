-------------------------- MODULE NodeController --------------------------
(* node/controller.go, node/task.go, node/cert.go (reload): one node's     *)
(* controller.  Its monitor task polls the panel and brings the proxy core *)
(* and the limiter in line with what the panel says; a second task renews  *)
(* the certificate and reloads the node when it changed; Close may come    *)
(* from the configuration watcher at any time and waits for neither.       *)
(* Every call that leaves the controller (panel, ACME, core) is a step of  *)
(* its own, so tasks interleave between calls.                             *)
(*                                                                         *)
(* A user list is a function from Users to plans (NoPlan: not listed).     *)
(* Abstracted: the alive counts and the per-user traffic map, and the      *)
(* report task, which shares only those and the limiter's online table.    *)
EXTENDS Naturals, FiniteSets

CONSTANTS Users, Plans, NoPlan, NoList,
          Configs,              \* node configurations the panel may serve
          NoConfig,             \* no node, or no new configuration (nil)
          Garbage,              \* hash of a reply that is not a configuration
          Tls, BadRules,        \* configurations with TLS / a bad rule regexp
          PullInterval,         \* PullInterval of each configuration
          Named,                \* Options.Name is set
          ManagedCert,          \* the certificate mode has a renewal task
          NodeFetchFails, UserFetchFails, Garbles,   \* panel faults
          CertFails, CoreFails,                      \* ACME and core faults
          Closes,               \* the watcher may close the controller
          MaxPanelChanges,      \* bound on changes of what the panel serves
          Loops, NoLoop

ASSUME ControllerAssumption ==
    /\ NoPlan \notin Plans \cup Nat /\ \A p \in Plans : p.speed \in Nat
    /\ NoList \notin [Users -> Plans \cup {NoPlan}]
    /\ NoConfig \notin Configs /\ Garbage \notin Configs /\ Garbage # NoConfig
    /\ Tls \subseteq Configs /\ BadRules \subseteq Configs
    /\ PullInterval \in [Configs -> Nat]
    /\ {Named, ManagedCert, NodeFetchFails, UserFetchFails, Garbles, CertFails,
        CoreFails, Closes} \subseteq BOOLEAN
    /\ MaxPanelChanges \in Nat
    /\ NoLoop \notin Loops

VARIABLES
    pNode, pUsers,        \* what the panel serves
    changes,              \* how often that changed
    nodeSeen, userSeen,   \* body hash / ETag the API client holds
    lc,                   \* life cycle of the controller
    info, userList,       \* c.info, c.userList
    interval,             \* nodeInfoMonitorPeriodic.Interval
    dropped,              \* history: the client's newest configuration was lost
    registered,           \* the limiter registry has an entry for the tag
    lim,                  \* c.limiter.UserLimitInfo
    node, coreUsers,      \* the core: the node it serves, and its users
    at, newN, newU, del, add,   \* per loop: where nodeInfoMonitor is, its locals
    renew,                \* where renewCertTask is
    running, stop, closed, pc, waitOn, panicked   \* the monitor task

panelVars  == <<pNode, pUsers, changes>>
clientVars == <<nodeSeen, userSeen, dropped>>
ctlVars    == <<lc, info, userList, interval>>
limVars    == <<registered, lim>>
coreVars   == <<node, coreUsers>>
locals     == <<newN, newU, del, add>>
taskVars   == <<running, stop, closed, pc, waitOn, panicked>>
vars == <<panelVars, clientVars, ctlVars, limVars, coreVars, at, locals,
          renew, taskVars>>

Monitor == INSTANCE Task WITH ExecuteFails <- FALSE

UserLists == [Users -> Plans \cup {NoPlan}]
Empty     == [u \in Users |-> NoPlan]
Listed(l) == {u \in Users : l[u] # NoPlan}

Labels == {"idle", "fetchNode", "fetchUsers", "alive", "delNode", "cert",
           "addNode", "addUsers", "interval", "restart", "return",
           "delUsers", "addDelta", "commit"}

Init == /\ pNode \in Configs /\ pUsers \in UserLists /\ changes = 0
        /\ nodeSeen = NoConfig /\ userSeen = NoList /\ dropped = FALSE
        /\ lc = "new" /\ info = NoConfig /\ userList = Empty /\ interval = 0
        /\ registered = FALSE /\ lim = Empty
        /\ node = NoConfig /\ coreUsers = {}
        /\ at = [g \in Loops |-> "idle"]
        /\ newN = [g \in Loops |-> NoConfig]
        /\ newU = [g \in Loops |-> NoList]
        /\ del = [g \in Loops |-> {}] /\ add = [g \in Loops |-> {}]
        /\ renew = "off"
        /\ Monitor!TaskInit

----------------------------------------------------------------------------
(* The panel: an operator changes the node or its users.                   *)
PanelSetNode(c) ==
    /\ ~panicked /\ changes < MaxPanelChanges /\ c # pNode
    /\ pNode' = c /\ changes' = changes + 1
    /\ UNCHANGED <<pUsers, clientVars, ctlVars, limVars, coreVars, at, locals,
                   renew, taskVars>>

PanelSetUsers(l) ==
    /\ ~panicked /\ changes < MaxPanelChanges /\ l # pUsers
    /\ pUsers' = l /\ changes' = changes + 1
    /\ UNCHANGED <<pNode, clientVars, ctlVars, limVars, coreVars, at, locals,
                   renew, taskVars>>

(* compareUserList: a user's key is its uuid and speed limit, so a changed *)
(* device limit is no difference.                                          *)
SameKey(l, m, u) == l[u] # NoPlan /\ m[u] # NoPlan /\ l[u].speed = m[u].speed
(* Mutants: re-rated users are forgotten; every user is deleted.           *)
DeletedIgnoringSpeed(old, new) == {u \in Listed(old) : new[u] = NoPlan}
DeletedAll(old, new) == Listed(old)

Deleted(old, new) == {u \in Listed(old) : ~SameKey(old, new, u)}
Added(old, new)   == {u \in Listed(new) : ~SameKey(old, new, u)}

(* Mutant: the deleted users are forgotten after the added are stored.     *)
UpdateUserSwapped(l, new, added, deleted) ==
    [u \in Users |-> IF u \in deleted THEN NoPlan
                     ELSE IF u \in added THEN new[u] ELSE l[u]]

(* limiter.UpdateUser: forget the deleted users, then store the added ones.*)
UpdateUser(l, new, added, deleted) ==
    [u \in Users |-> IF u \in added THEN new[u]
                     ELSE IF u \in deleted THEN NoPlan ELSE l[u]]

(* The core.  DelNode needs the node to be there and drops its users;      *)
(* AddUsers goes through the list and stops at the first user it cannot    *)
(* add (one that is there already, or a bad one); DelUsers stops at the    *)
(* first user that is not there.                                           *)
DelNode == node # NoConfig /\ node' = NoConfig /\ coreUsers' = {}
AddNode(c) == node = NoConfig /\ node' = c /\ UNCHANGED coreUsers
AddUsersOk(us) == /\ node # NoConfig /\ us \cap coreUsers = {}
                  /\ coreUsers' = coreUsers \cup us /\ UNCHANGED node
AddUsersFails(us) ==
    /\ UNCHANGED node
    /\ \/ node = NoConfig /\ UNCHANGED coreUsers
       \/ /\ node # NoConfig /\ us # {}
          /\ us \cap coreUsers # {} \/ CoreFails
          /\ \E s \in SUBSET (us \ coreUsers) :
                s # us /\ coreUsers' = coreUsers \cup s
DelUsersOk(us) == /\ node # NoConfig /\ us \subseteq coreUsers
                  /\ coreUsers' = coreUsers \ us /\ UNCHANGED node
DelUsersFails(us) ==
    /\ UNCHANGED node
    /\ \/ node = NoConfig /\ UNCHANGED coreUsers
       \/ /\ node # NoConfig /\ ~(us \subseteq coreUsers)
          /\ \E s \in SUBSET (us \cap coreUsers) : coreUsers' = coreUsers \ s

----------------------------------------------------------------------------
(* Controller.Start runs before any task exists, so it is one step.  When  *)
(* it fails it returns where it is, and what it did so far stays.          *)
StartOk(g) ==
    /\ ~panicked /\ lc = "new"
    /\ Listed(pUsers) # {} /\ pNode \notin BadRules
    /\ nodeSeen' = pNode /\ userSeen' = pUsers
    /\ lc' = "up" /\ info' = pNode /\ userList' = pUsers
    /\ interval' = PullInterval[pNode]
    /\ registered' = TRUE /\ lim' = pUsers
    /\ node' = pNode /\ coreUsers' = Listed(pUsers)
    /\ renew' = IF pNode \in Tls /\ ManagedCert THEN "check" ELSE "off"
    /\ Monitor!Start(g, FALSE)
    /\ UNCHANGED <<panelVars, dropped, at, locals>>

Stages == <<"node", "users", "empty", "rules", "cert", "addNode", "addUsers">>
StageFails(i) ==
    /\ Stages[i] = "node"  => NodeFetchFails
    /\ Stages[i] = "users" => UserFetchFails
    /\ i >= 3 => (Listed(pUsers) = {} <=> Stages[i] = "empty")
    /\ i >= 4 => (pNode \in BadRules <=> Stages[i] = "rules")
    /\ Stages[i] = "cert" => CertFails /\ pNode \in Tls
    /\ i >= 6 => CoreFails

StartFails(i) ==
    /\ ~panicked /\ lc = "new" /\ StageFails(i)
    /\ nodeSeen' = IF i > 1 THEN pNode ELSE nodeSeen
    /\ userSeen' = IF i > 2 THEN pUsers ELSE userSeen
    /\ userList' = IF i > 2 THEN pUsers ELSE userList
    /\ info' = IF i > 3 THEN pNode ELSE info
    /\ registered' = (i > 3)
    /\ lim' = IF i > 4 THEN pUsers ELSE lim
    /\ node' = IF i > 6 THEN pNode ELSE node
    /\ IF i > 6 THEN \E s \in SUBSET Listed(pUsers) :
                        s # Listed(pUsers) /\ coreUsers' = s
                ELSE UNCHANGED coreUsers
    /\ lc' = "failed"
    /\ panicked' = (Stages[i] = "rules")
    /\ UNCHANGED <<panelVars, dropped, interval, at, locals, renew, running,
                   stop, closed, pc, waitOn>>

(* Mutant: Close forgets the monitor task.                                 *)
CloseTasksLeavesMonitor ==
    /\ ~panicked /\ Closes /\ lc \in {"up", "failed"}
    /\ lc' = "closing" /\ registered' = FALSE
    /\ UNCHANGED <<panelVars, clientVars, info, userList, interval, lim,
                   coreVars, at, locals, renew, taskVars>>

(* Controller.Close: the limiter and the tasks go at once, without waiting *)
(* for an Execute in progress; then DelNode, whose error Node.Close turns  *)
(* into a panic.                                                           *)
CloseTasks ==
    /\ ~panicked /\ Closes /\ lc \in {"up", "failed"}
    /\ lc' = "closing" /\ registered' = FALSE
    /\ IF running THEN Monitor!Close ELSE UNCHANGED taskVars
    /\ UNCHANGED <<panelVars, clientVars, info, userList, interval, lim,
                   coreVars, at, locals, renew>>

CloseNode ==
    /\ ~panicked /\ lc = "closing" /\ lc' = "closed"
    /\ \/ DelNode /\ UNCHANGED panicked
       \/ node = NoConfig /\ panicked' = TRUE /\ UNCHANGED coreVars
    /\ UNCHANGED <<panelVars, clientVars, info, userList, interval, limVars,
                   at, locals, renew, running, stop, closed, pc, waitOn>>

----------------------------------------------------------------------------
(* nodeInfoMonitor, run by loop g of the monitor task.                     *)
Goto(g, l) == at' = [at EXCEPT ![g] = l] /\ UNCHANGED taskVars

(* return nil *)
Exit(g) == /\ at' = [at EXCEPT ![g] = "idle"]
           /\ newN' = [newN EXCEPT ![g] = NoConfig]
           /\ newU' = [newU EXCEPT ![g] = NoList]
           /\ del' = [del EXCEPT ![g] = {}]
           /\ add' = [add EXCEPT ![g] = {}]
           /\ Monitor!ExecuteOk(g)

(* log.Panic in a goroutine ends the process.                              *)
Crash == /\ panicked' = TRUE
         /\ UNCHANGED <<at, locals, running, stop, closed, pc, waitOn>>

At(g, l) == ~panicked /\ at[g] = l

Wake(g) == /\ Monitor!Tick(g)
           /\ at' = [at EXCEPT ![g] = "fetchNode"]
           /\ UNCHANGED <<panelVars, clientVars, ctlVars, limVars, coreVars,
                          locals, renew>>

Sleep(g) == /\ Monitor!Select(g) \/ Monitor!Stopped(g)
            /\ UNCHANGED <<panelVars, clientVars, ctlVars, limVars, coreVars,
                           at, locals, renew>>

(* GetNodeInfo answers nil when the body is the one it saw last.           *)
FetchNodeOk(g) ==
    /\ At(g, "fetchNode")
    /\ newN' = [newN EXCEPT ![g] = IF nodeSeen = pNode THEN NoConfig ELSE pNode]
    /\ nodeSeen' = pNode
    /\ dropped' = (dropped /\ nodeSeen = pNode)
    /\ Goto(g, "fetchUsers")
    /\ UNCHANGED <<panelVars, userSeen, ctlVars, limVars, coreVars, newU, del,
                   add, renew>>

(* Mutant: the hash is stored before the status is checked.                *)
FetchNodeFailsSeen(g) ==
    /\ At(g, "fetchNode") /\ NodeFetchFails
    /\ nodeSeen' = pNode
    /\ Exit(g)
    /\ UNCHANGED <<panelVars, userSeen, dropped, ctlVars, limVars, coreVars, renew>>

FetchNodeFails(g) ==
    /\ At(g, "fetchNode") /\ NodeFetchFails
    /\ Exit(g)
    /\ UNCHANGED <<panelVars, clientVars, ctlVars, limVars, coreVars, renew>>

(* A reply that does not decode is an error, but its hash, and the ETag    *)
(* that came with it, are kept.                                            *)
FetchNodeGarbled(g) ==
    /\ At(g, "fetchNode") /\ Garbles /\ changes < MaxPanelChanges
    /\ changes' = changes + 1
    /\ \/ nodeSeen' = Garbage /\ UNCHANGED dropped
       \/ /\ nodeSeen # pNode /\ nodeSeen' = pNode
          /\ dropped' = TRUE
    /\ Exit(g)
    /\ UNCHANGED <<pNode, pUsers, userSeen, ctlVars, limVars, coreVars, renew>>

(* GetUserList answers nil when the list has the ETag it saw last.         *)
FetchUsersOk(g) ==
    /\ At(g, "fetchUsers")
    /\ newU' = [newU EXCEPT ![g] = IF userSeen = pUsers THEN NoList ELSE pUsers]
    /\ userSeen' = pUsers
    /\ Goto(g, "alive")
    /\ UNCHANGED <<panelVars, nodeSeen, dropped, ctlVars, limVars, coreVars,
                   newN, del, add, renew>>

(* Mutant: the ETag is stored before the list is decoded.                  *)
FetchUsersFailsSeen(g) ==
    /\ At(g, "fetchUsers") /\ UserFetchFails
    /\ dropped' = (dropped \/ newN[g] # NoConfig)
    /\ userSeen' = pUsers
    /\ Exit(g)
    /\ UNCHANGED <<panelVars, nodeSeen, ctlVars, limVars, coreVars, renew>>

(* The new configuration, already marked as seen, is forgotten.            *)
FetchUsersFails(g) ==
    /\ At(g, "fetchUsers") /\ UserFetchFails
    /\ dropped' = (dropped \/ newN[g] # NoConfig)
    /\ Exit(g)
    /\ UNCHANGED <<panelVars, nodeSeen, userSeen, ctlVars, limVars, coreVars,
                   renew>>

(* Mutant: c.info keeps the configuration of the first fetch.              *)
AdoptNodeKeepsInfo(g) ==
    /\ At(g, "alive") /\ newN[g] # NoConfig
    /\ userList' = IF newU[g] # NoList THEN newU[g] ELSE userList
    /\ Goto(g, "delNode")
    /\ UNCHANGED <<panelVars, clientVars, lc, info, interval, limVars, coreVars,
                   locals, renew>>

(* GetUserAlive, which never fails, then the node-changed branch.          *)
AdoptNode(g) ==
    /\ At(g, "alive") /\ newN[g] # NoConfig
    /\ info' = newN[g]
    /\ userList' = IF newU[g] # NoList THEN newU[g] ELSE userList
    /\ Goto(g, "delNode")
    /\ UNCHANGED <<panelVars, clientVars, lc, interval, limVars, coreVars,
                   locals, renew>>

(* Mutant: an absent node is logged and the reload goes on.                *)
RemoveNodeAnyway(g) ==
    /\ At(g, "delNode")
    /\ DelNode \/ (node = NoConfig /\ UNCHANGED coreVars)
    /\ IF Named THEN UNCHANGED limVars ELSE registered' = TRUE /\ lim' = userList
    /\ Goto(g, IF newN[g] \in Tls THEN "cert" ELSE "addNode")
    /\ UNCHANGED <<panelVars, clientVars, ctlVars, locals, renew>>

(* DelNode, the limiter rebuilt from the user list, the rules compiled.    *)
RemoveNode(g) ==
    /\ At(g, "delNode")
    /\ \/ /\ node = NoConfig /\ Crash /\ UNCHANGED <<limVars, coreVars>>
       \/ /\ DelNode
          /\ IF Named THEN UNCHANGED limVars
                      ELSE registered' = TRUE /\ lim' = userList
          /\ IF newN[g] \in BadRules THEN Crash
             ELSE /\ Goto(g, IF newN[g] \in Tls THEN "cert" ELSE "addNode")
                  /\ UNCHANGED locals
    /\ UNCHANGED <<panelVars, clientVars, ctlVars, renew>>

Cert(g) ==
    /\ At(g, "cert")
    /\ \/ Goto(g, "addNode") /\ UNCHANGED locals
       \/ CertFails /\ Exit(g)
    /\ UNCHANGED <<panelVars, clientVars, ctlVars, limVars, coreVars, renew>>

(* Mutant: a reload gives up when the poll brought no new user list.       *)
ReplaceNodeWithUsers(g) ==
    /\ At(g, "addNode")
    /\ \/ /\ newU[g] # NoList
          /\ AddNode(newN[g]) /\ Goto(g, "addUsers") /\ UNCHANGED locals
       \/ newU[g] = NoList /\ Exit(g) /\ UNCHANGED coreVars
    /\ UNCHANGED <<panelVars, clientVars, ctlVars, limVars, renew>>

ReplaceNode(g) ==
    /\ At(g, "addNode")
    /\ \/ AddNode(newN[g]) /\ Goto(g, "addUsers") /\ UNCHANGED locals
       \/ (node # NoConfig \/ CoreFails) /\ Crash /\ UNCHANGED coreVars
    /\ UNCHANGED <<panelVars, clientVars, ctlVars, limVars, renew>>

RefillUsers(g) ==
    /\ At(g, "addUsers")
    /\ \/ AddUsersOk(Listed(userList)) /\ Goto(g, "interval") /\ UNCHANGED locals
       \/ AddUsersFails(Listed(userList)) /\ Exit(g)
    /\ UNCHANGED <<panelVars, clientVars, ctlVars, limVars, renew>>

(* A changed interval restarts the task from inside its own Execute.       *)
CheckInterval(g) ==
    /\ At(g, "interval")
    /\ LET p == PullInterval[newN[g]] IN
       IF p # interval /\ p # 0
       THEN /\ interval' = p
            /\ at' = [at EXCEPT ![g] = "restart"]
            /\ IF running THEN Monitor!Close ELSE UNCHANGED taskVars
            /\ UNCHANGED locals
       ELSE Exit(g) /\ UNCHANGED interval
    /\ UNCHANGED <<panelVars, clientVars, lc, info, userList, limVars,
                   coreVars, renew>>

Restart(g) ==
    /\ At(g, "restart")
    /\ at' = [at EXCEPT ![g] = "return"]
    /\ IF running THEN UNCHANGED taskVars
                  ELSE \E h \in Loops : Monitor!Start(h, FALSE)
    /\ UNCHANGED <<panelVars, clientVars, ctlVars, limVars, coreVars, locals,
                   renew>>

Return(g) ==
    /\ At(g, "return") /\ Exit(g)
    /\ UNCHANGED <<panelVars, clientVars, ctlVars, limVars, coreVars, renew>>

(* Node unchanged: compare the user lists.  An empty list is as good as    *)
(* an unchanged one.                                                       *)
CompareUsers(g) ==
    /\ At(g, "alive") /\ newN[g] = NoConfig
    /\ IF newU[g] = NoList \/ newU[g] = Empty
       THEN Exit(g)
       ELSE /\ del' = [del EXCEPT ![g] = Deleted(userList, newU[g])]
            /\ add' = [add EXCEPT ![g] = Added(userList, newU[g])]
            /\ Goto(g, "delUsers") /\ UNCHANGED <<newN, newU>>
    /\ UNCHANGED <<panelVars, clientVars, ctlVars, limVars, coreVars, renew>>

RemoveUsers(g) ==
    /\ At(g, "delUsers")
    /\ \/ del[g] = {} /\ Goto(g, "addDelta") /\ UNCHANGED <<locals, coreVars>>
       \/ del[g] # {} /\ DelUsersOk(del[g]) /\ Goto(g, "addDelta") /\ UNCHANGED locals
       \/ del[g] # {} /\ DelUsersFails(del[g]) /\ Exit(g)
    /\ UNCHANGED <<panelVars, clientVars, ctlVars, limVars, renew>>

AddNewUsers(g) ==
    /\ At(g, "addDelta")
    /\ \/ add[g] = {} /\ Goto(g, "commit") /\ UNCHANGED <<locals, coreVars>>
       \/ add[g] # {} /\ AddUsersOk(add[g]) /\ Goto(g, "commit") /\ UNCHANGED locals
       \/ add[g] # {} /\ AddUsersFails(add[g]) /\ Exit(g)
    /\ UNCHANGED <<panelVars, clientVars, ctlVars, limVars, renew>>

CommitUsers(g) ==
    /\ At(g, "commit")
    /\ lim' = UpdateUser(lim, newU[g], add[g], del[g])
    /\ userList' = newU[g]
    /\ Exit(g)
    /\ UNCHANGED <<panelVars, clientVars, lc, info, interval, registered,
                   coreVars, renew>>

----------------------------------------------------------------------------
(* renewCertTask: a renewed certificate reloads the node under c.info and  *)
(* c.userList as they are when each call is made; errors are only logged.  *)
RenewCheck ==
    /\ ~panicked /\ renew = "check" /\ lc \notin {"closing", "closed"}
    /\ renew' = "del"
    /\ UNCHANGED <<panelVars, clientVars, ctlVars, limVars, coreVars, at,
                   locals, taskVars>>

RenewDel ==
    /\ ~panicked /\ renew = "del"
    /\ \/ DelNode /\ renew' = "add"
       \/ node = NoConfig /\ renew' = "check" /\ UNCHANGED coreVars
    /\ UNCHANGED <<panelVars, clientVars, ctlVars, limVars, at, locals, taskVars>>

RenewAdd ==
    /\ ~panicked /\ renew = "add"
    /\ \/ AddNode(info) /\ renew' = "users"
       \/ (node # NoConfig \/ CoreFails) /\ renew' = "check" /\ UNCHANGED coreVars
    /\ UNCHANGED <<panelVars, clientVars, ctlVars, limVars, at, locals, taskVars>>

RenewUsers ==
    /\ ~panicked /\ renew = "users" /\ renew' = "check"
    /\ AddUsersOk(Listed(userList)) \/ AddUsersFails(Listed(userList))
    /\ UNCHANGED <<panelVars, clientVars, ctlVars, limVars, at, locals, taskVars>>

RenewStopped ==
    /\ ~panicked /\ renew = "check" /\ lc \in {"closing", "closed"}
    /\ renew' = "off"
    /\ UNCHANGED <<panelVars, clientVars, ctlVars, limVars, coreVars, at,
                   locals, taskVars>>

Renew == RenewCheck \/ RenewDel \/ RenewAdd \/ RenewUsers \/ RenewStopped

----------------------------------------------------------------------------
MonitorStep(g) ==
    \/ Wake(g) \/ Sleep(g)
    \/ FetchNodeOk(g) \/ FetchNodeFails(g) \/ FetchNodeGarbled(g)
    \/ FetchUsersOk(g) \/ FetchUsersFails(g)
    \/ AdoptNode(g) \/ RemoveNode(g) \/ Cert(g) \/ ReplaceNode(g)
    \/ RefillUsers(g) \/ CheckInterval(g) \/ Restart(g) \/ Return(g)
    \/ CompareUsers(g) \/ RemoveUsers(g) \/ AddNewUsers(g) \/ CommitUsers(g)

Next == \/ \E c \in Configs : PanelSetNode(c)
        \/ \E l \in UserLists : PanelSetUsers(l)
        \/ \E g \in Loops : StartOk(g)
        \/ \E i \in 1 .. 7 : StartFails(i)
        \/ CloseTasks \/ CloseNode
        \/ \E g \in Loops : MonitorStep(g)
        \/ Renew

(* Goroutines that can run do, calls return, and timers fire.  The panel   *)
(* answers a caller that keeps asking.  Nothing makes the panel change or  *)
(* the watcher close the controller.                                       *)
Fairness == /\ \A g \in Loops : /\ WF_vars(MonitorStep(g))
                                /\ SF_vars(FetchNodeOk(g))
                                /\ SF_vars(FetchUsersOk(g))
            /\ WF_vars(CloseNode)
            /\ WF_vars(RenewDel \/ RenewAdd \/ RenewUsers \/ RenewStopped)

Spec == Init /\ [][Next]_vars /\ Fairness

----------------------------------------------------------------------------
(* Type invariant.                                                         *)
TypeOK ==
    /\ pNode \in Configs /\ pUsers \in UserLists /\ changes \in Nat
    /\ nodeSeen \in Configs \cup {NoConfig, Garbage}
    /\ userSeen \in UserLists \cup {NoList} /\ dropped \in BOOLEAN
    /\ lc \in {"new", "up", "failed", "closing", "closed"}
    /\ info \in Configs \cup {NoConfig} /\ userList \in UserLists
    /\ interval \in Nat
    /\ registered \in BOOLEAN /\ lim \in UserLists
    /\ node \in Configs \cup {NoConfig} /\ coreUsers \subseteq Users
    /\ at \in [Loops -> Labels]
    /\ newN \in [Loops -> Configs \cup {NoConfig}]
    /\ newU \in [Loops -> UserLists \cup {NoList}]
    /\ del \in [Loops -> SUBSET Users] /\ add \in [Loops -> SUBSET Users]
    /\ renew \in {"off", "check", "del", "add", "users"}
    /\ Monitor!TaskTypeOK

(* DelNode works as a lock: whatever the monitor loops, the renewal and    *)
(* Close do, at most one of them is between DelNode and AddNode, and the   *)
(* node is absent for all that time, so no AddNode ever hits a live node.  *)
Reloading(g) == at[g] \in {"cert", "addNode"}
ReloadsExclude ==
    /\ \A g \in Loops : Reloading(g) => node = NoConfig /\ renew # "add"
    /\ renew = "add" => node = NoConfig
    /\ \A g, h \in Loops : Reloading(g) /\ Reloading(h) => g = h

(* The core never serves another configuration than c.info, also while the *)
(* renewal task reloads the node under the monitor's feet; the only        *)
(* exception is a monitor that has read a new one and is about to remove   *)
(* the old node.                                                           *)
NodeMatchesInfo ==
    node \in {NoConfig, info} \/ \E g \in Loops : at[g] = "delNode"

(* Users and speed limits the limiter enforces are those of c.userList,    *)
(* through full reloads, incremental updates, and polls abandoned half-way *)
(* because a call failed.                                                  *)
SpeedOf(l, u) == IF l[u] = NoPlan THEN NoPlan ELSE l[u].speed
LimiterTracksUserList ==
    ~panicked /\ (\A g \in Loops : at[g] # "delNode")
    => \A u \in Users : SpeedOf(lim, u) = SpeedOf(userList, u)

(* When only the panel misbehaves, the users the core serves are exactly   *)
(* those of c.userList outside of a poll that is changing them.            *)
CoreTracksUserList ==
    /\ lc = "up" /\ node # NoConfig
    /\ \A g \in Loops : at[g] \notin {"delNode", "addUsers", "addDelta", "commit"}
    => coreUsers = Listed(userList)

(* While the node stays up, a user is disconnected only because the list   *)
(* just fetched drops it or gives it another speed limit.                  *)
UnchangedUsersStayConnected ==
    [][\A u \in coreUsers \ coreUsers' : node' = node =>
          \E g \in Loops : /\ at[g] = "delUsers" /\ newU[g] # NoList
                           /\ SpeedOf(newU[g], u) # SpeedOf(userList, u)]_vars

(* The Panic calls and panic(err) of the controller are not reached.       *)
NoPanic == ~panicked

(* After the panel's last change the node it describes is what the core    *)
(* serves, unless the reply that carried it was lost (dropped).            *)
NodeConverges == <>[](lc = "up" => node = pNode \/ dropped)

(* After the panel's last change its users, unless it lists none, are what *)
(* the core and the limiter know.                                          *)
UsersConverge ==
    <>[](lc = "up" /\ Listed(pUsers) # {} =>
            /\ coreUsers = Listed(pUsers)
            /\ \A u \in Users : SpeedOf(lim, u) = SpeedOf(pUsers, u))

(* Closing the controller ends its monitor loops and its renewal task,     *)
(* also those in the middle of a reload, or else the process panics.       *)
ClosedControllerStops ==
    lc = "closed" ~> panicked \/ (renew = "off" /\ \A g \in Loops : pc[g] = "idle")
============================================================================
