----------------------- MODULE NodeControllerProofs -----------------------
(* The controller's safety for any users, configurations, loops and number *)
(* of panel changes, under every fault the model has.                      *)
EXTENDS NodeController, TLAPS

(* The monitor task with what TaskProofs shows of it.                      *)
TP == INSTANCE TaskProofs WITH ExecuteFails <- FALSE

(* What the list operators of the controller return.                       *)
LEMMA ListTypes ==
    ASSUME NEW l \in UserLists, NEW new \in UserLists
    PROVE  /\ Empty \in UserLists /\ Listed(l) \subseteq Users
           /\ Deleted(l, new) \subseteq Users /\ Added(l, new) \subseteq Users
           /\ \A added, deleted \in SUBSET Users :
                 UpdateUser(l, new, added, deleted) \in UserLists
BY DEF Empty, UserLists, Listed, Deleted, Added, UpdateUser

(* Applying the difference of two lists to a limiter that knows the speeds *)
(* of the first gives one that knows the speeds of the second.             *)
LEMMA UpdateUserTracks ==
    ASSUME NEW l \in UserLists, NEW old \in UserLists, NEW new \in UserLists,
           \A u \in Users : SpeedOf(l, u) = SpeedOf(old, u),
           NEW u \in Users
    PROVE  SpeedOf(UpdateUser(l, new, Added(old, new), Deleted(old, new)), u)
              = SpeedOf(new, u)
BY ControllerAssumption
   DEF UserLists, SpeedOf, UpdateUser, Added, Deleted, Listed, SameKey

(* What a controller step may be for the monitor task: one of its steps,   *)
(* or the end of the process, which leaves the task as it is.              *)
TaskMoves ==
    \/ UNCHANGED taskVars \/ Monitor!Close
    \/ \E g \in Loops : \/ Monitor!Start(g, FALSE) \/ Monitor!Select(g)
                        \/ Monitor!Tick(g) \/ Monitor!Stopped(g)
                        \/ Monitor!ExecuteOk(g)

TaskCrashes ==
    panicked' \in BOOLEAN /\ UNCHANGED <<running, stop, closed, pc, waitOn>>

(* A step of the monitor task inside a controller step keeps the task's    *)
(* inductive invariant.                                                    *)
LEMMA TaskStep ==
    ASSUME TP!TaskIInv, TaskMoves
    PROVE  TP!TaskIInv'
<1>1. [TP!TaskNext]_(TP!taskVars)
  BY DEF TaskMoves, taskVars, TP!taskVars, TP!TaskNext, TP!Loop,
         Monitor!Close, TP!Close, Monitor!Start, TP!Start, Monitor!Free, TP!Free,
         Monitor!Select, TP!Select, Monitor!Tick, TP!Tick,
         Monitor!Stopped, TP!Stopped, Monitor!ExecuteOk, TP!ExecuteOk
<1> QED BY <1>1, TP!TaskStepIInv, ControllerAssumption

(* So does a crash of the process.                                         *)
LEMMA TaskCrash ==
    ASSUME TP!TaskIInv, TaskCrashes
    PROVE  TP!TaskIInv'
BY DEF TaskCrashes, TP!TaskIInv, TP!TaskTypeOK, TP!ChannelOpenWhileRunning,
       TP!CloseReachesEveryLoop, TP!RunningTaskIsServed, TP!CurrentLoopWaitsOnStop

(* Every controller step is one or the other for the task.                 *)
LEMMA TaskStepOrCrash ==
    ASSUME TP!TaskIInv, [Next]_vars
    PROVE  TaskMoves \/ TaskCrashes
<1>1. CASE TaskMoves
  BY <1>1
<1>2. CASE TaskCrashes
  BY <1>2
<1> USE DEF TaskMoves, TaskCrashes
<1>3. CASE UNCHANGED vars
  BY <1>3, <1>1 DEF vars
<1>4. ASSUME NEW c \in Configs, PanelSetNode(c) PROVE TaskMoves \/ TaskCrashes
  BY <1>4, <1>1 DEF PanelSetNode
<1>5. ASSUME NEW l \in UserLists, PanelSetUsers(l) PROVE TaskMoves \/ TaskCrashes
  BY <1>5, <1>1 DEF PanelSetUsers
<1>6. ASSUME NEW g \in Loops, StartOk(g) PROVE TaskMoves \/ TaskCrashes
  BY <1>6, <1>1 DEF StartOk
<1>7. ASSUME NEW i \in 1 .. 7, StartFails(i) PROVE TaskMoves \/ TaskCrashes
  <2>1. panicked' \in BOOLEAN
    <3>1. panicked' = (Stages[i] = "rules") BY <1>7 DEF StartFails
    <3>2. CASE Stages[i] = "rules" BY <3>1, <3>2, Zenon
    <3>3. CASE Stages[i] # "rules" BY <3>1, <3>3
    <3> QED BY <3>2, <3>3
  <2> QED BY <1>7, <1>2, <2>1 DEF StartFails
<1>8. CASE CloseTasks
  BY <1>8, <1>1 DEF CloseTasks
<1>9. CASE CloseNode
  BY <1>9, <1>1, <1>2 DEF CloseNode, taskVars
<1>10. CASE Renew
  BY <1>10, <1>1 DEF Renew, RenewCheck, RenewDel, RenewAdd, RenewUsers,
     RenewStopped
<1>11. ASSUME NEW g \in Loops, MonitorStep(g) PROVE TaskMoves \/ TaskCrashes
  <2>1. CASE Wake(g)
    BY <2>1, <1>1, <1>2 DEF Wake
  <2>2. CASE Sleep(g)
    BY <2>2, <1>1, <1>2 DEF Sleep
  <2>3. CASE FetchNodeOk(g)
    BY <2>3, <1>1, <1>2 DEF FetchNodeOk, At, Goto
  <2>4. CASE FetchNodeFails(g)
    BY <2>4, <1>1, <1>2 DEF FetchNodeFails, At, Exit
  <2>5. CASE FetchNodeGarbled(g)
    BY <2>5, <1>1, <1>2 DEF FetchNodeGarbled, At, Exit
  <2>6. CASE FetchUsersOk(g)
    BY <2>6, <1>1, <1>2 DEF FetchUsersOk, At, Goto
  <2>7. CASE FetchUsersFails(g)
    BY <2>7, <1>1, <1>2 DEF FetchUsersFails, At, Exit
  <2>8. CASE AdoptNode(g)
    BY <2>8, <1>1, <1>2 DEF AdoptNode, At, Goto
  <2>9. CASE RemoveNode(g)
    BY <2>9, <1>1, <1>2 DEF RemoveNode, At, Goto, Crash, DelNode
  <2>10. CASE Cert(g)
    BY <2>10, <1>1, <1>2 DEF Cert, At, Goto, Exit
  <2>11. CASE ReplaceNode(g)
    BY <2>11, <1>1, <1>2 DEF ReplaceNode, At, Goto, Crash, AddNode
  <2>12. CASE RefillUsers(g)
    BY <2>12, <1>1, <1>2 DEF RefillUsers, At, Goto, Exit, AddUsersOk,
       AddUsersFails
  <2>13. CASE CheckInterval(g)
    BY <2>13, <1>1, <1>2 DEF CheckInterval, At, Exit
  <2>14. CASE Restart(g)
    BY <2>14, <1>1, <1>2 DEF Restart, At
  <2>15. CASE Return(g)
    BY <2>15, <1>1, <1>2 DEF Return, At, Exit
  <2>16. CASE CompareUsers(g)
    BY <2>16, <1>1, <1>2 DEF CompareUsers, At, Goto, Exit
  <2>17. CASE RemoveUsers(g)
    BY <2>17, <1>1, <1>2 DEF RemoveUsers, At, Goto, Exit, DelUsersOk,
       DelUsersFails
  <2>18. CASE AddNewUsers(g)
    BY <2>18, <1>1, <1>2 DEF AddNewUsers, At, Goto, Exit, AddUsersOk,
       AddUsersFails
  <2>19. CASE CommitUsers(g)
    BY <2>19, <1>1, <1>2 DEF CommitUsers, At, Exit
  <2> QED
    BY <1>11, <2>1, <2>2, <2>3, <2>4, <2>5, <2>6, <2>7, <2>8, <2>9, <2>10,
       <2>11, <2>12, <2>13, <2>14, <2>15, <2>16, <2>17, <2>18, <2>19 DEF
       MonitorStep
<1> QED
  BY <1>3, <1>4, <1>5, <1>6, <1>7, <1>8, <1>9, <1>10, <1>11 DEF Next

----------------------------------------------------------------------------
(* The locals of nodeInfoMonitor are set where it uses them.               *)
MonitorLocals ==
    \A g \in Loops :
        /\ at[g] \in {"delNode", "cert", "addNode", "addUsers", "interval"}
              => newN[g] # NoConfig
        /\ at[g] \in {"delUsers", "addDelta", "commit"} => newU[g] # NoList

(* Before Start there is no node, no loop and no renewal.                  *)
NothingBeforeStart ==
    lc = "new" => /\ stop = NoLoop /\ renew = "off" /\ node = NoConfig
                  /\ lim = Empty /\ userList = Empty
                  /\ \A g \in Loops : at[g] = "idle"

ControllerIInv == /\ TypeOK /\ TP!TaskIInv /\ MonitorLocals
                  /\ NothingBeforeStart /\ ReloadsExclude

(* The initial states satisfy the inductive invariant.                     *)
LEMMA ControllerInit == Init => ControllerIInv
<1> SUFFICES ASSUME Init PROVE ControllerIInv
  OBVIOUS
<1>1. TP!TaskIInv
  <2>1. TP!TaskInit
    BY DEF Init, Monitor!TaskInit, TP!TaskInit
  <2> QED BY <2>1, TP!TaskInitIInv, ControllerAssumption
<1>2. TypeOK
  <2>1. Monitor!TaskTypeOK
    BY <1>1 DEF TP!TaskIInv, TP!TaskTypeOK, Monitor!TaskTypeOK, TP!PCs, Monitor!PCs
  <2> QED BY <2>1, ListTypes, ControllerAssumption DEF Init, TypeOK, Labels
<1>3. MonitorLocals /\ NothingBeforeStart /\ ReloadsExclude
  BY DEF Init, MonitorLocals, NothingBeforeStart, ReloadsExclude, Reloading,
         Monitor!TaskInit
<1> QED BY <1>1, <1>2, <1>3 DEF ControllerIInv

(* Every step of the controller preserves it.                              *)
LEMMA ControllerStep == ControllerIInv /\ [Next]_vars => ControllerIInv'
<1> SUFFICES ASSUME ControllerIInv, [Next]_vars PROVE ControllerIInv'
  OBVIOUS
<1> USE ControllerAssumption
        DEF panelVars, clientVars, ctlVars, limVars, coreVars, locals, taskVars
<1>a. TP!TaskIInv'
  BY TaskStepOrCrash, TaskStep, TaskCrash DEF ControllerIInv
<1>b. Monitor!TaskTypeOK'
  BY <1>a DEF TP!TaskIInv, TP!TaskTypeOK, Monitor!TaskTypeOK, TP!PCs, Monitor!PCs
<1>c. lc = "new" => \A g \in Loops : pc[g] = "idle"
  BY DEF ControllerIInv, NothingBeforeStart, TP!TaskIInv, TP!ChannelOpenWhileRunning
<1>d. TypeOK /\ MonitorLocals /\ NothingBeforeStart /\ ReloadsExclude
  BY DEF ControllerIInv
<1> DEFINE Rest == TypeOK' /\ MonitorLocals' /\ NothingBeforeStart' /\ ReloadsExclude'
<1>1. ASSUME UNCHANGED vars PROVE Rest
  <2>1. TypeOK'
    BY <1>1, <1>b, <1>d DEF TypeOK, Labels, vars
  <2>2. MonitorLocals' /\ NothingBeforeStart' /\ ReloadsExclude'
    BY <1>1, <1>c, <1>d DEF TypeOK, MonitorLocals, NothingBeforeStart,
       ReloadsExclude, Reloading, vars
  <2> QED BY <2>1, <2>2
<1>2. ASSUME NEW c \in Configs, PanelSetNode(c) PROVE Rest
  <2>1. TypeOK'
    BY <1>2, <1>b, <1>d DEF TypeOK, Labels, PanelSetNode
  <2>2. MonitorLocals' /\ NothingBeforeStart' /\ ReloadsExclude'
    BY <1>2, <1>c, <1>d DEF TypeOK, MonitorLocals, NothingBeforeStart,
       ReloadsExclude, Reloading, PanelSetNode
  <2> QED BY <2>1, <2>2
<1>3. ASSUME NEW l \in UserLists, PanelSetUsers(l) PROVE Rest
  <2>1. TypeOK'
    BY <1>3, <1>b, <1>d, ListTypes DEF TypeOK, Labels, PanelSetUsers
  <2>2. MonitorLocals' /\ NothingBeforeStart' /\ ReloadsExclude'
    BY <1>3, <1>c, <1>d DEF TypeOK, MonitorLocals, NothingBeforeStart,
       ReloadsExclude, Reloading, PanelSetUsers
  <2> QED BY <2>1, <2>2
<1>4. ASSUME NEW g \in Loops, StartOk(g) PROVE Rest
  <2>1. TypeOK'
    BY <1>4, <1>b, <1>d, ListTypes DEF TypeOK, Labels, StartOk, Monitor!Start
  <2>2. MonitorLocals' /\ NothingBeforeStart' /\ ReloadsExclude'
    BY <1>4, <1>c, <1>d DEF TypeOK, MonitorLocals, NothingBeforeStart,
       ReloadsExclude, Reloading, StartOk, Monitor!Start
  <2> QED BY <2>1, <2>2
<1>5. ASSUME NEW i \in 1 .. 7, StartFails(i) PROVE Rest
  <2>1. TypeOK'
    BY <1>5, <1>b, <1>d, ListTypes DEF TypeOK, Labels, StartFails
  <2>2. MonitorLocals' /\ NothingBeforeStart' /\ ReloadsExclude'
    BY <1>5, <1>c, <1>d DEF TypeOK, MonitorLocals, NothingBeforeStart,
       ReloadsExclude, Reloading, StartFails
  <2> QED BY <2>1, <2>2
<1>6. ASSUME CloseTasks PROVE Rest
  <2>1. TypeOK'
    BY <1>6, <1>b, <1>d DEF TypeOK, Labels, CloseTasks, Monitor!Close
  <2>2. MonitorLocals' /\ NothingBeforeStart' /\ ReloadsExclude'
    BY <1>6, <1>c, <1>d DEF TypeOK, MonitorLocals, NothingBeforeStart,
       ReloadsExclude, Reloading, CloseTasks, Monitor!Close
  <2> QED BY <2>1, <2>2
<1>7. ASSUME CloseNode PROVE Rest
  <2>1. TypeOK'
    BY <1>7, <1>b, <1>d DEF TypeOK, Labels, CloseNode, DelNode
  <2>2. MonitorLocals' /\ NothingBeforeStart' /\ ReloadsExclude'
    BY <1>7, <1>c, <1>d DEF TypeOK, MonitorLocals, NothingBeforeStart,
       ReloadsExclude, Reloading, CloseNode, DelNode
  <2> QED BY <2>1, <2>2
<1>8. ASSUME RenewCheck PROVE Rest
  <2>1. TypeOK'
    BY <1>8, <1>b, <1>d DEF TypeOK, Labels, RenewCheck
  <2>2. MonitorLocals' /\ NothingBeforeStart' /\ ReloadsExclude'
    BY <1>8, <1>c, <1>d DEF TypeOK, MonitorLocals, NothingBeforeStart,
       ReloadsExclude, Reloading, RenewCheck
  <2> QED BY <2>1, <2>2
<1>9. ASSUME RenewDel PROVE Rest
  <2>1. TypeOK'
    BY <1>9, <1>b, <1>d DEF TypeOK, Labels, RenewDel, DelNode
  <2>2. MonitorLocals' /\ NothingBeforeStart' /\ ReloadsExclude'
    BY <1>9, <1>c, <1>d DEF TypeOK, MonitorLocals, NothingBeforeStart,
       ReloadsExclude, Reloading, RenewDel, DelNode
  <2> QED BY <2>1, <2>2
<1>10. ASSUME RenewAdd PROVE Rest
  <2>1. TypeOK'
    BY <1>10, <1>b, <1>d DEF TypeOK, Labels, RenewAdd, AddNode
  <2>2. MonitorLocals' /\ NothingBeforeStart' /\ ReloadsExclude'
    BY <1>10, <1>c, <1>d DEF TypeOK, MonitorLocals, NothingBeforeStart,
       ReloadsExclude, Reloading, RenewAdd, AddNode
  <2> QED BY <2>1, <2>2
<1>11. ASSUME RenewUsers PROVE Rest
  <2>1. TypeOK'
    BY <1>11, <1>b, <1>d, ListTypes DEF TypeOK, Labels, RenewUsers,
       AddUsersOk, AddUsersFails
  <2>2. MonitorLocals' /\ NothingBeforeStart' /\ ReloadsExclude'
    BY <1>11, <1>c, <1>d DEF TypeOK, MonitorLocals, NothingBeforeStart,
       ReloadsExclude, Reloading, RenewUsers, AddUsersOk, AddUsersFails
  <2> QED BY <2>1, <2>2
<1>12. ASSUME RenewStopped PROVE Rest
  <2>1. TypeOK'
    BY <1>12, <1>b, <1>d DEF TypeOK, Labels, RenewStopped
  <2>2. MonitorLocals' /\ NothingBeforeStart' /\ ReloadsExclude'
    BY <1>12, <1>c, <1>d DEF TypeOK, MonitorLocals, NothingBeforeStart,
       ReloadsExclude, Reloading, RenewStopped
  <2> QED BY <2>1, <2>2
<1>13. ASSUME NEW g \in Loops, Wake(g) PROVE Rest
  <2>1. TypeOK'
    BY <1>13, <1>b, <1>d DEF TypeOK, Labels, Wake, Monitor!Tick
  <2>2. MonitorLocals' /\ NothingBeforeStart' /\ ReloadsExclude'
    BY <1>13, <1>c, <1>d DEF TypeOK, MonitorLocals, NothingBeforeStart,
       ReloadsExclude, Reloading, Wake, Monitor!Tick
  <2> QED BY <2>1, <2>2
<1>14. ASSUME NEW g \in Loops, Sleep(g) PROVE Rest
  <2>1. TypeOK'
    BY <1>14, <1>b, <1>d DEF TypeOK, Labels, Sleep, Monitor!Select,
       Monitor!Stopped
  <2>2. MonitorLocals' /\ NothingBeforeStart' /\ ReloadsExclude'
    BY <1>14, <1>c, <1>d DEF TypeOK, MonitorLocals, NothingBeforeStart,
       ReloadsExclude, Reloading, Sleep, Monitor!Select, Monitor!Stopped
  <2> QED BY <2>1, <2>2
<1>15. ASSUME NEW g \in Loops, FetchNodeOk(g) PROVE Rest
  <2>1. TypeOK'
    BY <1>15, <1>b, <1>d DEF TypeOK, Labels, FetchNodeOk, At, Goto
  <2>2. MonitorLocals' /\ NothingBeforeStart' /\ ReloadsExclude'
    BY <1>15, <1>c, <1>d DEF TypeOK, MonitorLocals, NothingBeforeStart,
       ReloadsExclude, Reloading, FetchNodeOk, At, Goto
  <2> QED BY <2>1, <2>2
<1>16. ASSUME NEW g \in Loops, FetchNodeFails(g) PROVE Rest
  <2>1. TypeOK'
    BY <1>16, <1>b, <1>d DEF TypeOK, Labels, FetchNodeFails, At, Exit,
       Monitor!ExecuteOk
  <2>2. MonitorLocals' /\ NothingBeforeStart' /\ ReloadsExclude'
    BY <1>16, <1>c, <1>d DEF TypeOK, MonitorLocals, NothingBeforeStart,
       ReloadsExclude, Reloading, FetchNodeFails, At, Exit, Monitor!ExecuteOk
  <2> QED BY <2>1, <2>2
<1>17. ASSUME NEW g \in Loops, FetchNodeGarbled(g) PROVE Rest
  <2>1. TypeOK'
    <3>1. dropped' \in BOOLEAN
      BY <1>17, <1>d DEF TypeOK, FetchNodeGarbled
    <3> QED
      BY <1>17, <1>b, <1>d, <3>1 DEF TypeOK, Labels, FetchNodeGarbled, At, Exit
  <2>2. MonitorLocals' /\ NothingBeforeStart' /\ ReloadsExclude'
    BY <1>17, <1>c, <1>d DEF TypeOK, MonitorLocals, NothingBeforeStart,
       ReloadsExclude, Reloading, FetchNodeGarbled, At, Exit,
       Monitor!ExecuteOk
  <2> QED BY <2>1, <2>2
<1>18. ASSUME NEW g \in Loops, FetchUsersOk(g) PROVE Rest
  <2>1. TypeOK'
    BY <1>18, <1>b, <1>d, ListTypes DEF TypeOK, Labels, FetchUsersOk, At, Goto
  <2>2. MonitorLocals' /\ NothingBeforeStart' /\ ReloadsExclude'
    BY <1>18, <1>c, <1>d DEF TypeOK, MonitorLocals, NothingBeforeStart,
       ReloadsExclude, Reloading, FetchUsersOk, At, Goto
  <2> QED BY <2>1, <2>2
<1>19. ASSUME NEW g \in Loops, FetchUsersFails(g) PROVE Rest
  <2>1. TypeOK'
    BY <1>19, <1>b, <1>d DEF TypeOK, Labels, FetchUsersFails, At, Exit,
       Monitor!ExecuteOk
  <2>2. MonitorLocals' /\ NothingBeforeStart' /\ ReloadsExclude'
    BY <1>19, <1>c, <1>d DEF TypeOK, MonitorLocals, NothingBeforeStart,
       ReloadsExclude, Reloading, FetchUsersFails, At, Exit, Monitor!ExecuteOk
  <2> QED BY <2>1, <2>2
<1>20. ASSUME NEW g \in Loops, AdoptNode(g) PROVE Rest
  <2>1. TypeOK'
    BY <1>20, <1>b, <1>d DEF TypeOK, Labels, AdoptNode, At, Goto
  <2>2. MonitorLocals' /\ NothingBeforeStart' /\ ReloadsExclude'
    BY <1>20, <1>c, <1>d DEF TypeOK, MonitorLocals, NothingBeforeStart,
       ReloadsExclude, Reloading, AdoptNode, At, Goto
  <2> QED BY <2>1, <2>2
<1>21. ASSUME NEW g \in Loops, RemoveNode(g) PROVE Rest
  <2>1. TypeOK'
    <3>1. registered' \in BOOLEAN /\ lim' \in UserLists
      BY <1>21, <1>d DEF TypeOK, RemoveNode
    <3>2. node' \in Configs \cup {NoConfig} /\ coreUsers' \subseteq Users
      BY <1>21, <1>d DEF TypeOK, RemoveNode, DelNode
    <3>3. at' \in [Loops -> Labels] /\ UNCHANGED locals
      BY <1>21, <1>d DEF TypeOK, Labels, RemoveNode, Goto, Crash
    <3> QED
      BY <1>21, <1>b, <1>d, <3>1, <3>2, <3>3 DEF TypeOK, RemoveNode
  <2>2. MonitorLocals' /\ NothingBeforeStart' /\ ReloadsExclude'
    BY <1>21, <1>c, <1>d DEF TypeOK, MonitorLocals, NothingBeforeStart,
       ReloadsExclude, Reloading, RemoveNode, At, Goto, Crash, DelNode
  <2> QED BY <2>1, <2>2
<1>22. ASSUME NEW g \in Loops, Cert(g) PROVE Rest
  <2>1. TypeOK'
    BY <1>22, <1>b, <1>d DEF TypeOK, Labels, Cert, At, Goto, Exit,
       Monitor!ExecuteOk
  <2>2. MonitorLocals' /\ NothingBeforeStart' /\ ReloadsExclude'
    BY <1>22, <1>c, <1>d DEF TypeOK, MonitorLocals, NothingBeforeStart,
       ReloadsExclude, Reloading, Cert, At, Goto, Exit, Monitor!ExecuteOk
  <2> QED BY <2>1, <2>2
<1>23. ASSUME NEW g \in Loops, ReplaceNode(g) PROVE Rest
  <2>1. TypeOK'
    BY <1>23, <1>b, <1>d DEF TypeOK, Labels, ReplaceNode, At, Goto, Crash,
       AddNode
  <2>2. MonitorLocals' /\ NothingBeforeStart' /\ ReloadsExclude'
    BY <1>23, <1>c, <1>d DEF TypeOK, MonitorLocals, NothingBeforeStart,
       ReloadsExclude, Reloading, ReplaceNode, At, Goto, Crash, AddNode
  <2> QED BY <2>1, <2>2
<1>24. ASSUME NEW g \in Loops, RefillUsers(g) PROVE Rest
  <2>1. TypeOK'
    BY <1>24, <1>b, <1>d, ListTypes DEF TypeOK, Labels, RefillUsers, At, Goto,
       Exit, AddUsersOk, AddUsersFails, Monitor!ExecuteOk
  <2>2. MonitorLocals' /\ NothingBeforeStart' /\ ReloadsExclude'
    BY <1>24, <1>c, <1>d DEF TypeOK, MonitorLocals, NothingBeforeStart,
       ReloadsExclude, Reloading, RefillUsers, At, Goto, Exit, AddUsersOk,
       AddUsersFails, Monitor!ExecuteOk
  <2> QED BY <2>1, <2>2
<1>25. ASSUME NEW g \in Loops, CheckInterval(g) PROVE Rest
  <2>1. TypeOK'
    BY <1>25, <1>b, <1>d DEF TypeOK, Labels, MonitorLocals, CheckInterval, At,
       Exit, Monitor!ExecuteOk, Monitor!Close
  <2>2. MonitorLocals' /\ NothingBeforeStart' /\ ReloadsExclude'
    BY <1>25, <1>c, <1>d DEF TypeOK, MonitorLocals, NothingBeforeStart,
       ReloadsExclude, Reloading, CheckInterval, At, Exit, Monitor!ExecuteOk,
       Monitor!Close
  <2> QED BY <2>1, <2>2
<1>26. ASSUME NEW g \in Loops, Restart(g) PROVE Rest
  <2>1. TypeOK'
    BY <1>26, <1>b, <1>d DEF TypeOK, Labels, Restart, At, Monitor!Start
  <2>2. MonitorLocals' /\ NothingBeforeStart' /\ ReloadsExclude'
    BY <1>26, <1>c, <1>d DEF TypeOK, MonitorLocals, NothingBeforeStart,
       ReloadsExclude, Reloading, Restart, At, Monitor!Start
  <2> QED BY <2>1, <2>2
<1>27. ASSUME NEW g \in Loops, Return(g) PROVE Rest
  <2>1. TypeOK'
    BY <1>27, <1>b, <1>d DEF TypeOK, Labels, Return, At, Exit,
       Monitor!ExecuteOk
  <2>2. MonitorLocals' /\ NothingBeforeStart' /\ ReloadsExclude'
    BY <1>27, <1>c, <1>d DEF TypeOK, MonitorLocals, NothingBeforeStart,
       ReloadsExclude, Reloading, Return, At, Exit, Monitor!ExecuteOk
  <2> QED BY <2>1, <2>2
<1>28. ASSUME NEW g \in Loops, CompareUsers(g) PROVE Rest
  <2>1. TypeOK'
    BY <1>28, <1>b, <1>d, ListTypes DEF TypeOK, Labels, CompareUsers, At,
       Goto, Exit, Monitor!ExecuteOk
  <2>2. MonitorLocals' /\ NothingBeforeStart' /\ ReloadsExclude'
    BY <1>28, <1>c, <1>d DEF TypeOK, MonitorLocals, NothingBeforeStart,
       ReloadsExclude, Reloading, CompareUsers, At, Goto, Exit,
       Monitor!ExecuteOk
  <2> QED BY <2>1, <2>2
<1>29. ASSUME NEW g \in Loops, RemoveUsers(g) PROVE Rest
  <2>1. TypeOK'
    BY <1>29, <1>b, <1>d, ListTypes DEF TypeOK, Labels, RemoveUsers, At, Goto,
       Exit, DelUsersOk, DelUsersFails, Monitor!ExecuteOk
  <2>2. MonitorLocals' /\ NothingBeforeStart' /\ ReloadsExclude'
    BY <1>29, <1>c, <1>d DEF TypeOK, MonitorLocals, NothingBeforeStart,
       ReloadsExclude, Reloading, RemoveUsers, At, Goto, Exit, DelUsersOk,
       DelUsersFails, Monitor!ExecuteOk
  <2> QED BY <2>1, <2>2
<1>30. ASSUME NEW g \in Loops, AddNewUsers(g) PROVE Rest
  <2>1. TypeOK'
    BY <1>30, <1>b, <1>d, ListTypes DEF TypeOK, Labels, AddNewUsers, At, Goto,
       Exit, AddUsersOk, AddUsersFails, Monitor!ExecuteOk
  <2>2. MonitorLocals' /\ NothingBeforeStart' /\ ReloadsExclude'
    BY <1>30, <1>c, <1>d DEF TypeOK, MonitorLocals, NothingBeforeStart,
       ReloadsExclude, Reloading, AddNewUsers, At, Goto, Exit, AddUsersOk,
       AddUsersFails, Monitor!ExecuteOk
  <2> QED BY <2>1, <2>2
<1>31. ASSUME NEW g \in Loops, CommitUsers(g) PROVE Rest
  <2>1. TypeOK'
    BY <1>31, <1>b, <1>d, ListTypes DEF TypeOK, Labels, MonitorLocals,
       CommitUsers, At, Exit, Monitor!ExecuteOk
  <2>2. MonitorLocals' /\ NothingBeforeStart' /\ ReloadsExclude'
    BY <1>31, <1>c, <1>d DEF TypeOK, MonitorLocals, NothingBeforeStart,
       ReloadsExclude, Reloading, CommitUsers, At, Exit, Monitor!ExecuteOk
  <2> QED BY <2>1, <2>2
<1>r. Rest
  BY <1>1, <1>2, <1>3, <1>4, <1>5, <1>6, <1>7, <1>8, <1>9, <1>10, <1>11,
     <1>12, <1>13, <1>14, <1>15, <1>16, <1>17, <1>18, <1>19, <1>20, <1>21,
     <1>22, <1>23, <1>24, <1>25, <1>26, <1>27, <1>28, <1>29, <1>30, <1>31 DEF
     Next, Renew, MonitorStep
<1> QED BY <1>r, <1>a DEF ControllerIInv

(* The inductive invariant holds in every reachable state.                 *)
LEMMA ControllerInvariant == Spec => []ControllerIInv
<1>1. Init => ControllerIInv
  BY ControllerInit
<1>2. ControllerIInv /\ [Next]_vars => ControllerIInv'
  BY ControllerStep
<1> QED
  BY <1>1, <1>2, PTL DEF Spec

(* The monitor of a controller implements Task: it starts as a task does,  *)
(* and a step of the controller is a step of the task or leaves it alone   *)
(* (the end of the process, panicked, is the controller's own).            *)
THEOREM ControllerImplementsTask ==
    Spec => /\ Monitor!TaskInit
            /\ [][Monitor!TaskNext]_<<running, stop, closed, pc, waitOn>>
<1>1. Init => Monitor!TaskInit
  BY DEF Init
<1>2. ASSUME ControllerIInv, [Next]_vars
      PROVE  [Monitor!TaskNext]_<<running, stop, closed, pc, waitOn>>
  <2>1. TaskMoves \/ TaskCrashes
    BY <1>2, TaskStepOrCrash DEF ControllerIInv
  <2> QED BY <2>1 DEF TaskMoves, TaskCrashes, taskVars, Monitor!TaskNext, Monitor!Loop
<1> QED BY <1>1, <1>2, ControllerInvariant, PTL DEF Spec

(* So the loops of the monitor, with all the controller's steps between    *)
(* theirs, keep what Task promises: Close reaches every loop, and a task   *)
(* that is marked running has the loop of its last Start.                  *)
THEOREM ControllerMonitorServed ==
    Spec => [](Monitor!CloseReachesEveryLoop /\ Monitor!RunningTaskIsServed)
<1>1. ControllerIInv => Monitor!CloseReachesEveryLoop /\ Monitor!RunningTaskIsServed
  BY DEF ControllerIInv, TP!TaskIInv, TP!CloseReachesEveryLoop,
     TP!RunningTaskIsServed, Monitor!CloseReachesEveryLoop, Monitor!RunningTaskIsServed
<1> QED BY <1>1, ControllerInvariant, PTL

(* The controller's state keeps its type under every fault.                *)
THEOREM ControllerTypeCorrect == Spec => []TypeOK
<1>1. ControllerIInv => TypeOK
  BY DEF ControllerIInv
<1> QED
  BY <1>1, ControllerInvariant, PTL

(* For any number of overlapping monitor loops, and with the renewal and   *)
(* Close at any moment, at most one reload is between DelNode and AddNode. *)
THEOREM ControllerReloadsExclude == Spec => []ReloadsExclude
<1>1. ControllerIInv => ReloadsExclude
  BY DEF ControllerIInv
<1> QED
  BY <1>1, ControllerInvariant, PTL

----------------------------------------------------------------------------
(* When every configuration asks for the same interval the task is never   *)
(* restarted, and the monitor is a single thread.                          *)
FixedInterval == \A c, d \in Configs : PullInterval[c] = PullInterval[d]

OneLoop ==
    /\ \A g \in Loops : pc[g] # "idle" => g = stop
    /\ \A g \in Loops : at[g] # "idle" => pc[g] = "exec"
    /\ \A g \in Loops : at[g] \notin {"restart", "return"}
    /\ stop # NoLoop => \A c \in Configs : interval = PullInterval[c]

(* A reload works on c.info, a user update on the difference between       *)
(* c.userList and the list it fetched: nobody changed them meanwhile.      *)
LocalsCurrent ==
    \A g \in Loops :
        /\ at[g] \in {"delNode", "cert", "addNode", "addUsers", "interval"}
              => newN[g] = info
        /\ at[g] \in {"delUsers", "addDelta", "commit"}
              => /\ del[g] = Deleted(userList, newU[g])
                 /\ add[g] = Added(userList, newU[g])

SingleIInv == OneLoop /\ LocalsCurrent /\ NodeMatchesInfo

(* The initial states satisfy the single-thread invariant.                 *)
LEMMA SingleInit == Init => SingleIInv /\ LimiterTracksUserList
BY ControllerAssumption
   DEF Init, SingleIInv, OneLoop, LocalsCurrent, NodeMatchesInfo,
       LimiterTracksUserList, Monitor!TaskInit

(* Every step preserves it, and with it what the limiter knows.            *)
LEMMA SingleStep ==
    ASSUME FixedInterval, ControllerIInv, SingleIInv, [Next]_vars
    PROVE  /\ SingleIInv'
           /\ Named = FALSE /\ LimiterTracksUserList => LimiterTracksUserList'
<1> USE ControllerAssumption
        DEF panelVars, clientVars, ctlVars, limVars, coreVars, locals, taskVars
<1>a. TypeOK /\ MonitorLocals /\ NothingBeforeStart
  BY DEF ControllerIInv
<1>b. /\ pc \in [Loops -> Monitor!PCs] /\ running \in BOOLEAN
      /\ lc = "new" => \A g \in Loops : pc[g] = "idle"
      /\ stop = NoLoop => \A g \in Loops : pc[g] = "idle"
      /\ \A g \in Loops : pc[g] # "idle" => stop # NoLoop
  BY <1>a DEF ControllerIInv, TypeOK, NothingBeforeStart, TP!TaskIInv,
     TP!ChannelOpenWhileRunning, Monitor!TaskTypeOK
<1>c. OneLoop /\ LocalsCurrent /\ NodeMatchesInfo
  BY DEF SingleIInv
<1>d. \A g, h \in Loops : at[g] # "idle" /\ at[h] # "idle" => g = h
  BY <1>c DEF OneLoop
<1> DEFINE Rest == /\ OneLoop' /\ LocalsCurrent' /\ NodeMatchesInfo'
                   /\ Named = FALSE /\ LimiterTracksUserList => LimiterTracksUserList'
<1>1. ASSUME UNCHANGED vars PROVE Rest
  <2>1. OneLoop'
    BY <1>1, <1>a, <1>b, <1>c DEF TypeOK, Monitor!PCs, OneLoop, vars
  <2>2. LocalsCurrent'
    BY <1>1, <1>a, <1>c, <1>d DEF TypeOK, LocalsCurrent, vars
  <2>3. NodeMatchesInfo'
    BY <1>1, <1>a, <1>c, <1>d DEF TypeOK, LocalsCurrent, NodeMatchesInfo, vars
  <2>4. Named = FALSE /\ LimiterTracksUserList => LimiterTracksUserList'
    BY <1>1, <1>a, <1>c, <1>d DEF TypeOK, LimiterTracksUserList, SpeedOf, vars
  <2> QED BY <2>1, <2>2, <2>3, <2>4
<1>2. ASSUME NEW c \in Configs, PanelSetNode(c) PROVE Rest
  <2>1. OneLoop'
    BY <1>2, <1>a, <1>b, <1>c DEF TypeOK, Monitor!PCs, OneLoop, PanelSetNode
  <2>2. LocalsCurrent'
    BY <1>2, <1>a, <1>c, <1>d DEF TypeOK, LocalsCurrent, PanelSetNode
  <2>3. NodeMatchesInfo'
    BY <1>2, <1>a, <1>c, <1>d DEF TypeOK, LocalsCurrent, NodeMatchesInfo,
       PanelSetNode
  <2>4. Named = FALSE /\ LimiterTracksUserList => LimiterTracksUserList'
    BY <1>2, <1>a, <1>c, <1>d DEF TypeOK, LimiterTracksUserList, SpeedOf,
       PanelSetNode
  <2> QED BY <2>1, <2>2, <2>3, <2>4
<1>3. ASSUME NEW l \in UserLists, PanelSetUsers(l) PROVE Rest
  <2>1. OneLoop'
    BY <1>3, <1>a, <1>b, <1>c DEF TypeOK, Monitor!PCs, OneLoop, PanelSetUsers
  <2>2. LocalsCurrent'
    BY <1>3, <1>a, <1>c, <1>d DEF TypeOK, LocalsCurrent, PanelSetUsers
  <2>3. NodeMatchesInfo'
    BY <1>3, <1>a, <1>c, <1>d DEF TypeOK, LocalsCurrent, NodeMatchesInfo,
       PanelSetUsers
  <2>4. Named = FALSE /\ LimiterTracksUserList => LimiterTracksUserList'
    BY <1>3, <1>a, <1>c, <1>d DEF TypeOK, LimiterTracksUserList, SpeedOf,
       PanelSetUsers
  <2> QED BY <2>1, <2>2, <2>3, <2>4
<1>4. ASSUME NEW g \in Loops, StartOk(g) PROVE Rest
  <2>1. OneLoop'
    BY <1>4, <1>a, <1>b, <1>c DEF TypeOK, Monitor!PCs, OneLoop, FixedInterval,
       NothingBeforeStart, StartOk, Monitor!Start
  <2>2. LocalsCurrent'
    BY <1>4, <1>a, <1>c, <1>d DEF TypeOK, LocalsCurrent, NothingBeforeStart,
       StartOk, Monitor!Start
  <2>3. NodeMatchesInfo'
    BY <1>4, <1>a, <1>c, <1>d DEF TypeOK, LocalsCurrent, NodeMatchesInfo,
       NothingBeforeStart, StartOk, Monitor!Start
  <2>4. Named = FALSE /\ LimiterTracksUserList => LimiterTracksUserList'
    BY <1>4, <1>a, <1>c, <1>d DEF TypeOK, LimiterTracksUserList, SpeedOf,
       NothingBeforeStart, StartOk, Monitor!Start
  <2> QED BY <2>1, <2>2, <2>3, <2>4
<1>5. ASSUME NEW i \in 1 .. 7, StartFails(i) PROVE Rest
  <2>1. OneLoop'
    BY <1>5, <1>a, <1>b, <1>c DEF TypeOK, Monitor!PCs, OneLoop,
       NothingBeforeStart, StartFails
  <2>2. LocalsCurrent'
    BY <1>5, <1>a, <1>c, <1>d DEF TypeOK, LocalsCurrent, NothingBeforeStart,
       StartFails
  <2>3. NodeMatchesInfo'
    BY <1>5, <1>a, <1>c, <1>d DEF TypeOK, LocalsCurrent, NodeMatchesInfo,
       NothingBeforeStart, StartFails
  <2>4. Named = FALSE /\ LimiterTracksUserList => LimiterTracksUserList'
    <3>1. lc = "new" /\ lim = Empty /\ userList = Empty
      BY <1>5, <1>a DEF NothingBeforeStart, StartFails
    <3>2. CASE i \in {1, 2}
      BY <1>5, <3>1, <3>2 DEF LimiterTracksUserList, StartFails
    <3>3. CASE i = 3
      <4>1. \A u \in Users : pUsers[u] = NoPlan
        BY <1>5, <3>3 DEF StartFails, StageFails, Stages, Listed
      <4> QED
        BY <1>5, <3>1, <3>3, <4>1 DEF LimiterTracksUserList, SpeedOf, Empty, StartFails
    <3>4. CASE i = 4
      BY <1>5, <3>4 DEF LimiterTracksUserList, StartFails, Stages
    <3>5. CASE i \in 5 .. 7
      BY <1>5, <3>5 DEF LimiterTracksUserList, StartFails
    <3>6. i \in {1, 2} \/ i = 3 \/ i = 4 \/ i \in 5 .. 7
      OBVIOUS
    <3> QED BY <3>2, <3>3, <3>4, <3>5, <3>6
  <2> QED BY <2>1, <2>2, <2>3, <2>4
<1>6. ASSUME CloseTasks PROVE Rest
  <2>1. OneLoop'
    BY <1>6, <1>a, <1>b, <1>c DEF TypeOK, Monitor!PCs, OneLoop, CloseTasks,
       Monitor!Close
  <2>2. LocalsCurrent'
    BY <1>6, <1>a, <1>c, <1>d DEF TypeOK, LocalsCurrent, CloseTasks,
       Monitor!Close
  <2>3. NodeMatchesInfo'
    BY <1>6, <1>a, <1>c, <1>d DEF TypeOK, LocalsCurrent, NodeMatchesInfo,
       CloseTasks, Monitor!Close
  <2>4. Named = FALSE /\ LimiterTracksUserList => LimiterTracksUserList'
    BY <1>6, <1>a, <1>c, <1>d DEF TypeOK, LimiterTracksUserList, SpeedOf,
       CloseTasks, Monitor!Close
  <2> QED BY <2>1, <2>2, <2>3, <2>4
<1>7. ASSUME CloseNode PROVE Rest
  <2>1. OneLoop'
    BY <1>7, <1>a, <1>b, <1>c DEF TypeOK, Monitor!PCs, OneLoop, CloseNode,
       DelNode
  <2>2. LocalsCurrent'
    BY <1>7, <1>a, <1>c, <1>d DEF TypeOK, LocalsCurrent, CloseNode, DelNode
  <2>3. NodeMatchesInfo'
    BY <1>7, <1>a, <1>c, <1>d DEF TypeOK, LocalsCurrent, NodeMatchesInfo,
       CloseNode, DelNode
  <2>4. Named = FALSE /\ LimiterTracksUserList => LimiterTracksUserList'
    BY <1>7, <1>a, <1>c, <1>d DEF TypeOK, LimiterTracksUserList, SpeedOf,
       CloseNode, DelNode
  <2> QED BY <2>1, <2>2, <2>3, <2>4
<1>8. ASSUME RenewCheck PROVE Rest
  <2>1. OneLoop'
    BY <1>8, <1>a, <1>b, <1>c DEF TypeOK, Monitor!PCs, OneLoop, RenewCheck
  <2>2. LocalsCurrent'
    BY <1>8, <1>a, <1>c, <1>d DEF TypeOK, LocalsCurrent, RenewCheck
  <2>3. NodeMatchesInfo'
    BY <1>8, <1>a, <1>c, <1>d DEF TypeOK, LocalsCurrent, NodeMatchesInfo,
       RenewCheck
  <2>4. Named = FALSE /\ LimiterTracksUserList => LimiterTracksUserList'
    BY <1>8, <1>a, <1>c, <1>d DEF TypeOK, LimiterTracksUserList, SpeedOf,
       RenewCheck
  <2> QED BY <2>1, <2>2, <2>3, <2>4
<1>9. ASSUME RenewDel PROVE Rest
  <2>1. OneLoop'
    BY <1>9, <1>a, <1>b, <1>c DEF TypeOK, Monitor!PCs, OneLoop, RenewDel,
       DelNode
  <2>2. LocalsCurrent'
    BY <1>9, <1>a, <1>c, <1>d DEF TypeOK, LocalsCurrent, RenewDel, DelNode
  <2>3. NodeMatchesInfo'
    BY <1>9, <1>a, <1>c, <1>d DEF TypeOK, LocalsCurrent, NodeMatchesInfo,
       RenewDel, DelNode
  <2>4. Named = FALSE /\ LimiterTracksUserList => LimiterTracksUserList'
    BY <1>9, <1>a, <1>c, <1>d DEF TypeOK, LimiterTracksUserList, SpeedOf,
       RenewDel, DelNode
  <2> QED BY <2>1, <2>2, <2>3, <2>4
<1>10. ASSUME RenewAdd PROVE Rest
  <2>1. OneLoop'
    BY <1>10, <1>a, <1>b, <1>c DEF TypeOK, Monitor!PCs, OneLoop, RenewAdd,
       AddNode
  <2>2. LocalsCurrent'
    BY <1>10, <1>a, <1>c, <1>d DEF TypeOK, LocalsCurrent, RenewAdd, AddNode
  <2>3. NodeMatchesInfo'
    BY <1>10, <1>a, <1>c, <1>d DEF TypeOK, LocalsCurrent, NodeMatchesInfo,
       RenewAdd, AddNode
  <2>4. Named = FALSE /\ LimiterTracksUserList => LimiterTracksUserList'
    BY <1>10, <1>a, <1>c, <1>d DEF TypeOK, LimiterTracksUserList, SpeedOf,
       RenewAdd, AddNode
  <2> QED BY <2>1, <2>2, <2>3, <2>4
<1>11. ASSUME RenewUsers PROVE Rest
  <2>1. OneLoop'
    BY <1>11, <1>a, <1>b, <1>c DEF TypeOK, Monitor!PCs, OneLoop, RenewUsers,
       AddUsersOk, AddUsersFails
  <2>2. LocalsCurrent'
    BY <1>11, <1>a, <1>c, <1>d DEF TypeOK, LocalsCurrent, RenewUsers,
       AddUsersOk, AddUsersFails
  <2>3. NodeMatchesInfo'
    BY <1>11, <1>a, <1>c, <1>d DEF TypeOK, LocalsCurrent, NodeMatchesInfo,
       RenewUsers, AddUsersOk, AddUsersFails
  <2>4. Named = FALSE /\ LimiterTracksUserList => LimiterTracksUserList'
    BY <1>11, <1>a, <1>c, <1>d DEF TypeOK, LimiterTracksUserList, SpeedOf,
       RenewUsers, AddUsersOk, AddUsersFails
  <2> QED BY <2>1, <2>2, <2>3, <2>4
<1>12. ASSUME RenewStopped PROVE Rest
  <2>1. OneLoop'
    BY <1>12, <1>a, <1>b, <1>c DEF TypeOK, Monitor!PCs, OneLoop, RenewStopped
  <2>2. LocalsCurrent'
    BY <1>12, <1>a, <1>c, <1>d DEF TypeOK, LocalsCurrent, RenewStopped
  <2>3. NodeMatchesInfo'
    BY <1>12, <1>a, <1>c, <1>d DEF TypeOK, LocalsCurrent, NodeMatchesInfo,
       RenewStopped
  <2>4. Named = FALSE /\ LimiterTracksUserList => LimiterTracksUserList'
    BY <1>12, <1>a, <1>c, <1>d DEF TypeOK, LimiterTracksUserList, SpeedOf,
       RenewStopped
  <2> QED BY <2>1, <2>2, <2>3, <2>4
<1>13. ASSUME NEW g \in Loops, Wake(g) PROVE Rest
  <2>1. OneLoop'
    BY <1>13, <1>a, <1>b, <1>c DEF TypeOK, Monitor!PCs, OneLoop, Wake,
       Monitor!Tick
  <2>2. LocalsCurrent'
    BY <1>13, <1>a, <1>c, <1>d DEF TypeOK, LocalsCurrent, Wake, Monitor!Tick
  <2>3. NodeMatchesInfo'
    BY <1>13, <1>a, <1>c, <1>d DEF TypeOK, LocalsCurrent, NodeMatchesInfo,
       OneLoop, Wake, Monitor!Tick
  <2>4. Named = FALSE /\ LimiterTracksUserList => LimiterTracksUserList'
    BY <1>13, <1>a, <1>c, <1>d DEF TypeOK, LimiterTracksUserList, SpeedOf,
       OneLoop, Wake, Monitor!Tick
  <2> QED BY <2>1, <2>2, <2>3, <2>4
<1>14. ASSUME NEW g \in Loops, Sleep(g) PROVE Rest
  <2>1. OneLoop'
    BY <1>14, <1>a, <1>b, <1>c DEF TypeOK, Monitor!PCs, OneLoop, Sleep,
       Monitor!Select, Monitor!Stopped
  <2>2. LocalsCurrent'
    BY <1>14, <1>a, <1>c, <1>d DEF TypeOK, LocalsCurrent, Sleep,
       Monitor!Select, Monitor!Stopped
  <2>3. NodeMatchesInfo'
    BY <1>14, <1>a, <1>c, <1>d DEF TypeOK, LocalsCurrent, NodeMatchesInfo,
       Sleep, Monitor!Select, Monitor!Stopped
  <2>4. Named = FALSE /\ LimiterTracksUserList => LimiterTracksUserList'
    BY <1>14, <1>a, <1>c, <1>d DEF TypeOK, LimiterTracksUserList, SpeedOf,
       Sleep, Monitor!Select, Monitor!Stopped
  <2> QED BY <2>1, <2>2, <2>3, <2>4
<1>15. ASSUME NEW g \in Loops, FetchNodeOk(g) PROVE Rest
  <2>1. OneLoop'
    BY <1>15, <1>a, <1>b, <1>c DEF TypeOK, Monitor!PCs, OneLoop, FetchNodeOk,
       At, Goto
  <2>2. LocalsCurrent'
    BY <1>15, <1>a, <1>c, <1>d DEF TypeOK, LocalsCurrent, FetchNodeOk, At,
       Goto
  <2>3. NodeMatchesInfo'
    BY <1>15, <1>a, <1>c, <1>d DEF TypeOK, LocalsCurrent, NodeMatchesInfo,
       FetchNodeOk, At, Goto
  <2>4. Named = FALSE /\ LimiterTracksUserList => LimiterTracksUserList'
    BY <1>15, <1>a, <1>c, <1>d DEF TypeOK, LimiterTracksUserList, SpeedOf,
       FetchNodeOk, At, Goto
  <2> QED BY <2>1, <2>2, <2>3, <2>4
<1>16. ASSUME NEW g \in Loops, FetchNodeFails(g) PROVE Rest
  <2>1. OneLoop'
    BY <1>16, <1>a, <1>b, <1>c DEF TypeOK, Monitor!PCs, OneLoop,
       FetchNodeFails, At, Exit, Monitor!ExecuteOk
  <2>2. LocalsCurrent'
    BY <1>16, <1>a, <1>c, <1>d DEF TypeOK, LocalsCurrent, FetchNodeFails, At,
       Exit, Monitor!ExecuteOk
  <2>3. NodeMatchesInfo'
    BY <1>16, <1>a, <1>c, <1>d DEF TypeOK, LocalsCurrent, NodeMatchesInfo,
       FetchNodeFails, At, Exit, Monitor!ExecuteOk
  <2>4. Named = FALSE /\ LimiterTracksUserList => LimiterTracksUserList'
    BY <1>16, <1>a, <1>c, <1>d DEF TypeOK, LimiterTracksUserList, SpeedOf,
       FetchNodeFails, At, Exit, Monitor!ExecuteOk
  <2> QED BY <2>1, <2>2, <2>3, <2>4
<1>17. ASSUME NEW g \in Loops, FetchNodeGarbled(g) PROVE Rest
  <2>1. OneLoop'
    BY <1>17, <1>a, <1>b, <1>c DEF TypeOK, Monitor!PCs, OneLoop,
       FetchNodeGarbled, At, Exit, Monitor!ExecuteOk
  <2>2. LocalsCurrent'
    BY <1>17, <1>a, <1>c, <1>d DEF TypeOK, LocalsCurrent, FetchNodeGarbled,
       At, Exit, Monitor!ExecuteOk
  <2>3. NodeMatchesInfo'
    BY <1>17, <1>a, <1>c, <1>d DEF TypeOK, LocalsCurrent, NodeMatchesInfo,
       FetchNodeGarbled, At, Exit, Monitor!ExecuteOk
  <2>4. Named = FALSE /\ LimiterTracksUserList => LimiterTracksUserList'
    BY <1>17, <1>a, <1>c, <1>d DEF TypeOK, LimiterTracksUserList, SpeedOf,
       FetchNodeGarbled, At, Exit, Monitor!ExecuteOk
  <2> QED BY <2>1, <2>2, <2>3, <2>4
<1>18. ASSUME NEW g \in Loops, FetchUsersOk(g) PROVE Rest
  <2>1. OneLoop'
    BY <1>18, <1>a, <1>b, <1>c DEF TypeOK, Monitor!PCs, OneLoop, FetchUsersOk,
       At, Goto
  <2>2. LocalsCurrent'
    BY <1>18, <1>a, <1>c, <1>d DEF TypeOK, LocalsCurrent, FetchUsersOk, At,
       Goto
  <2>3. NodeMatchesInfo'
    BY <1>18, <1>a, <1>c, <1>d DEF TypeOK, LocalsCurrent, NodeMatchesInfo,
       FetchUsersOk, At, Goto
  <2>4. Named = FALSE /\ LimiterTracksUserList => LimiterTracksUserList'
    BY <1>18, <1>a, <1>c, <1>d DEF TypeOK, LimiterTracksUserList, SpeedOf,
       FetchUsersOk, At, Goto
  <2> QED BY <2>1, <2>2, <2>3, <2>4
<1>19. ASSUME NEW g \in Loops, FetchUsersFails(g) PROVE Rest
  <2>1. OneLoop'
    BY <1>19, <1>a, <1>b, <1>c DEF TypeOK, Monitor!PCs, OneLoop,
       FetchUsersFails, At, Exit, Monitor!ExecuteOk
  <2>2. LocalsCurrent'
    BY <1>19, <1>a, <1>c, <1>d DEF TypeOK, LocalsCurrent, FetchUsersFails, At,
       Exit, Monitor!ExecuteOk
  <2>3. NodeMatchesInfo'
    BY <1>19, <1>a, <1>c, <1>d DEF TypeOK, LocalsCurrent, NodeMatchesInfo,
       FetchUsersFails, At, Exit, Monitor!ExecuteOk
  <2>4. Named = FALSE /\ LimiterTracksUserList => LimiterTracksUserList'
    BY <1>19, <1>a, <1>c, <1>d DEF TypeOK, LimiterTracksUserList, SpeedOf,
       FetchUsersFails, At, Exit, Monitor!ExecuteOk
  <2> QED BY <2>1, <2>2, <2>3, <2>4
<1>20. ASSUME NEW g \in Loops, AdoptNode(g) PROVE Rest
  <2>1. OneLoop'
    BY <1>20, <1>a, <1>b, <1>c DEF TypeOK, Monitor!PCs, OneLoop, AdoptNode,
       At, Goto
  <2>2. LocalsCurrent'
    BY <1>20, <1>a, <1>c, <1>d DEF TypeOK, LocalsCurrent, AdoptNode, At, Goto
  <2>3. NodeMatchesInfo'
    BY <1>20, <1>a, <1>c, <1>d DEF TypeOK, LocalsCurrent, NodeMatchesInfo,
       AdoptNode, At, Goto
  <2>4. Named = FALSE /\ LimiterTracksUserList => LimiterTracksUserList'
    BY <1>20, <1>a, <1>c, <1>d DEF TypeOK, LimiterTracksUserList, SpeedOf,
       AdoptNode, At, Goto
  <2> QED BY <2>1, <2>2, <2>3, <2>4
<1>21. ASSUME NEW g \in Loops, RemoveNode(g) PROVE Rest
  <2>1. OneLoop'
    BY <1>21, <1>a, <1>b, <1>c DEF TypeOK, Monitor!PCs, OneLoop, RemoveNode,
       At, Goto, Crash, DelNode
  <2>2. LocalsCurrent'
    BY <1>21, <1>a, <1>c, <1>d DEF TypeOK, LocalsCurrent, RemoveNode, At,
       Goto, Crash, DelNode
  <2>3. NodeMatchesInfo'
    BY <1>21, <1>a, <1>c, <1>d DEF TypeOK, LocalsCurrent, NodeMatchesInfo,
       RemoveNode, At, Goto, Crash, DelNode
  <2>4. Named = FALSE /\ LimiterTracksUserList => LimiterTracksUserList'
    BY <1>21, <1>a, <1>c, <1>d DEF TypeOK, LimiterTracksUserList, SpeedOf,
       RemoveNode, At, Goto, Crash, DelNode
  <2> QED BY <2>1, <2>2, <2>3, <2>4
<1>22. ASSUME NEW g \in Loops, Cert(g) PROVE Rest
  <2>1. OneLoop'
    BY <1>22, <1>a, <1>b, <1>c DEF TypeOK, Monitor!PCs, OneLoop, Cert, At,
       Goto, Exit, Monitor!ExecuteOk
  <2>2. LocalsCurrent'
    BY <1>22, <1>a, <1>c, <1>d DEF TypeOK, LocalsCurrent, Cert, At, Goto,
       Exit, Monitor!ExecuteOk
  <2>3. NodeMatchesInfo'
    BY <1>22, <1>a, <1>c, <1>d DEF TypeOK, LocalsCurrent, NodeMatchesInfo,
       Cert, At, Goto, Exit, Monitor!ExecuteOk
  <2>4. Named = FALSE /\ LimiterTracksUserList => LimiterTracksUserList'
    BY <1>22, <1>a, <1>c, <1>d DEF TypeOK, LimiterTracksUserList, SpeedOf,
       Cert, At, Goto, Exit, Monitor!ExecuteOk
  <2> QED BY <2>1, <2>2, <2>3, <2>4
<1>23. ASSUME NEW g \in Loops, ReplaceNode(g) PROVE Rest
  <2>1. OneLoop'
    BY <1>23, <1>a, <1>b, <1>c DEF TypeOK, Monitor!PCs, OneLoop, ReplaceNode,
       At, Goto, Crash, AddNode
  <2>2. LocalsCurrent'
    BY <1>23, <1>a, <1>c, <1>d DEF TypeOK, LocalsCurrent, ReplaceNode, At,
       Goto, Crash, AddNode
  <2>3. NodeMatchesInfo'
    BY <1>23, <1>a, <1>c, <1>d DEF TypeOK, LocalsCurrent, NodeMatchesInfo,
       ReplaceNode, At, Goto, Crash, AddNode
  <2>4. Named = FALSE /\ LimiterTracksUserList => LimiterTracksUserList'
    BY <1>23, <1>a, <1>c, <1>d DEF TypeOK, LimiterTracksUserList, SpeedOf,
       ReplaceNode, At, Goto, Crash, AddNode
  <2> QED BY <2>1, <2>2, <2>3, <2>4
<1>24. ASSUME NEW g \in Loops, RefillUsers(g) PROVE Rest
  <2>1. OneLoop'
    BY <1>24, <1>a, <1>b, <1>c DEF TypeOK, Monitor!PCs, OneLoop, RefillUsers,
       At, Goto, Exit, AddUsersOk, AddUsersFails, Monitor!ExecuteOk
  <2>2. LocalsCurrent'
    BY <1>24, <1>a, <1>c, <1>d DEF TypeOK, LocalsCurrent, RefillUsers, At,
       Goto, Exit, AddUsersOk, AddUsersFails, Monitor!ExecuteOk
  <2>3. NodeMatchesInfo'
    BY <1>24, <1>a, <1>c, <1>d DEF TypeOK, LocalsCurrent, NodeMatchesInfo,
       RefillUsers, At, Goto, Exit, AddUsersOk, AddUsersFails,
       Monitor!ExecuteOk
  <2>4. Named = FALSE /\ LimiterTracksUserList => LimiterTracksUserList'
    BY <1>24, <1>a, <1>c, <1>d DEF TypeOK, LimiterTracksUserList, SpeedOf,
       RefillUsers, At, Goto, Exit, AddUsersOk, AddUsersFails,
       Monitor!ExecuteOk
  <2> QED BY <2>1, <2>2, <2>3, <2>4
<1>25. ASSUME NEW g \in Loops, CheckInterval(g) PROVE Rest
  <2>1. OneLoop'
    BY <1>25, <1>a, <1>b, <1>c DEF TypeOK, Monitor!PCs, OneLoop,
       FixedInterval, MonitorLocals, CheckInterval, At, Exit,
       Monitor!ExecuteOk, Monitor!Close
  <2>2. LocalsCurrent'
    BY <1>25, <1>a, <1>c, <1>d DEF TypeOK, LocalsCurrent, CheckInterval, At,
       Exit, Monitor!ExecuteOk, Monitor!Close
  <2>3. NodeMatchesInfo'
    BY <1>25, <1>a, <1>c, <1>d DEF TypeOK, LocalsCurrent, NodeMatchesInfo,
       CheckInterval, At, Exit, Monitor!ExecuteOk, Monitor!Close
  <2>4. Named = FALSE /\ LimiterTracksUserList => LimiterTracksUserList'
    BY <1>25, <1>a, <1>c, <1>d DEF TypeOK, LimiterTracksUserList, SpeedOf,
       CheckInterval, At, Exit, Monitor!ExecuteOk, Monitor!Close
  <2> QED BY <2>1, <2>2, <2>3, <2>4
<1>26. ASSUME NEW g \in Loops, Restart(g) PROVE Rest
  <2>1. OneLoop'
    BY <1>26, <1>a, <1>b, <1>c DEF TypeOK, Monitor!PCs, OneLoop, Restart, At,
       Monitor!Start
  <2>2. LocalsCurrent'
    BY <1>26, <1>a, <1>c, <1>d DEF TypeOK, LocalsCurrent, Restart, At,
       Monitor!Start
  <2>3. NodeMatchesInfo'
    BY <1>26, <1>a, <1>c, <1>d DEF TypeOK, LocalsCurrent, NodeMatchesInfo,
       Restart, At, Monitor!Start
  <2>4. Named = FALSE /\ LimiterTracksUserList => LimiterTracksUserList'
    BY <1>26, <1>a, <1>c, <1>d DEF TypeOK, LimiterTracksUserList, SpeedOf,
       Restart, At, Monitor!Start
  <2> QED BY <2>1, <2>2, <2>3, <2>4
<1>27. ASSUME NEW g \in Loops, Return(g) PROVE Rest
  <2>1. OneLoop'
    BY <1>27, <1>a, <1>b, <1>c DEF TypeOK, Monitor!PCs, OneLoop, Return, At,
       Exit, Monitor!ExecuteOk
  <2>2. LocalsCurrent'
    BY <1>27, <1>a, <1>c, <1>d DEF TypeOK, LocalsCurrent, Return, At, Exit,
       Monitor!ExecuteOk
  <2>3. NodeMatchesInfo'
    BY <1>27, <1>a, <1>c, <1>d DEF TypeOK, LocalsCurrent, NodeMatchesInfo,
       Return, At, Exit, Monitor!ExecuteOk
  <2>4. Named = FALSE /\ LimiterTracksUserList => LimiterTracksUserList'
    BY <1>27, <1>a, <1>c, <1>d DEF TypeOK, LimiterTracksUserList, SpeedOf,
       Return, At, Exit, Monitor!ExecuteOk
  <2> QED BY <2>1, <2>2, <2>3, <2>4
<1>28. ASSUME NEW g \in Loops, CompareUsers(g) PROVE Rest
  <2>1. OneLoop'
    BY <1>28, <1>a, <1>b, <1>c DEF TypeOK, Monitor!PCs, OneLoop, CompareUsers,
       At, Goto, Exit, Monitor!ExecuteOk
  <2>2. LocalsCurrent'
    BY <1>28, <1>a, <1>c, <1>d DEF TypeOK, LocalsCurrent, CompareUsers, At,
       Goto, Exit, Monitor!ExecuteOk
  <2>3. NodeMatchesInfo'
    BY <1>28, <1>a, <1>c, <1>d DEF TypeOK, LocalsCurrent, NodeMatchesInfo,
       CompareUsers, At, Goto, Exit, Monitor!ExecuteOk
  <2>4. Named = FALSE /\ LimiterTracksUserList => LimiterTracksUserList'
    BY <1>28, <1>a, <1>c, <1>d DEF TypeOK, LimiterTracksUserList, SpeedOf,
       CompareUsers, At, Goto, Exit, Monitor!ExecuteOk
  <2> QED BY <2>1, <2>2, <2>3, <2>4
<1>29. ASSUME NEW g \in Loops, RemoveUsers(g) PROVE Rest
  <2>1. OneLoop'
    BY <1>29, <1>a, <1>b, <1>c DEF TypeOK, Monitor!PCs, OneLoop, RemoveUsers,
       At, Goto, Exit, DelUsersOk, DelUsersFails, Monitor!ExecuteOk
  <2>2. LocalsCurrent'
    BY <1>29, <1>a, <1>c, <1>d DEF TypeOK, LocalsCurrent, RemoveUsers, At,
       Goto, Exit, DelUsersOk, DelUsersFails, Monitor!ExecuteOk
  <2>3. NodeMatchesInfo'
    BY <1>29, <1>a, <1>c, <1>d DEF TypeOK, LocalsCurrent, NodeMatchesInfo,
       RemoveUsers, At, Goto, Exit, DelUsersOk, DelUsersFails,
       Monitor!ExecuteOk
  <2>4. Named = FALSE /\ LimiterTracksUserList => LimiterTracksUserList'
    BY <1>29, <1>a, <1>c, <1>d DEF TypeOK, LimiterTracksUserList, SpeedOf,
       RemoveUsers, At, Goto, Exit, DelUsersOk, DelUsersFails,
       Monitor!ExecuteOk
  <2> QED BY <2>1, <2>2, <2>3, <2>4
<1>30. ASSUME NEW g \in Loops, AddNewUsers(g) PROVE Rest
  <2>1. OneLoop'
    BY <1>30, <1>a, <1>b, <1>c DEF TypeOK, Monitor!PCs, OneLoop, AddNewUsers,
       At, Goto, Exit, AddUsersOk, AddUsersFails, Monitor!ExecuteOk
  <2>2. LocalsCurrent'
    BY <1>30, <1>a, <1>c, <1>d DEF TypeOK, LocalsCurrent, AddNewUsers, At,
       Goto, Exit, AddUsersOk, AddUsersFails, Monitor!ExecuteOk
  <2>3. NodeMatchesInfo'
    BY <1>30, <1>a, <1>c, <1>d DEF TypeOK, LocalsCurrent, NodeMatchesInfo,
       AddNewUsers, At, Goto, Exit, AddUsersOk, AddUsersFails,
       Monitor!ExecuteOk
  <2>4. Named = FALSE /\ LimiterTracksUserList => LimiterTracksUserList'
    BY <1>30, <1>a, <1>c, <1>d DEF TypeOK, LimiterTracksUserList, SpeedOf,
       AddNewUsers, At, Goto, Exit, AddUsersOk, AddUsersFails,
       Monitor!ExecuteOk
  <2> QED BY <2>1, <2>2, <2>3, <2>4
<1>31. ASSUME NEW g \in Loops, CommitUsers(g) PROVE Rest
  <2>1. OneLoop'
    BY <1>31, <1>a, <1>b, <1>c DEF TypeOK, Monitor!PCs, OneLoop, CommitUsers,
       At, Exit, Monitor!ExecuteOk
  <2>2. LocalsCurrent'
    BY <1>31, <1>a, <1>c, <1>d DEF TypeOK, LocalsCurrent, CommitUsers, At,
       Exit, Monitor!ExecuteOk
  <2>3. NodeMatchesInfo'
    BY <1>31, <1>a, <1>c, <1>d DEF TypeOK, LocalsCurrent, NodeMatchesInfo,
       CommitUsers, At, Exit, Monitor!ExecuteOk
  <2>4. Named = FALSE /\ LimiterTracksUserList => LimiterTracksUserList'
    <3> SUFFICES ASSUME LimiterTracksUserList, ~panicked', NEW u \in Users
                 PROVE  SpeedOf(lim', u) = SpeedOf(userList', u)
      BY DEF LimiterTracksUserList
    <3>1. lim' = UpdateUser(lim, newU[g], Added(userList, newU[g]),
                            Deleted(userList, newU[g]))
      BY <1>31, <1>c DEF LocalsCurrent, CommitUsers, At
    <3>2. userList' = newU[g] /\ newU[g] \in UserLists
      BY <1>31, <1>a DEF TypeOK, MonitorLocals, CommitUsers, At
    <3>3. \A v \in Users : SpeedOf(lim, v) = SpeedOf(userList, v)
      BY <1>31, <1>a, <1>d DEF TypeOK, LimiterTracksUserList, CommitUsers, At
    <3> QED
      BY <3>1, <3>2, <3>3, <1>a, UpdateUserTracks DEF TypeOK
  <2> QED BY <2>1, <2>2, <2>3, <2>4
<1>r. Rest
  BY <1>1, <1>2, <1>3, <1>4, <1>5, <1>6, <1>7, <1>8, <1>9, <1>10, <1>11,
     <1>12, <1>13, <1>14, <1>15, <1>16, <1>17, <1>18, <1>19, <1>20, <1>21,
     <1>22, <1>23, <1>24, <1>25, <1>26, <1>27, <1>28, <1>29, <1>30, <1>31 DEF
     Next, Renew, MonitorStep
<1> QED BY <1>r DEF SingleIInv

(* So it holds always.                                                     *)
LEMMA SingleInvariant == ASSUME FixedInterval PROVE Spec => []SingleIInv
<1>1. Init => SingleIInv
  BY SingleInit
<1>2. ControllerIInv /\ SingleIInv /\ [Next]_vars => SingleIInv'
  BY SingleStep
<1> QED BY <1>1, <1>2, ControllerInvariant, PTL DEF Spec

(* With one polling interval, the core serves no configuration but c.info, *)
(* whatever fails and whenever the renewal reloads the node.               *)
THEOREM ControllerNodeMatchesInfo ==
    ASSUME FixedInterval PROVE Spec => []NodeMatchesInfo
<1>1. SingleIInv => NodeMatchesInfo
  BY DEF SingleIInv
<1> QED
  BY <1>1, SingleInvariant, PTL

(* With one polling interval and no configured Name, the limiter knows the *)
(* users and speeds of c.userList, whatever calls fail along the way.      *)
THEOREM ControllerLimiterTracks ==
    ASSUME FixedInterval, Named = FALSE PROVE Spec => []LimiterTracksUserList
<1> DEFINE I == SingleIInv /\ LimiterTracksUserList
<1>1. Init => I
  BY SingleInit
<1>2. ControllerIInv /\ I /\ [Next]_vars => I'
  BY SingleStep
<1>3. I => LimiterTracksUserList
  OBVIOUS
<1> QED
  BY <1>1, <1>2, <1>3, ControllerInvariant, PTL DEF Spec

----------------------------------------------------------------------------
(* While the node stays up, no step disconnects a user whose uuid and      *)
(* speed limit the fetched list repeats, also when DelUsers or AddUsers    *)
(* fails half-way, the renewal reloads the node or Close removes it.       *)
Disconnects ==
    \A u \in coreUsers \ coreUsers' : node' = node =>
        \E g \in Loops : /\ at[g] = "delUsers" /\ newU[g] # NoList
                         /\ SpeedOf(newU[g], u) # SpeedOf(userList, u)

(* compareUserList deletes a user who left or whose speed changed.         *)
LEMMA DeletedHaveOtherSpeed ==
    ASSUME NEW old \in UserLists, NEW new \in UserLists, NEW u \in Deleted(old, new)
    PROVE  SpeedOf(new, u) # SpeedOf(old, u)
BY ControllerAssumption DEF UserLists, Deleted, Listed, SameKey, SpeedOf

(* A step that takes a user from the core removes the node or applies a    *)
(* list that treats the user differently.                                  *)
LEMMA StepDisconnects ==
    ASSUME ControllerIInv, SingleIInv, [Next]_vars
    PROVE  Disconnects
<1> USE ControllerAssumption DEF coreVars
<1>0. TypeOK /\ MonitorLocals /\ LocalsCurrent
  BY DEF ControllerIInv, SingleIInv
<1>1. CASE coreUsers \subseteq coreUsers' \/ node' # node
  BY <1>1 DEF Disconnects
<1>2. ASSUME NEW g \in Loops, RemoveUsers(g) PROVE Disconnects
  <2>1. /\ at[g] = "delUsers" /\ newU[g] \in UserLists /\ newU[g] # NoList
        /\ userList \in UserLists /\ del[g] = Deleted(userList, newU[g])
    BY <1>0, <1>2 DEF RemoveUsers, At, TypeOK, MonitorLocals, LocalsCurrent
  <2>2. \A u \in coreUsers \ coreUsers' : u \in del[g]
    BY <1>2 DEF RemoveUsers, DelUsersOk, DelUsersFails
  <2> QED BY <2>1, <2>2, DeletedHaveOtherSpeed DEF Disconnects
<1>3. ASSUME NEW g \in Loops, MonitorStep(g), ~RemoveUsers(g) PROVE Disconnects
  <2>1. coreUsers \subseteq coreUsers' \/ node' # node
    BY <1>3 DEF MonitorStep, Wake, Sleep, FetchNodeOk, FetchNodeFails,
       FetchNodeGarbled, FetchUsersOk, FetchUsersFails, AdoptNode, RemoveNode,
       Cert, ReplaceNode, RefillUsers, CheckInterval, Restart, Return,
       CompareUsers, AddNewUsers, CommitUsers, DelNode, AddNode, AddUsersOk,
       AddUsersFails
  <2> QED BY <2>1, <1>1
<1>4. CASE Renew
  <2>1. coreUsers \subseteq coreUsers' \/ node' # node
    BY <1>4 DEF Renew, RenewCheck, RenewDel, RenewAdd, RenewUsers, RenewStopped,
       DelNode, AddNode, AddUsersOk, AddUsersFails
  <2> QED BY <2>1, <1>1
<1>5. CASE \E g \in Loops : StartOk(g)
  BY <1>0, <1>1, <1>5 DEF StartOk, ControllerIInv, NothingBeforeStart, TypeOK
<1>6. CASE \E i \in 1 .. 7 : StartFails(i)
  <2>1. node = NoConfig /\ pNode # NoConfig
    BY <1>0, <1>6 DEF StartFails, ControllerIInv, NothingBeforeStart, TypeOK
  <2>2. coreUsers' = coreUsers \/ node' = pNode
    BY <1>6 DEF StartFails
  <2> QED BY <1>1, <2>1, <2>2
<1>7. CASE CloseTasks \/ CloseNode \/ UNCHANGED vars
           \/ (\E c \in Configs : PanelSetNode(c))
           \/ (\E l \in UserLists : PanelSetUsers(l))
  BY <1>1, <1>7 DEF CloseTasks, CloseNode, DelNode, PanelSetNode, PanelSetUsers, vars
<1> QED BY <1>2, <1>3, <1>4, <1>5, <1>6, <1>7 DEF Next

(* With one polling interval, and whatever fails, a user is disconnected   *)
(* while the node is up only for a new speed limit or none at all.         *)
THEOREM ControllerUnchangedStayConnected ==
    ASSUME FixedInterval PROVE Spec => UnchangedUsersStayConnected
<1>1. ControllerIInv /\ SingleIInv /\ [Next]_vars => Disconnects
  BY StepDisconnects
<1>2. Spec => [][Disconnects]_vars
  BY <1>1, ControllerInvariant, SingleInvariant, PTL DEF Spec
<1> QED BY <1>2, PTL DEF UnchangedUsersStayConnected, Disconnects

----------------------------------------------------------------------------
(* Only the panel misbehaves: certificates and the core do as they are     *)
(* told, rules compile, and neither the renewal nor Close interferes.      *)
PanelFaultsOnly ==
    /\ FixedInterval /\ BadRules = {}
    /\ ~ManagedCert /\ ~CertFails /\ ~CoreFails /\ ~Closes

Undisturbed ==
    /\ ~panicked /\ renew = "off" /\ lc \in {"new", "up", "failed"}
    /\ lc # "up" => stop = NoLoop

(* What the core holds at each point of the poll.  Between polls, and      *)
(* until a poll changes something, it is the user list.                    *)
Changing == {"delNode", "cert", "addNode", "addUsers", "addDelta", "commit"}
CoreInSync ==
    lc = "up" =>
        /\ node = NoConfig => coreUsers = {} /\ \E g \in Loops : Reloading(g)
        /\ \A g \in Loops :
              /\ at[g] = "addUsers" => coreUsers = {}
              /\ at[g] = "addDelta"
                    => coreUsers = Listed(userList) \ Deleted(userList, newU[g])
              /\ at[g] = "commit" => coreUsers = Listed(newU[g])
        /\ (\A g \in Loops : at[g] \notin Changing) => coreUsers = Listed(userList)

SyncInv == Undisturbed /\ CoreInSync

(* Removing what compareUserList calls deleted, then adding what it calls  *)
(* added, turns one list's users into the other's, and neither call meets  *)
(* a user that is missing or there already.                                *)
LEMMA DifferenceApplies ==
    ASSUME NEW old \in UserLists, NEW new \in UserLists
    PROVE  /\ Deleted(old, new) \subseteq Listed(old)
           /\ Added(old, new) \cap (Listed(old) \ Deleted(old, new)) = {}
           /\ (Listed(old) \ Deleted(old, new)) \cup Added(old, new) = Listed(new)
BY DEF Deleted, Added, Listed, SameKey

(* Every step keeps the core in step with the user list when only the      *)
(* panel fails.                                                            *)
LEMMA SyncStep ==
    ASSUME PanelFaultsOnly, ControllerIInv, SingleIInv, SyncInv, [Next]_vars
    PROVE  SyncInv'
<1> USE ControllerAssumption DEF panelVars, clientVars, ctlVars, limVars, coreVars, taskVars
<1>a. /\ TypeOK /\ MonitorLocals /\ NothingBeforeStart /\ ReloadsExclude
      /\ OneLoop /\ LocalsCurrent /\ Undisturbed /\ CoreInSync
  BY DEF ControllerIInv, SingleIInv, SyncInv
<1>b. \A g \in Loops : pc[g] # "idle" => stop # NoLoop
  BY DEF ControllerIInv, TP!TaskIInv, TP!ChannelOpenWhileRunning
<1>c. \A g \in Loops : at[g] # "idle" =>
         /\ lc = "up" /\ \A h \in Loops \ {g} : at[h] = "idle"
  BY <1>a, <1>b DEF OneLoop, Undisturbed
<1>d. at \in [Loops -> Labels] /\ userList \in UserLists
  BY <1>a DEF TypeOK
(* A step that touches neither the core nor the list and moves one loop    *)
(* between points where both agree.                                        *)
<1>e. ASSUME UNCHANGED <<lc, node, coreUsers, userList, panicked, renew, newU>>,
             stop' = stop,
             UNCHANGED at \/ \E g \in Loops : \E l \in Labels \ Changing :
                               at[g] \notin Changing /\ at' = [at EXCEPT ![g] = l]
      PROVE  SyncInv'
  <2>1. Undisturbed'
    BY <1>a, <1>e DEF Undisturbed
  <2>2. CASE UNCHANGED at
    BY <1>a, <1>e, <2>1, <2>2 DEF SyncInv, CoreInSync, Reloading
  <2>3. ASSUME NEW g \in Loops, NEW l \in Labels \ Changing,
               at[g] \notin Changing, at' = [at EXCEPT ![g] = l]
        PROVE  CoreInSync'
    <3>1. /\ at'[g] = l /\ \A h \in Loops \ {g} : at'[h] = at[h]
      BY <1>d, <2>3
    <3> QED BY <1>a, <1>e, <2>3, <3>1 DEF CoreInSync, Reloading, Changing
  <2> QED BY <1>e, <2>1, <2>2, <2>3 DEF SyncInv
<1>1. CASE UNCHANGED vars
  BY <1>1, <1>e DEF vars, locals
<1>2. CASE (\E c \in Configs : PanelSetNode(c)) \/ (\E l \in UserLists : PanelSetUsers(l))
  BY <1>2, <1>e DEF PanelSetNode, PanelSetUsers, locals
<1>3. ASSUME NEW g \in Loops, StartOk(g) PROVE SyncInv'
  <2>1. /\ lc' = "up" /\ renew' = "off" /\ ~panicked'
        /\ node' # NoConfig /\ coreUsers' = Listed(userList')
        /\ \A h \in Loops : at'[h] = "idle"
    BY <1>a, <1>3 DEF StartOk, PanelFaultsOnly, NothingBeforeStart, TypeOK,
       Monitor!Start
  <2> QED BY <2>1 DEF SyncInv, Undisturbed, CoreInSync
<1>4. ASSUME NEW i \in 1 .. 7, StartFails(i) PROVE SyncInv'
  <2>1. Stages[i] # "rules"
    <3>1. pNode \notin BadRules
      BY DEF PanelFaultsOnly
    <3>2. i >= 4 => Stages[i] # "rules"
      BY <1>4, <3>1 DEF StartFails, StageFails
    <3>3. i < 4 => i \in {1, 2, 3}
      OBVIOUS
    <3>4. Stages[1] # "rules" /\ Stages[2] # "rules" /\ Stages[3] # "rules"
      BY DEF Stages
    <3> QED BY <3>2, <3>3, <3>4
  <2>2. lc' = "failed" /\ ~panicked' /\ UNCHANGED <<renew, stop>> /\ lc = "new"
    BY <1>4, <2>1 DEF StartFails
  <2> QED BY <1>a, <2>2 DEF SyncInv, Undisturbed, CoreInSync, NothingBeforeStart
<1>5. ~CloseTasks /\ ~CloseNode /\ ~Renew
  BY <1>a DEF PanelFaultsOnly, CloseTasks, CloseNode, Renew, RenewCheck, RenewDel,
     RenewAdd, RenewUsers, RenewStopped, Undisturbed
<1>6. ASSUME NEW g \in Loops, MonitorStep(g) PROVE SyncInv'
  <2> DEFINE To(l) == at' = [at EXCEPT ![g] = l]
  <2>a. \A l \in Labels : To(l) => /\ at'[g] = l
                                  /\ \A h \in Loops \ {g} : at'[h] = at[h]
    BY <1>d
  <2>b. Undisturbed /\ UNCHANGED <<lc, panicked, renew, stop>> => Undisturbed'
    BY DEF Undisturbed
  <2> HIDE DEF To
  <2>c. /\ at[g] # "idle" => lc = "up"
        /\ at[g] # "idle" => \A h \in Loops \ {g} : at[h] = "idle"
    BY <1>c
  <2>1. CASE Wake(g)
    <3>1. at[g] # "idle" => pc[g] = "exec"
      BY <1>a DEF OneLoop
    <3>2. at[g] \notin Changing
      BY <2>1, <3>1 DEF Wake, Monitor!Tick, Changing
    <3> QED BY <1>e, <2>1, <3>2 DEF Wake, Monitor!Tick, locals, Labels, Changing
  <2>2. CASE Sleep(g)
    BY <1>e, <2>2 DEF Sleep, Monitor!Select, Monitor!Stopped, locals
  <2>3. CASE FetchNodeOk(g) \/ FetchNodeFails(g) \/ FetchNodeGarbled(g)
             \/ FetchUsersOk(g) \/ FetchUsersFails(g) \/ Return(g)
    <3>1. /\ at[g] \in {"fetchNode", "fetchUsers", "return"}
          /\ UNCHANGED <<lc, node, coreUsers, userList, panicked, renew, stop>>
          /\ To("fetchUsers") \/ To("alive") \/ To("idle")
          /\ \A h \in Loops \ {g} : newU'[h] = newU[h]
      BY <1>a, <2>3 DEF FetchNodeOk, FetchNodeFails, FetchNodeGarbled, FetchUsersOk,
         FetchUsersFails, Return, At, Goto, Exit, Monitor!ExecuteOk, To, TypeOK
    <3>2. at'[g] \notin Changing /\ at[g] \notin Changing
          /\ \A h \in Loops \ {g} : at'[h] = "idle" /\ at[h] = "idle"
      BY <2>a, <2>c, <3>1 DEF Labels, Changing
    <3> QED BY <1>a, <2>b, <2>c, <3>1, <3>2 DEF SyncInv, CoreInSync, Reloading, Changing
  <2>4. CASE AdoptNode(g)
    <3>1. /\ at[g] = "alive" /\ To("delNode")
          /\ UNCHANGED <<lc, node, coreUsers, panicked, renew, stop>>
      BY <2>4 DEF AdoptNode, At, Goto, To
    <3>2. at'[g] = "delNode" /\ \A h \in Loops \ {g} : at'[h] = "idle" /\ at[h] = "idle"
      BY <2>a, <2>c, <3>1 DEF Labels
    <3> QED BY <1>a, <2>b, <2>c, <3>1, <3>2 DEF SyncInv, CoreInSync, Reloading, Changing
  <2>5. CASE RemoveNode(g)
    <3>1. node # NoConfig
      BY <1>a, <2>5, <2>c DEF RemoveNode, At, CoreInSync, Reloading
    <3>2. /\ at[g] = "delNode" /\ (To("cert") \/ To("addNode"))
          /\ node' = NoConfig /\ coreUsers' = {}
          /\ UNCHANGED <<lc, panicked, renew, stop>>
      BY <2>5, <3>1 DEF RemoveNode, At, DelNode, Goto, To, PanelFaultsOnly
    <3>3. at'[g] \in {"cert", "addNode"} /\ \A h \in Loops \ {g} : at'[h] = "idle"
      BY <2>a, <2>c, <3>2 DEF Labels
    <3> QED BY <1>a, <2>b, <3>2, <3>3 DEF SyncInv, CoreInSync, Reloading, Changing
  <2>6. CASE Cert(g)
    <3>1. /\ at[g] = "cert" /\ To("addNode")
          /\ UNCHANGED <<lc, node, coreUsers, panicked, renew, stop>>
      BY <2>6 DEF Cert, At, Goto, To, PanelFaultsOnly
    <3>2. at'[g] = "addNode" /\ \A h \in Loops \ {g} : at'[h] = "idle"
      BY <2>a, <2>c, <3>1 DEF Labels
    <3> QED BY <1>a, <2>b, <2>c, <3>1, <3>2 DEF SyncInv, CoreInSync, Reloading, Changing
  <2>7. CASE ReplaceNode(g)
    <3>1. at[g] = "addNode" /\ node = NoConfig /\ coreUsers = {} /\ newN[g] # NoConfig
      BY <1>a, <2>7, <2>c DEF ReplaceNode, At, ReloadsExclude, Reloading, CoreInSync,
         MonitorLocals
    <3>2. /\ To("addUsers") /\ node' = newN[g] /\ coreUsers' = {}
          /\ UNCHANGED <<lc, panicked, renew, stop>>
      BY <2>7, <3>1 DEF ReplaceNode, AddNode, Goto, To, PanelFaultsOnly
    <3>3. at'[g] = "addUsers" /\ \A h \in Loops \ {g} : at'[h] = "idle"
      BY <2>a, <2>c, <3>1, <3>2 DEF Labels
    <3> QED BY <1>a, <2>b, <3>1, <3>2, <3>3 DEF SyncInv, CoreInSync, Reloading, Changing
  <2>8. CASE RefillUsers(g)
    <3>1. at[g] = "addUsers" /\ node # NoConfig /\ coreUsers = {}
      BY <1>a, <2>8, <2>c DEF RefillUsers, At, CoreInSync, Reloading
    <3>2. /\ To("interval") /\ node' = node /\ coreUsers' = Listed(userList)
          /\ UNCHANGED <<lc, panicked, renew, stop, userList>>
      BY <2>8, <3>1 DEF RefillUsers, AddUsersOk, AddUsersFails, Goto, To, PanelFaultsOnly
    <3>3. at'[g] = "interval" /\ \A h \in Loops \ {g} : at'[h] = "idle"
      BY <2>a, <2>c, <3>1, <3>2 DEF Labels
    <3> QED BY <1>a, <2>b, <3>1, <3>2, <3>3 DEF SyncInv, CoreInSync, Reloading, Changing
  <2>9. CASE CheckInterval(g)
    <3>1. newN[g] \in Configs /\ stop # NoLoop /\ at[g] = "interval"
      BY <1>a, <1>b, <2>9 DEF CheckInterval, At, MonitorLocals, TypeOK, OneLoop
    <3>2. interval = PullInterval[newN[g]]
      BY <1>a, <3>1 DEF OneLoop
    <3>3. /\ To("idle") /\ UNCHANGED <<lc, node, coreUsers, userList, panicked, renew, stop>>
      BY <2>9, <3>2 DEF CheckInterval, Exit, Monitor!ExecuteOk, To
    <3>4. at'[g] = "idle" /\ \A h \in Loops \ {g} : at'[h] = "idle" /\ at[h] = "idle"
      BY <2>a, <2>c, <3>1, <3>3 DEF Labels
    <3> QED BY <1>a, <2>b, <2>c, <3>1, <3>3, <3>4 DEF SyncInv, CoreInSync, Reloading, Changing
  <2>10. CASE Restart(g)
    BY <1>a, <2>10 DEF Restart, At, OneLoop
  <2>11. CASE CompareUsers(g)
    <3>1. /\ at[g] = "alive" /\ (To("idle") \/ To("delUsers"))
          /\ UNCHANGED <<lc, node, coreUsers, userList, panicked, renew, stop>>
      BY <2>11 DEF CompareUsers, At, Goto, Exit, Monitor!ExecuteOk, To
    <3>2. /\ at'[g] \in {"idle", "delUsers"}
          /\ \A h \in Loops \ {g} : at'[h] = "idle" /\ at[h] = "idle"
      BY <2>a, <2>c, <3>1 DEF Labels
    <3> QED BY <1>a, <2>b, <2>c, <3>1, <3>2 DEF SyncInv, CoreInSync, Reloading, Changing
  <2>12. CASE RemoveUsers(g)
    <3>1. /\ at[g] = "delUsers" /\ newU[g] \in UserLists
          /\ del[g] = Deleted(userList, newU[g])
      BY <1>a, <2>12 DEF RemoveUsers, At, TypeOK, MonitorLocals, LocalsCurrent
    <3>2. node # NoConfig /\ coreUsers = Listed(userList)
      BY <1>a, <2>c, <3>1 DEF CoreInSync, Reloading, Changing
    <3>3. del[g] \subseteq coreUsers
      BY <1>d, <3>1, <3>2, DifferenceApplies
    <3>4. /\ To("addDelta") /\ node' = node /\ coreUsers' = coreUsers \ del[g]
          /\ UNCHANGED <<lc, panicked, renew, stop, userList, newU>>
      BY <2>12, <3>2, <3>3 DEF RemoveUsers, DelUsersOk, DelUsersFails, Goto, To, locals
    <3>5. at'[g] = "addDelta" /\ \A h \in Loops \ {g} : at'[h] = "idle"
      BY <2>a, <2>c, <3>1, <3>4 DEF Labels
    <3> QED BY <1>a, <2>b, <3>1, <3>2, <3>4, <3>5 DEF SyncInv, CoreInSync, Reloading, Changing
  <2>13. CASE AddNewUsers(g)
    <3>1. /\ at[g] = "addDelta" /\ newU[g] \in UserLists
          /\ add[g] = Added(userList, newU[g])
      BY <1>a, <2>13 DEF AddNewUsers, At, TypeOK, MonitorLocals, LocalsCurrent
    <3>2. node # NoConfig /\ coreUsers = Listed(userList) \ Deleted(userList, newU[g])
      BY <1>a, <2>c, <3>1 DEF CoreInSync, Reloading, Changing
    <3>3. add[g] \cap coreUsers = {} /\ coreUsers \cup add[g] = Listed(newU[g])
      BY <1>d, <3>1, <3>2, DifferenceApplies
    <3>4. /\ To("commit") /\ node' = node /\ coreUsers' = coreUsers \cup add[g]
          /\ UNCHANGED <<lc, panicked, renew, stop, userList, newU>>
      BY <2>13, <3>2, <3>3 DEF AddNewUsers, AddUsersOk, AddUsersFails, Goto, To, locals,
         PanelFaultsOnly
    <3>5. at'[g] = "commit" /\ \A h \in Loops \ {g} : at'[h] = "idle"
      BY <2>a, <2>c, <3>1, <3>4 DEF Labels
    <3> QED BY <1>a, <2>b, <3>2, <3>3, <3>4, <3>5 DEF SyncInv, CoreInSync, Reloading, Changing
  <2>14. CASE CommitUsers(g)
    <3>1. /\ at[g] = "commit" /\ To("idle") /\ userList' = newU[g]
          /\ UNCHANGED <<lc, node, coreUsers, panicked, renew, stop>>
      BY <2>14 DEF CommitUsers, At, Exit, Monitor!ExecuteOk, To
    <3>2. node # NoConfig /\ coreUsers = Listed(newU[g])
      BY <1>a, <2>c, <3>1 DEF CoreInSync, Reloading, Changing
    <3>3. at'[g] = "idle" /\ \A h \in Loops \ {g} : at'[h] = "idle"
      BY <2>a, <2>c, <3>1 DEF Labels
    <3> QED BY <1>a, <2>b, <3>1, <3>2, <3>3 DEF SyncInv, CoreInSync, Reloading, Changing
  <2> QED
    BY <1>6, <2>1, <2>2, <2>3, <2>4, <2>5, <2>6, <2>7, <2>8, <2>9, <2>10, <2>11,
       <2>12, <2>13, <2>14 DEF MonitorStep
<1> QED BY <1>1, <1>2, <1>3, <1>4, <1>5, <1>6 DEF Next

(* The core follows the user list in every reachable state.                *)
LEMMA SyncInvariant ==
    ASSUME PanelFaultsOnly PROVE Spec => [](ControllerIInv /\ SyncInv)
<1>1. Init => SyncInv
  BY DEF Init, SyncInv, Undisturbed, CoreInSync, Monitor!TaskInit
<1>2. FixedInterval
  BY DEF PanelFaultsOnly
<1>3. ControllerIInv /\ SingleIInv /\ SyncInv /\ [Next]_vars => SyncInv'
  BY SyncStep
<1>4. Spec => []SingleIInv
  BY <1>2, SingleInvariant
<1> QED BY <1>1, <1>3, <1>4, ControllerInvariant, PTL DEF Spec

(* As long as only the panel misbehaves, however its replies are lost,     *)
(* garbled or overtaken by changes, no call of the controller panics: the  *)
(* node is there when nodeInfoMonitor removes it, and gone when it adds it.*)
THEOREM ControllerNoPanic == ASSUME PanelFaultsOnly PROVE Spec => []NoPanic
<1>1. SyncInv => NoPanic
  BY DEF SyncInv, Undisturbed, NoPanic
<1> QED BY <1>1, SyncInvariant, PTL

(* Then the core also serves exactly the users of c.userList outside of a  *)
(* poll that is changing them, for any lists and any number of polls.      *)
THEOREM ControllerCoreTracks ==
    ASSUME PanelFaultsOnly PROVE Spec => []CoreTracksUserList
<1>1. ControllerIInv /\ SyncInv => CoreTracksUserList
  <2> SUFFICES ASSUME ControllerIInv, SyncInv, lc = "up", node # NoConfig,
                      \A g \in Loops :
                         at[g] \notin {"delNode", "addUsers", "addDelta", "commit"}
               PROVE  coreUsers = Listed(userList)
    BY DEF CoreTracksUserList
  <2>1. \A g \in Loops : at[g] \notin Changing
    BY DEF ControllerIInv, ReloadsExclude, Reloading, Changing
  <2> QED BY <2>1 DEF SyncInv, CoreInSync
<1> QED BY <1>1, SyncInvariant, PTL
============================================================================
