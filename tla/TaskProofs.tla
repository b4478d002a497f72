---------------------------- MODULE TaskProofs ----------------------------
(* The safety of Task for any number of loops and restarts.                *)
EXTENDS Task, TLAPS

(* Before the first Start nothing runs; from then on the task is running   *)
(* exactly while its channel is open.                                      *)
ChannelOpenWhileRunning ==
    /\ stop = NoLoop => ~running /\ \A g \in Loops : pc[g] = "idle"
    /\ stop # NoLoop => (running <=> stop \notin closed)

(* The loop of the last Start sleeps on its own channel.                   *)
CurrentLoopWaitsOnStop ==
    running /\ pc[stop] = "wait" => waitOn[stop] = stop

TaskIInv == /\ TaskTypeOK
            /\ ChannelOpenWhileRunning
            /\ CloseReachesEveryLoop
            /\ RunningTaskIsServed
            /\ CurrentLoopWaitsOnStop

(* The initial state satisfies the inductive invariant.                    *)
LEMMA TaskInitIInv == TaskInit => TaskIInv
BY TaskAssumption DEF TaskInit, TaskIInv, TaskTypeOK, ChannelOpenWhileRunning,
   CloseReachesEveryLoop, RunningTaskIsServed, CurrentLoopWaitsOnStop, PCs

(* Every step of Start, Close and the loops preserves it.                  *)
LEMMA TaskStepIInv == TaskIInv /\ [TaskNext]_taskVars => TaskIInv'
<1> SUFFICES ASSUME TaskIInv, [TaskNext]_taskVars
             PROVE  TaskIInv'
  OBVIOUS
<1> USE TaskAssumption
<1>1. ASSUME NEW g \in Loops, NEW first \in BOOLEAN, Start(g, first)
      PROVE  TaskIInv'
  <2>1. TaskTypeOK' /\ ChannelOpenWhileRunning'
    BY <1>1 DEF TaskIInv, TaskTypeOK, ChannelOpenWhileRunning, Start, Free, PCs
  <2>2. CloseReachesEveryLoop'
    BY <1>1 DEF TaskIInv, TaskTypeOK, CloseReachesEveryLoop, Start, Free, PCs
  <2>3. RunningTaskIsServed' /\ CurrentLoopWaitsOnStop'
    BY <1>1 DEF TaskIInv, TaskTypeOK, RunningTaskIsServed,
                CurrentLoopWaitsOnStop, Start, PCs
  <2> QED BY <2>1, <2>2, <2>3 DEF TaskIInv
<1>2. ASSUME NEW g \in Loops, Select(g)
      PROVE  TaskIInv'
  <2>1. TaskTypeOK' /\ ChannelOpenWhileRunning'
    BY <1>2 DEF TaskIInv, TaskTypeOK, ChannelOpenWhileRunning, Select, PCs
  <2>2. CloseReachesEveryLoop'
    BY <1>2 DEF TaskIInv, TaskTypeOK, ChannelOpenWhileRunning,
                CloseReachesEveryLoop, Select, PCs
  <2>3. RunningTaskIsServed' /\ CurrentLoopWaitsOnStop'
    BY <1>2 DEF TaskIInv, TaskTypeOK, ChannelOpenWhileRunning,
                RunningTaskIsServed, CurrentLoopWaitsOnStop, Select, PCs
  <2> QED BY <2>1, <2>2, <2>3 DEF TaskIInv
<1>3. ASSUME NEW g \in Loops, Tick(g)
      PROVE  TaskIInv'
  BY <1>3 DEF TaskIInv, TaskTypeOK, ChannelOpenWhileRunning, PCs,
     CloseReachesEveryLoop, RunningTaskIsServed, CurrentLoopWaitsOnStop, Tick
<1>4. ASSUME NEW g \in Loops, Stopped(g)
      PROVE  TaskIInv'
  <2>1. running => stop # g
    BY <1>4 DEF TaskIInv, TaskTypeOK, ChannelOpenWhileRunning,
       CurrentLoopWaitsOnStop, Stopped
  <2> QED
    BY <1>4, <2>1 DEF TaskIInv, TaskTypeOK, ChannelOpenWhileRunning, PCs,
       CloseReachesEveryLoop, RunningTaskIsServed, CurrentLoopWaitsOnStop, Stopped
<1>5. ASSUME NEW g \in Loops, ExecuteOk(g)
      PROVE  TaskIInv'
  BY <1>5 DEF TaskIInv, TaskTypeOK, ChannelOpenWhileRunning, PCs,
     CloseReachesEveryLoop, RunningTaskIsServed, CurrentLoopWaitsOnStop, ExecuteOk
<1>6. ASSUME NEW g \in Loops, ExecuteErr(g)
      PROVE  TaskIInv'
  <2>1. stop \in Loops
    BY <1>6 DEF TaskIInv, TaskTypeOK, ChannelOpenWhileRunning, ExecuteErr
  <2>2. panicked' \in BOOLEAN
    <3>1. panicked' = (stop \in closed)
      BY <1>6 DEF ExecuteErr
    <3>2. CASE stop \in closed
      BY <3>1, <3>2, Zenon
    <3>3. CASE stop \notin closed
      BY <3>1, <3>3
    <3> QED BY <3>2, <3>3
  <2>3. /\ running' = FALSE
        /\ closed' = closed \cup {stop}
        /\ pc' = [pc EXCEPT ![g] = "idle"]
        /\ stop' = stop /\ waitOn' = waitOn
    BY <1>6 DEF ExecuteErr
  <2> QED
    BY <2>1, <2>2, <2>3 DEF TaskIInv, TaskTypeOK, ChannelOpenWhileRunning, PCs,
       CloseReachesEveryLoop, RunningTaskIsServed, CurrentLoopWaitsOnStop
<1>7. CASE Close
  BY <1>7 DEF TaskIInv, TaskTypeOK, ChannelOpenWhileRunning, PCs,
     CloseReachesEveryLoop, RunningTaskIsServed, CurrentLoopWaitsOnStop, Close
<1>8. CASE UNCHANGED taskVars
  BY <1>8 DEF TaskIInv, TaskTypeOK, ChannelOpenWhileRunning, taskVars,
     CloseReachesEveryLoop, RunningTaskIsServed, CurrentLoopWaitsOnStop
<1> QED
  BY <1>1, <1>2, <1>3, <1>4, <1>5, <1>6, <1>7, <1>8 DEF TaskNext, Loop

(* The inductive invariant holds in every reachable state.                 *)
LEMMA TaskInvariant == TaskSpec => []TaskIInv
<1>1. TaskInit => TaskIInv
  BY TaskInitIInv
<1>2. TaskIInv /\ [TaskNext]_taskVars => TaskIInv'
  BY TaskStepIInv
<1> QED
  BY <1>1, <1>2, PTL DEF TaskSpec

(* The state of a task keeps its type through every Start and Close.       *)
THEOREM TaskTypeCorrect == TaskSpec => []TaskTypeOK
<1>1. TaskIInv => TaskTypeOK
  BY DEF TaskIInv
<1> QED
  BY <1>1, TaskInvariant, PTL

(* For any number of loops and restarts, no loop ever sleeps on a channel  *)
(* that nobody will close.                                                 *)
THEOREM TaskCloseReachesEveryLoop == TaskSpec => []CloseReachesEveryLoop
<1>1. TaskIInv => CloseReachesEveryLoop
  BY DEF TaskIInv
<1> QED
  BY <1>1, TaskInvariant, PTL

(* For any number of loops and restarts, the loop of the last Start is     *)
(* alive while t.running is set.                                           *)
THEOREM TaskRunningIsServed == TaskSpec => []RunningTaskIsServed
<1>1. TaskIInv => RunningTaskIsServed
  BY DEF TaskIInv
<1> QED
  BY <1>1, TaskInvariant, PTL
============================================================================
