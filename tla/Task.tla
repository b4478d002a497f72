------------------------------- MODULE Task -------------------------------
(* common/task/task.go: a periodic task.  Start spawns a goroutine that    *)
(* runs Execute every Interval until the task's stop channel is closed.    *)
(*                                                                         *)
(* A loop is the goroutine of one Start, and also names the channel that   *)
(* this Start made: t.stop = g is the channel made together with loop g.   *)
(* The name of a finished loop is used again once nobody waits on its      *)
(* channel, so Loops bounds the goroutines alive at one time and not the   *)
(* number of restarts.                                                     *)
CONSTANTS Loops,         \* bound: goroutines alive at one time
          NoLoop,        \* t.stop before the first Start
          ExecuteFails   \* whether Execute may return an error

ASSUME TaskAssumption == /\ NoLoop \notin Loops
                         /\ ExecuteFails \in BOOLEAN

VARIABLES running,   \* t.running
          stop,      \* t.stop
          closed,    \* the channels that were closed
          pc,        \* where each loop is; "idle": no such goroutine
          waitOn,    \* the channel each loop's select evaluated
          panicked   \* close of a closed channel: the process is gone

taskVars == <<running, stop, closed, pc, waitOn, panicked>>

PCs == {"idle", "select", "wait", "exec"}

TaskInit == /\ running = FALSE
            /\ stop = NoLoop
            /\ closed = {}
            /\ pc = [g \in Loops |-> "idle"]
            /\ waitOn = [g \in Loops |-> NoLoop]
            /\ panicked = FALSE

Free(g) == pc[g] = "idle" /\ \A h \in Loops : waitOn[h] # g

----------------------------------------------------------------------------
(* Mutant: a second Start replaces the channel of the first.               *)
StartUnguarded(g, first) ==
    /\ ~panicked /\ Free(g)
    /\ running' = TRUE
    /\ stop' = g
    /\ closed' = closed \ {g}
    /\ pc' = [pc EXCEPT ![g] = IF first THEN "exec" ELSE "select"]
    /\ UNCHANGED <<waitOn, panicked>>

(* t.Start(first).  On a running task it returns without an effect.        *)
Start(g, first) ==
    /\ ~panicked /\ ~running /\ Free(g)
    /\ running' = TRUE
    /\ stop' = g
    /\ closed' = closed \ {g}
    /\ pc' = [pc EXCEPT ![g] = IF first THEN "exec" ELSE "select"]
    /\ UNCHANGED <<waitOn, panicked>>

(* Entering the select evaluates t.stop, without the lock: the loop waits  *)
(* on whatever channel is the task's now, not on the one of its own Start. *)
(* On a closed channel the select returns at once, the timer being new.    *)
Select(g) ==
    /\ ~panicked /\ pc[g] = "select"
    /\ IF stop \in closed
       THEN /\ pc' = [pc EXCEPT ![g] = "idle"]
            /\ UNCHANGED waitOn
       ELSE /\ pc' = [pc EXCEPT ![g] = "wait"]
            /\ waitOn' = [waitOn EXCEPT ![g] = stop]
    /\ UNCHANGED <<running, stop, closed, panicked>>

(* The timer fires; when the channel was closed as well, select may still  *)
(* choose the timer.                                                       *)
Tick(g) ==
    /\ ~panicked /\ pc[g] = "wait"
    /\ pc' = [pc EXCEPT ![g] = "exec"]
    /\ waitOn' = [waitOn EXCEPT ![g] = NoLoop]
    /\ UNCHANGED <<running, stop, closed, panicked>>

Stopped(g) ==
    /\ ~panicked /\ pc[g] = "wait" /\ waitOn[g] \in closed
    /\ pc' = [pc EXCEPT ![g] = "idle"]
    /\ waitOn' = [waitOn EXCEPT ![g] = NoLoop]
    /\ UNCHANGED <<running, stop, closed, panicked>>

ExecuteOk(g) ==
    /\ ~panicked /\ pc[g] = "exec"
    /\ pc' = [pc EXCEPT ![g] = "select"]
    /\ UNCHANGED <<running, stop, closed, waitOn, panicked>>

(* Mutant: the error path leaves the task marked as running.               *)
ExecuteErrKeepsRunning(g) ==
    /\ ExecuteFails
    /\ ~panicked /\ pc[g] = "exec"
    /\ closed' = closed \cup {stop}
    /\ panicked' = (stop \in closed)
    /\ pc' = [pc EXCEPT ![g] = "idle"]
    /\ UNCHANGED <<running, stop, waitOn>>

(* Execute returned an error: the loop itself marks the task stopped and   *)
(* closes t.stop, whichever channel that is by now.                        *)
ExecuteErr(g) ==
    /\ ExecuteFails
    /\ ~panicked /\ pc[g] = "exec"
    /\ running' = FALSE
    /\ closed' = closed \cup {stop}
    /\ panicked' = (stop \in closed)
    /\ pc' = [pc EXCEPT ![g] = "idle"]
    /\ UNCHANGED <<stop, waitOn>>

(* Mutant: the channel stays open.                                         *)
CloseForgetsChannel ==
    /\ ~panicked /\ running
    /\ running' = FALSE
    /\ UNCHANGED <<stop, closed, pc, waitOn, panicked>>

(* t.Close(); a task that is not running is left alone.                    *)
Close ==
    /\ ~panicked /\ running
    /\ running' = FALSE
    /\ closed' = closed \cup {stop}
    /\ UNCHANGED <<stop, pc, waitOn, panicked>>

Loop(g) == Select(g) \/ Tick(g) \/ Stopped(g) \/ ExecuteOk(g) \/ ExecuteErr(g)

TaskNext == \/ \E g \in Loops, first \in BOOLEAN : Start(g, first)
            \/ \E g \in Loops : Loop(g)
            \/ Close

(* A goroutine that can run does; Execute returns.  Nobody is obliged to   *)
(* call Start or Close.                                                    *)
TaskFairness == \A g \in Loops : WF_taskVars(Loop(g))

TaskSpec == TaskInit /\ [][TaskNext]_taskVars /\ TaskFairness

----------------------------------------------------------------------------
(* Type invariant.                                                         *)
TaskTypeOK == /\ running \in BOOLEAN
              /\ stop \in Loops \cup {NoLoop}
              /\ closed \subseteq Loops
              /\ pc \in [Loops -> PCs]
              /\ waitOn \in [Loops -> Loops \cup {NoLoop}]
              /\ panicked \in BOOLEAN

(* Start and Close, with the unlocked read of t.stop between them, never   *)
(* strand a sleeping loop: each one waits on a channel that is closed or   *)
(* that the next Close will close.                                         *)
CloseReachesEveryLoop ==
    \A g \in Loops : pc[g] = "wait" =>
        waitOn[g] \in closed \/ (running /\ waitOn[g] = stop)

(* A task that says it runs does: the loop spawned by the last Start is    *)
(* alive, whatever happened to the loops of earlier Starts (which may read *)
(* the new channel, outlive their own Close, and close the new channel).   *)
RunningTaskIsServed ==
    running => pc[stop] # "idle"

(* Once the task is closed for good every loop ends, also those that were  *)
(* inside Execute when the channel was closed.                             *)
ClosedTaskEnds ==
    <>[](~running /\ ~panicked) => <>[](\A g \in Loops : pc[g] = "idle")
============================================================================
