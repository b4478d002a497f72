------------------------------ MODULE Limiter ------------------------------
(* One node's Limiter (limiter/limiter.go): CheckLimit, called by every    *)
(* new connection, against GetOnlineDevice of the report task and          *)
(* UpdateUser of the monitor.  The maps are sync.Maps: each call on one is *)
(* an atomic step, and nothing makes several calls atomic.                 *)
(*                                                                         *)
(* Every connection here comes from a TCP source (noSSUDP), no dynamic     *)
(* limit is set (nothing in the program sets one), and a user's uid is its *)
(* key.  A user's inner map is an object of its own: who loaded it may     *)
(* still use it after it was replaced.                                     *)
EXTENDS Naturals, FiniteSets

CONSTANTS Users, IPs, Calls,
          Objs,            \* names of the inner maps alive at one time
          None,            \* absent from a map
          NodeSpeed,       \* Limiter.SpeedLimit
          Speeds,          \* speed limits the panel gives a user
          DeviceLimit,     \* per user; 0 is unlimited
          MaxCalls, MaxReports, MaxUpdates, MaxAliveChanges  \* bounds: calls
                           \* of each operation, changes of the alive list

ASSUME LimiterAssumption ==
    /\ NodeSpeed \in Nat /\ Speeds \subseteq Nat /\ Speeds # {}
    /\ DeviceLimit \in [Users -> Nat]
    /\ {MaxCalls, MaxReports, MaxUpdates, MaxAliveChanges} \subseteq Nat
    /\ None \notin Users \cup Objs \cup IPs \cup Nat
    /\ IsFiniteSet(Users) /\ IsFiniteSet(Calls) /\ IsFiniteSet(Objs)
    /\ Cardinality(Objs) > Cardinality(Users) + Cardinality(Calls) + 1

VARIABLES info,      \* UserLimitInfo: a user's speed limit, or None
          userOnline,    \* UserOnlineIP: a user's inner map, or None
          ips,       \* the contents of the inner maps
          old,       \* OldUserOnline: the user of an address, or None
          alive,     \* AliveList: devices the panel counts for a user
          bucket,    \* SpeedLimiter: the rate of a user's bucket, or None
          call,      \* the CheckLimit calls in progress
          rep,       \* GetOnlineDevice: stage, users and addresses to visit
          upd,       \* UpdateUser: stage, its user and the new speed
          calls, reports, updates, aliveChanges,
          admitted, known,   \* history: devices admitted since the last
                             \* report began, and in the period before
          leaked,    \* history: devices the last report listed although
                     \* they had not been admitted
          stale      \* history: users whose bucket was dropped during a call

vars == <<info, userOnline, ips, old, alive, bucket, call, rep, upd, calls,
          reports, updates, aliveChanges, admitted, known, leaked, stale>>

(* determineSpeedLimit, with its branches.                                 *)
determineSpeedLimit(limit1, limit2) ==
    IF limit1 = 0 \/ limit2 = 0
    THEN IF limit1 > limit2 THEN limit1 ELSE limit2
    ELSE IF limit1 > limit2 THEN limit2 ELSE limit1

Idle == [at |-> "idle", user |-> None, ip |-> None, over |-> FALSE, speed |-> 0,
         map |-> None, met |-> FALSE, odd |-> FALSE]
NoReport == [at |-> "idle", users |-> {}, user |-> None, map |-> None, ips |-> {}]
NoUpdate == [at |-> "idle", user |-> None, speed |-> None]

Init == /\ info \in [Users -> Speeds \cup {None}]
        /\ userOnline = [u \in Users |-> None]
        /\ ips = [o \in Objs |-> {}] /\ old = [i \in IPs |-> None]
        /\ alive = [u \in Users |-> 0] /\ bucket = [u \in Users |-> None]
        /\ call = [c \in Calls |-> Idle] /\ rep = NoReport /\ upd = NoUpdate
        /\ calls = 0 /\ reports = 0 /\ updates = 0 /\ aliveChanges = 0
        /\ admitted = {} /\ known = {} /\ leaked = {} /\ stale = {}

(* Inner maps somebody can still reach, and new(sync.Map): a free one,     *)
(* never mind which.                                                       *)
Reachable == {userOnline[u] : u \in Users} \cup {call[c].map : c \in Calls}
             \cup {rep.map}
newMap == CHOOSE o \in Objs : o \notin Reachable

Undecided(u, i) == {c \in Calls : /\ call[c].user = u /\ call[c].ip = i
                                  /\ call[c].at \in {"online", "add", "old", "undo",
                                                     "undoFirst", "forget"}}

----------------------------------------------------------------------------
(* CheckLimit.  The first lookups: a user unknown to the limiter is        *)
(* rejected at once.  The alive count is read with the limits.             *)
Check(c, u, i) ==
    /\ call[c].at = "idle" /\ info[u] # None /\ calls < MaxCalls
    /\ calls' = calls + 1
    /\ call' = [d \in Calls |->
                 IF d = c
                 THEN [Idle EXCEPT !.at = "online", !.user = u, !.ip = i,
                          !.over = DeviceLimit[u] > 0 /\ DeviceLimit[u] <= alive[u],
                          !.speed = info[u], !.met = Undecided(u, i) # {}]
                 ELSE IF d \in Undecided(u, i) THEN [call[d] EXCEPT !.met = TRUE]
                 ELSE call[d]]
    /\ UNCHANGED <<info, userOnline, ips, old, alive, bucket, rep, upd, reports,
                   updates, aliveChanges, admitted, known, leaked, stale>>

Rest == <<info, alive, rep, upd, calls, reports, updates, aliveChanges, known,
          leaked>>

(* l.UserOnlineIP.LoadOrStore(taguuid, newipMap)                           *)
Register(c) ==
    LET u == call[c].user IN
    /\ call[c].at = "online"
    /\ \/ /\ userOnline[u] = None
          /\ userOnline' = [userOnline EXCEPT ![u] = newMap]
          /\ ips' = [o \in Objs |-> IF o = newMap THEN {call[c].ip}
                                    ELSE IF o \in Reachable THEN ips[o] ELSE {}]
          /\ call' = [call EXCEPT ![c].at = "old"]
       \/ /\ userOnline[u] # None
          /\ call' = [call EXCEPT ![c].at = "add", ![c].map = userOnline[u]]
          /\ UNCHANGED <<userOnline, ips>>
    /\ UNCHANGED <<Rest, old, bucket, admitted, stale>>

(* Why a device over the limit may get in: its address got in before, for  *)
(* this or another user, in this period or the last one; or it was seen    *)
(* through a call that was undecided or a map that was dropped long ago.   *)
Reason(u, i, met) == met \/ \E v \in Users : <<v, i>> \in admitted \cup known \cup leaked

Pass(c, at) ==
    LET u == call[c].user  i == call[c].ip IN
    /\ call' = [call EXCEPT ![c] =
                  [Idle EXCEPT !.at = at, !.user = u, !.ip = i, !.speed = call[c].speed,
                               !.odd = call[c].over /\ ~Reason(u, i, call[c].met)]]
    /\ admitted' = admitted \cup {<<u, i>>}

(* oldipMap.LoadOrStore(ip, uid)                                           *)
Add(c) ==
    LET o == call[c].map IN
    /\ call[c].at = "add"
    /\ \/ call[c].ip \in ips[o] /\ Pass(c, "speed") /\ UNCHANGED ips
       \/ /\ call[c].ip \notin ips[o]
          /\ ips' = [ips EXCEPT ![o] = @ \cup {call[c].ip}]
          /\ call' = [call EXCEPT ![c].at = "old"] /\ UNCHANGED admitted
    /\ UNCHANGED <<Rest, userOnline, old, bucket, stale>>

(* Mutant: the first device of a user is not held to the limit.            *)
LookOldFirstFree(c) ==
    LET v == old[call[c].ip] IN
    /\ call[c].at = "old"
    /\ \/ v = call[c].user /\ Pass(c, "forget")
       \/ (v # call[c].user /\ (v # None \/ call[c].map = None \/ ~call[c].over))
          /\ Pass(c, "speed")
       \/ /\ v = None /\ call[c].over /\ call[c].map # None
          /\ call' = [call EXCEPT ![c].at = "undo"] /\ UNCHANGED admitted
    /\ UNCHANGED <<Rest, userOnline, ips, old, bucket, stale>>

(* l.OldUserOnline.Load(ip), and the device limit when it has nothing.     *)
LookOld(c) ==
    LET v == old[call[c].ip] IN
    /\ call[c].at = "old"
    /\ \/ v = call[c].user /\ Pass(c, "forget")
       \/ v \notin {None, call[c].user} /\ Pass(c, "speed")
       \/ v = None /\ ~call[c].over /\ Pass(c, "speed")
       \/ /\ v = None /\ call[c].over
          /\ call' = [call EXCEPT ![c].at = IF call[c].map = None THEN "undoFirst"
                                            ELSE "undo"]
          /\ UNCHANGED admitted
    /\ UNCHANGED <<Rest, userOnline, ips, old, bucket, stale>>

Forget(c) ==
    /\ call[c].at = "forget"
    /\ old' = [old EXCEPT ![call[c].ip] = None]
    /\ call' = [call EXCEPT ![c].at = "speed"]
    /\ UNCHANGED <<Rest, userOnline, ips, bucket, admitted, stale>>

(* Mutant: a rejected device stays in the user's map.                      *)
UndoNothing(c) ==
    /\ call[c].at = "undo"
    /\ call' = [call EXCEPT ![c] = Idle]
    /\ UNCHANGED <<Rest, userOnline, ips, old, bucket, admitted, stale>>

(* The rejections: the device is taken out again.                          *)
Undo(c) ==
    /\ call[c].at = "undo"
    /\ ips' = [ips EXCEPT ![call[c].map] = @ \ {call[c].ip}]
    /\ call' = [call EXCEPT ![c] = Idle]
    /\ UNCHANGED <<Rest, userOnline, old, bucket, admitted, stale>>

UndoFirst(c) ==
    /\ call[c].at = "undoFirst"
    /\ userOnline' = [userOnline EXCEPT ![call[c].user] = None]
    /\ call' = [call EXCEPT ![c] = Idle]
    /\ UNCHANGED <<Rest, ips, old, bucket, admitted, stale>>

(* The bucket: l.SpeedLimiter.LoadOrStore, then once more Store.           *)
Rate(c) == determineSpeedLimit(NodeSpeed, call[c].speed)

Speed(c) ==
    LET u == call[c].user IN
    /\ call[c].at = "speed"
    /\ \/ /\ Rate(c) = 0 \/ bucket[u] # None
          /\ call' = [call EXCEPT ![c] = Idle] /\ UNCHANGED bucket
       \/ /\ Rate(c) > 0 /\ bucket[u] = None
          /\ bucket' = [bucket EXCEPT ![u] = Rate(c)]
          /\ call' = [call EXCEPT ![c].at = "store"]
    /\ UNCHANGED <<Rest, userOnline, ips, old, admitted, stale>>

Store(c) ==
    /\ call[c].at = "store"
    /\ bucket' = [bucket EXCEPT ![call[c].user] = Rate(c)]
    /\ call' = [call EXCEPT ![c] = Idle]
    /\ UNCHANGED <<Rest, userOnline, ips, old, admitted, stale>>

----------------------------------------------------------------------------
(* GetOnlineDevice: a new OldUserOnline, then one user's map after the     *)
(* other is copied to it and dropped.  A Range sees what is there when it  *)
(* comes to a key, so one added meanwhile may be visited or missed.        *)
Begin ==
    /\ rep.at = "idle" /\ reports < MaxReports
    /\ reports' = reports + 1
    /\ old' = [i \in IPs |-> None]
    /\ rep' = [rep EXCEPT !.at = "range", !.users = Users]
    /\ known' = admitted /\ admitted' = {} /\ leaked' = {}
    /\ call' = [c \in Calls |->
                  IF call[c].map # None /\ call[c].map # userOnline[call[c].user]
                  THEN [call[c] EXCEPT !.met = TRUE] ELSE call[c]]
    /\ UNCHANGED <<info, userOnline, ips, alive, bucket, upd, calls,
                   updates, aliveChanges, stale>>

Visit(u) ==
    /\ rep.at = "range" /\ u \in rep.users
    /\ rep' = IF userOnline[u] = None
              THEN [rep EXCEPT !.users = @ \ {u}]
              ELSE [at |-> "copy", users |-> rep.users \ {u}, user |-> u,
                    map |-> userOnline[u], ips |-> IPs]
    /\ UNCHANGED <<info, userOnline, ips, old, alive, bucket, call, upd, calls,
                   reports, updates, aliveChanges, admitted, known, leaked, stale>>

Copy(i) ==
    /\ rep.at = "copy" /\ i \in rep.ips
    /\ rep' = [rep EXCEPT !.ips = @ \ {i}]
    /\ IF i \in ips[rep.map]
       THEN /\ old' = [old EXCEPT ![i] = rep.user]
            /\ leaked' = leaked \cup ({<<rep.user, i>>} \ (admitted \cup known))
       ELSE UNCHANGED <<old, leaked>>
    /\ UNCHANGED <<info, userOnline, ips, alive, bucket, call, upd, calls,
                   reports, updates, aliveChanges, admitted, known, stale>>

Drop ==
    /\ rep.at = "copy" /\ rep.ips = {}
    /\ userOnline' = [userOnline EXCEPT ![rep.user] = None]
    /\ rep' = [NoReport EXCEPT !.at = "range", !.users = rep.users]
    /\ UNCHANGED <<info, ips, old, alive, bucket, call, upd, calls,
                   reports, updates, aliveChanges, admitted, known, leaked, stale>>

End ==
    /\ rep.at = "range" /\ rep.users = {}
    /\ rep' = NoReport
    /\ UNCHANGED <<info, userOnline, ips, old, alive, bucket, call, upd, calls,
                   reports, updates, aliveChanges, admitted, known, leaked, stale>>

----------------------------------------------------------------------------
(* UpdateUser for one user: deleted, added, or, when its speed changed,    *)
(* both.                                                                   *)
Others == <<ips, old, rep, calls, reports, aliveChanges, admitted, known, leaked,
            call>>

AddInfo(u, s) ==
    /\ upd.at = "idle" /\ updates < MaxUpdates /\ info[u] = None
    /\ info' = [info EXCEPT ![u] = s] /\ updates' = updates + 1
    /\ UNCHANGED <<Others, userOnline, alive, bucket, upd, stale>>

DelInfo(u, s) ==
    /\ upd.at = "idle" /\ updates < MaxUpdates /\ info[u] \notin {None, s}
    /\ info' = [info EXCEPT ![u] = None] /\ updates' = updates + 1
    /\ upd' = [at |-> "online", user |-> u, speed |-> s]
    /\ UNCHANGED <<Others, userOnline, alive, bucket, stale>>

DelOnline ==
    /\ upd.at = "online"
    /\ userOnline' = [userOnline EXCEPT ![upd.user] = None]
    /\ upd' = [upd EXCEPT !.at = "bucket"]
    /\ UNCHANGED <<Others, info, alive, bucket, updates, stale>>

(* Mutant: a deleted user's bucket is kept.                                *)
DelAliveOnly ==
    /\ upd.at = "bucket"
    /\ alive' = [alive EXCEPT ![upd.user] = 0]
    /\ stale' = IF \E c \in Calls : call[c].user = upd.user
                THEN stale \cup {upd.user} ELSE stale \ {upd.user}
    /\ upd' = IF upd.speed = None THEN NoUpdate ELSE [upd EXCEPT !.at = "add"]
    /\ UNCHANGED <<Others, info, userOnline, bucket, updates>>

DelBucket ==
    /\ upd.at = "bucket"
    /\ bucket' = [bucket EXCEPT ![upd.user] = None]
    /\ alive' = [alive EXCEPT ![upd.user] = 0]
    /\ stale' = IF \E c \in Calls : call[c].user = upd.user
                THEN stale \cup {upd.user} ELSE stale \ {upd.user}
    /\ upd' = IF upd.speed = None THEN NoUpdate ELSE [upd EXCEPT !.at = "add"]
    /\ UNCHANGED <<Others, info, userOnline, updates>>

ReAdd ==
    /\ upd.at = "add"
    /\ info' = [info EXCEPT ![upd.user] = upd.speed] /\ upd' = NoUpdate
    /\ UNCHANGED <<Others, userOnline, alive, bucket, updates, stale>>

(* The monitor stores a new AliveList.                                     *)
SetAlive(u, n) ==
    /\ aliveChanges < MaxAliveChanges /\ alive[u] # n
    /\ alive' = [alive EXCEPT ![u] = n] /\ aliveChanges' = aliveChanges + 1
    /\ UNCHANGED <<info, userOnline, ips, old, bucket, call, rep, upd, calls,
                   reports, updates, admitted, known, leaked, stale>>

----------------------------------------------------------------------------
CheckLimit(c) == \/ \E u \in Users, i \in IPs : Check(c, u, i)
                 \/ Register(c) \/ Add(c) \/ LookOld(c) \/ Forget(c) \/ Undo(c)
                 \/ UndoFirst(c) \/ Speed(c) \/ Store(c)
GetOnlineDevice == \/ Begin \/ Drop \/ End
                   \/ \E u \in Users : Visit(u)
                   \/ \E i \in IPs : Copy(i)
UpdateUser == \/ \E u \in Users, s \in Speeds : AddInfo(u, s)
              \/ \E u \in Users, s \in Speeds \cup {None} : DelInfo(u, s)
              \/ DelOnline \/ DelBucket \/ ReAdd

Next == \/ \E c \in Calls : CheckLimit(c)
        \/ GetOnlineDevice \/ UpdateUser
        \/ \E u \in Users : \E n \in {0, DeviceLimit[u]} : SetAlive(u, n)

Spec == Init /\ [][Next]_vars

----------------------------------------------------------------------------
CallRecs ==
    [at : {"idle", "online", "add", "old", "forget", "undo", "undoFirst", "speed",
           "store"},
     user : Users \cup {None}, ip : IPs \cup {None}, over : BOOLEAN, speed : Nat,
     map : Objs \cup {None}, met : BOOLEAN, odd : BOOLEAN]

(* Type invariant.                                                         *)
LimiterTypeOK ==
    /\ info \in [Users -> Speeds \cup {None}]
    /\ userOnline \in [Users -> Objs \cup {None}]
    /\ ips \in [Objs -> SUBSET IPs] /\ old \in [IPs -> Users \cup {None}]
    /\ alive \in [Users -> Nat] /\ bucket \in [Users -> Nat \cup {None}]
    /\ call \in [Calls -> CallRecs]
    /\ \A c \in Calls :
        /\ call[c].at # "idle" => call[c].user \in Users /\ call[c].ip \in IPs
        /\ call[c].at \in {"add", "undo"} => call[c].map \in Objs
    /\ rep \in [at : {"idle", "range", "copy"}, users : SUBSET Users,
                user : Users \cup {None}, map : Objs \cup {None}, ips : SUBSET IPs]
    /\ rep.at = "copy" => rep.user \in Users /\ rep.map \in Objs
    /\ upd \in [at : {"idle", "online", "bucket", "add"}, user : Users \cup {None},
                speed : Speeds \cup {None}]
    /\ upd.at # "idle" <=> upd.user \in Users
    /\ upd.at = "add" => upd.speed \in Speeds
    /\ {calls, reports, updates, aliveChanges} \subseteq Nat
    /\ admitted \cup known \cup leaked \subseteq Users \X IPs
    /\ stale \subseteq Users

(* A device CheckLimit rejects leaves nothing behind: once no call for it  *)
(* is undecided, an address in a user's map is one that was admitted.      *)
RejectedLeave ==
    \A u \in Users : userOnline[u] # None =>
        \A i \in ips[userOnline[u]] :
            Undecided(u, i) = {} => <<u, i>> \in admitted \cup known

(* CheckLimit lets a device beyond the limit in only because its address   *)
(* is known from this period or the last, or through a race of two calls   *)
(* for the device or of a call with the online report.                     *)
OverLimitExplained ==
    \A c \in Calls : ~call[c].odd

(* Unless it is being updated, a user's bucket has the speed in force,     *)
(* or the user was updated while a connection of it was being checked      *)
(* (SpeedLimiter, UpdateUser).                                             *)
BucketMatches ==
    \A u \in Users \ stale :
        bucket[u] # None /\ upd.user # u
        => info[u] # None /\ bucket[u] = determineSpeedLimit(NodeSpeed, info[u])
============================================================================
