--------------------------- MODULE LimiterProofs ---------------------------
(* Proofs about Limiter: its type, what determineSpeedLimit returns, that  *)
(* a bucket has the speed in force, that rejected devices leave nothing    *)
(* behind, and why a device beyond the limit gets in.                      *)
EXTENDS Limiter, FiniteSetTheorems, TLAPS

(* determineSpeedLimit "returns the minimum non-zero rate": zero only when *)
(* neither limit is set, else one of the limits and no more than either    *)
(* that is set.                                                            *)
THEOREM DetermineSpeedLimit ==
    ASSUME NEW a \in Nat, NEW b \in Nat
    PROVE  LET r == determineSpeedLimit(a, b) IN
           /\ r = 0 <=> a = 0 /\ b = 0
           /\ r \in {a, b}
           /\ a # 0 => r <= a
           /\ b # 0 => r <= b
BY DEF determineSpeedLimit

(* The speed in force is a number, zero for none.                          *)
LEMMA RateNat ==
    ASSUME NEW s \in Nat
    PROVE  determineSpeedLimit(NodeSpeed, s) \in Nat
BY LimiterAssumption, DetermineSpeedLimit

(* The image of a finite set is no larger than the set.                    *)
LEMMA FiniteImage ==
    ASSUME NEW S, IsFiniteSet(S), NEW f, f \in [S -> {f[x] : x \in S}]
    PROVE  /\ IsFiniteSet({f[x] : x \in S})
           /\ Cardinality({f[x] : x \in S}) <= Cardinality(S)
           /\ Cardinality({f[x] : x \in S}) \in Nat
<1>1. f \in Surjection(S, {f[x] : x \in S})
  BY DEF Surjection
<1> QED BY <1>1, FS_Surjection, FS_CardinalityType

(* There is always a name left for a new inner map.                        *)
LEMMA NewMap ==
    ASSUME LimiterTypeOK
    PROVE  newMap \in Objs /\ newMap \notin Reachable
<1> DEFINE held == [c \in Calls |-> call[c].map]
           T == {userOnline[u] : u \in Users}
           C == {held[c] : c \in Calls}
<1>1. IsFiniteSet(T) /\ Cardinality(T) <= Cardinality(Users) /\ Cardinality(T) \in Nat
  <2>1. userOnline \in [Users -> T]
    BY DEF LimiterTypeOK
  <2> QED BY <2>1, FiniteImage, LimiterAssumption
<1>2. IsFiniteSet(C) /\ Cardinality(C) <= Cardinality(Calls) /\ Cardinality(C) \in Nat
  <2>1. held \in [Calls -> C]
    OBVIOUS
  <2> HIDE DEF held
  <2> QED BY <2>1, FiniteImage, LimiterAssumption
<1>3. Reachable = (T \cup C) \cup {rep.map}
  BY DEF Reachable
<1> HIDE DEF T, C
<1>4. /\ IsFiniteSet(T \cup C) /\ Cardinality(T \cup C) \in Nat
      /\ Cardinality(T \cup C) <= Cardinality(Users) + Cardinality(Calls)
  <2>1. IsFiniteSet(T \cap C) /\ Cardinality(T \cap C) \in Nat
    BY <1>1, FS_Intersection, FS_CardinalityType
  <2>2. Cardinality(Users) \in Nat /\ Cardinality(Calls) \in Nat
    BY LimiterAssumption, FS_CardinalityType
  <2>3. /\ IsFiniteSet(T \cup C)
        /\ Cardinality(T \cup C) = Cardinality(T) + Cardinality(C) - Cardinality(T \cap C)
    BY <1>1, <1>2, FS_Union
  <2>4. Cardinality(T \cup C) \in Nat
    BY <2>3, FS_CardinalityType
  <2> QED BY <1>1, <1>2, <2>1, <2>2, <2>3, <2>4
<1>5. /\ IsFiniteSet(Reachable) /\ Cardinality(Reachable) \in Nat
      /\ Cardinality(Reachable) < Cardinality(Objs)
  <2>1. /\ IsFiniteSet(Reachable)
        /\ Cardinality(Reachable) = IF rep.map \in T \cup C THEN Cardinality(T \cup C)
                                    ELSE Cardinality(T \cup C) + 1
    BY <1>3, <1>4, FS_AddElement
  <2>2. /\ Cardinality(Objs) \in Nat /\ Cardinality(Users) \in Nat
        /\ Cardinality(Calls) \in Nat
    BY LimiterAssumption, FS_CardinalityType
  <2> QED BY <1>4, <2>1, <2>2, LimiterAssumption
<1>6. \E o \in Objs : o \notin Reachable
  <2> SUFFICES ASSUME Objs \subseteq Reachable PROVE FALSE
    OBVIOUS
  <2>1. Cardinality(Objs) <= Cardinality(Reachable) /\ Cardinality(Objs) \in Nat
    BY <1>5, FS_Subset, LimiterAssumption, FS_CardinalityType
  <2> QED BY <2>1, <1>5
<1> QED BY <1>6 DEF newMap

----------------------------------------------------------------------------
(* The part of the type that the calls in progress make up.                *)
CallsOK ==
    /\ call \in [Calls -> CallRecs]
    /\ \A c \in Calls :
        /\ call[c].at # "idle" => call[c].user \in Users /\ call[c].ip \in IPs
        /\ call[c].at \in {"add", "undo"} => call[c].map \in Objs

(* A call that was let through records its device.                         *)
LEMMA PassType ==
    ASSUME CallsOK, admitted \subseteq Users \X IPs, NEW c \in Calls,
           call[c].user \in Users, call[c].ip \in IPs,
           NEW at \in {"forget", "speed"}, Pass(c, at)
    PROVE  CallsOK' /\ admitted' \subseteq Users \X IPs
<1> DEFINE odd == call[c].over /\ ~Reason(call[c].user, call[c].ip, call[c].met)
           new == [Idle EXCEPT !.at = at, !.user = call[c].user, !.ip = call[c].ip,
                               !.speed = call[c].speed, !.odd = odd]
<1>1. odd \in BOOLEAN /\ call[c].speed \in Nat
  BY DEF CallsOK, CallRecs
<1>2. call' = [call EXCEPT ![c] = new]
  BY DEF Pass
<1> HIDE DEF odd
<1>3. /\ new \in CallRecs /\ new.at = at /\ new.user \in Users /\ new.ip \in IPs
  BY <1>1 DEF CallRecs, Idle
<1> HIDE DEF new
<1>4. CallsOK'
  BY <1>2, <1>3 DEF CallsOK
<1>5. admitted' \subseteq Users \X IPs
  BY DEF Pass
<1> QED BY <1>4, <1>5

(* The limiter's maps keep their type; in particular every step of a call  *)
(* finds the inner map it works on.                                        *)
THEOREM LimiterTypeCorrect == Spec => []LimiterTypeOK
<1>1. Init => LimiterTypeOK
  BY LimiterAssumption DEF Init, LimiterTypeOK, Idle, CallRecs, NoReport, NoUpdate
<1>2. ASSUME LimiterTypeOK, [Next]_vars PROVE LimiterTypeOK'
  <2> USE <1>2, LimiterAssumption
  <2>1. CASE UNCHANGED vars
    BY <2>1 DEF vars, LimiterTypeOK
  <2>2. ASSUME NEW c \in Calls, CheckLimit(c) PROVE LimiterTypeOK'
    <3>0. CallsOK
      BY DEF CallsOK, LimiterTypeOK
    <3>1. ASSUME NEW u \in Users, NEW i \in IPs, Check(c, u, i) PROVE LimiterTypeOK'
      <4>1. CallsOK'
        <5> DEFINE over == DeviceLimit[u] > 0 /\ DeviceLimit[u] <= alive[u]
                   met == Undecided(u, i) # {}
                   new == [Idle EXCEPT !.at = "online", !.user = u, !.ip = i,
                              !.over = over, !.speed = info[u], !.met = met]
                   hit(d) == [call[d] EXCEPT !.met = TRUE]
        <5>1. info[u] \in Nat
          BY <3>1 DEF Check, LimiterTypeOK
        <5>2. over \in BOOLEAN /\ met \in BOOLEAN
          OBVIOUS
        <5>3. call' = [d \in Calls |-> IF d = c THEN new
                        ELSE IF d \in Undecided(u, i) THEN hit(d) ELSE call[d]]
          BY <3>1 DEF Check
        <5> HIDE DEF over, met
        <5>4. new \in CallRecs /\ new.at = "online" /\ new.user = u /\ new.ip = i
          BY <5>1, <5>2 DEF Idle, CallRecs
        <5>5. \A d \in Calls :
                /\ hit(d) \in CallRecs /\ hit(d).at = call[d].at /\ hit(d).ip = call[d].ip
                /\ hit(d).user = call[d].user /\ hit(d).map = call[d].map
          BY <3>0 DEF CallsOK, CallRecs
        <5> HIDE DEF new, hit
        <5> QED BY <3>0, <5>3, <5>4, <5>5 DEF CallsOK
      <4>2. /\ calls' = calls + 1
            /\ UNCHANGED <<info, userOnline, ips, old, alive, bucket, rep, upd, reports,
                           updates, aliveChanges, admitted, known, leaked, stale>>
        BY <3>1 DEF Check
      <4> QED BY <4>1, <4>2 DEF LimiterTypeOK, CallsOK
    <3>2. CASE Register(c)
      <4>1. userOnline' \in [Users -> Objs \cup {None}] /\ ips' \in [Objs -> SUBSET IPs]
        BY <3>2, NewMap DEF Register, LimiterTypeOK
      <4>2. CallsOK'
        BY <3>2, <3>0 DEF Register, CallsOK, CallRecs, LimiterTypeOK
      <4> QED BY <3>2, <4>1, <4>2 DEF Register, Rest, LimiterTypeOK, CallsOK
    <3>3. CASE Add(c)
      <4>1. call[c].user \in Users /\ call[c].ip \in IPs /\ call[c].map \in Objs
        BY <3>3, <3>0 DEF Add, CallsOK
      <4>2. CallsOK' /\ admitted' \subseteq Users \X IPs
        <5>1. CASE Pass(c, "speed")
          BY <3>0, <4>1, <5>1, PassType DEF LimiterTypeOK
        <5>2. CASE call' = [call EXCEPT ![c].at = "old"] /\ UNCHANGED admitted
          BY <3>0, <4>1, <5>2 DEF CallsOK, CallRecs, LimiterTypeOK
        <5> QED BY <3>3, <5>1, <5>2 DEF Add
      <4>3. ips' \in [Objs -> SUBSET IPs]
        BY <3>3, <4>1 DEF Add, LimiterTypeOK
      <4> QED BY <3>3, <4>2, <4>3 DEF Add, Rest, LimiterTypeOK, CallsOK
    <3>4. CASE LookOld(c)
      <4>1. call[c].user \in Users /\ call[c].ip \in IPs
        BY <3>4, <3>0 DEF LookOld, CallsOK
      <4>2. CallsOK' /\ admitted' \subseteq Users \X IPs
        <5>1. CASE Pass(c, "speed") \/ Pass(c, "forget")
          BY <3>0, <4>1, <5>1, PassType DEF LimiterTypeOK
        <5>2. CASE /\ call' = [call EXCEPT ![c].at =
                                  IF call[c].map = None THEN "undoFirst" ELSE "undo"]
                   /\ UNCHANGED admitted
          BY <3>0, <4>1, <5>2 DEF CallsOK, CallRecs, LimiterTypeOK
        <5> QED BY <3>4, <5>1, <5>2 DEF LookOld
      <4> QED BY <3>4, <4>2 DEF LookOld, Rest, LimiterTypeOK, CallsOK
    <3>5. CASE Forget(c)
      <4>1. CallsOK'
        BY <3>5, <3>0 DEF Forget, CallsOK, CallRecs
      <4>2. old' \in [IPs -> Users \cup {None}]
        BY <3>5 DEF Forget, LimiterTypeOK
      <4> QED BY <3>5, <4>1, <4>2 DEF Forget, Rest, LimiterTypeOK, CallsOK
    <3>6. ASSUME call' = [call EXCEPT ![c] = Idle] PROVE CallsOK'
      <4>1. Idle \in CallRecs /\ Idle.at = "idle"
        BY DEF Idle, CallRecs
      <4> QED BY <3>6, <3>0, <4>1 DEF CallsOK
    <3>7. CASE Undo(c)
      <4>1. call[c].map \in Objs /\ CallsOK'
        BY <3>7, <3>0, <3>6 DEF Undo, CallsOK
      <4>2. ips' \in [Objs -> SUBSET IPs]
        BY <3>7 DEF Undo, LimiterTypeOK
      <4> QED BY <3>7, <4>1, <4>2 DEF Undo, Rest, LimiterTypeOK, CallsOK
    <3>8. CASE UndoFirst(c)
      <4>1. userOnline' \in [Users -> Objs \cup {None}] /\ CallsOK'
        BY <3>8, <3>6 DEF UndoFirst, LimiterTypeOK
      <4> QED BY <3>8, <4>1 DEF UndoFirst, Rest, LimiterTypeOK, CallsOK
    <3>9. Rate(c) \in Nat
      BY <3>0, RateNat DEF Rate, CallsOK, CallRecs
    <3>10. CASE Speed(c)
      <4>1. CallsOK'
        <5>1. CASE call' = [call EXCEPT ![c] = Idle]
          BY <5>1, <3>6
        <5>2. CASE call' = [call EXCEPT ![c].at = "store"]
          BY <3>10, <5>2, <3>0 DEF Speed, CallsOK, CallRecs
        <5> QED BY <3>10, <5>1, <5>2 DEF Speed
      <4>2. bucket' \in [Users -> Nat \cup {None}]
        BY <3>10, <3>9 DEF Speed, LimiterTypeOK
      <4> QED BY <3>10, <4>1, <4>2 DEF Speed, Rest, LimiterTypeOK, CallsOK
    <3>11. CASE Store(c)
      <4>1. CallsOK' /\ bucket' \in [Users -> Nat \cup {None}]
        BY <3>11, <3>6, <3>9 DEF Store, LimiterTypeOK
      <4> QED BY <3>11, <4>1 DEF Store, Rest, LimiterTypeOK, CallsOK
    <3> QED BY <2>2, <3>1, <3>2, <3>3, <3>4, <3>5, <3>7, <3>8, <3>10, <3>11
            DEF CheckLimit
  <2>3. CASE GetOnlineDevice
    <3>1. CASE Begin
      <4>1. CallsOK'
        <5> DEFINE hit(d) == [call[d] EXCEPT !.met = TRUE]
        <5>1. \A d \in Calls :
                /\ hit(d) \in CallRecs /\ hit(d).at = call[d].at /\ hit(d).ip = call[d].ip
                /\ hit(d).user = call[d].user /\ hit(d).map = call[d].map
          <6>1. CallsOK
            BY DEF CallsOK, LimiterTypeOK
          <6> QED BY <6>1 DEF CallsOK, CallRecs
        <5>2. call' = [c \in Calls |->
                IF call[c].map # None /\ call[c].map # userOnline[call[c].user]
                THEN hit(c) ELSE call[c]]
          BY <3>1 DEF Begin
        <5> HIDE DEF hit
        <5> QED BY <5>1, <5>2 DEF CallsOK, LimiterTypeOK
      <4>2. /\ rep' \in [at : {"idle", "range", "copy"}, users : SUBSET Users,
                          user : Users \cup {None}, map : Objs \cup {None},
                          ips : SUBSET IPs]
            /\ rep'.at = "range"
        BY <3>1 DEF Begin, LimiterTypeOK
      <4> QED BY <3>1, <4>1, <4>2 DEF Begin, LimiterTypeOK, CallsOK
    <3>2. ASSUME NEW u \in Users, Visit(u) PROVE LimiterTypeOK'
      BY <3>2 DEF Visit, LimiterTypeOK
    <3>3. ASSUME NEW i \in IPs, Copy(i) PROVE LimiterTypeOK'
      BY <3>3 DEF Copy, LimiterTypeOK
    <3>4. CASE Drop
      BY <3>4 DEF Drop, LimiterTypeOK, NoReport
    <3>5. CASE End
      BY <3>5 DEF End, LimiterTypeOK, NoReport
    <3> QED BY <2>3, <3>1, <3>2, <3>3, <3>4, <3>5 DEF GetOnlineDevice
  <2>4. CASE UpdateUser
    <3>1. ASSUME NEW u \in Users, NEW s \in Speeds, AddInfo(u, s) PROVE LimiterTypeOK'
      BY <3>1 DEF AddInfo, Others, LimiterTypeOK
    <3>2. ASSUME NEW u \in Users, NEW s \in Speeds \cup {None}, DelInfo(u, s)
          PROVE  LimiterTypeOK'
      BY <3>2 DEF DelInfo, Others, LimiterTypeOK
    <3>3. CASE DelOnline
      BY <3>3 DEF DelOnline, Others, LimiterTypeOK
    <3>4. CASE DelBucket
      BY <3>4 DEF DelBucket, Others, LimiterTypeOK, NoUpdate
    <3>5. CASE ReAdd
      BY <3>5 DEF ReAdd, Others, LimiterTypeOK, NoUpdate
    <3> QED BY <2>4, <3>1, <3>2, <3>3, <3>4, <3>5 DEF UpdateUser
  <2>5. ASSUME NEW u \in Users, NEW n \in {0, DeviceLimit[u]}, SetAlive(u, n)
        PROVE  LimiterTypeOK'
    BY <2>5 DEF SetAlive, LimiterTypeOK
  <2> QED BY <2>1, <2>2, <2>3, <2>4, <2>5 DEF Next
<1> QED BY <1>1, <1>2, PTL DEF Spec

----------------------------------------------------------------------------
(* Why BucketMatches holds: outside an update every call of the user works *)
(* with the speed in force, and while the user is out of UserLimitInfo no  *)
(* call of it can begin.                                                   *)
InForce(u) ==
    /\ bucket[u] # None =>
         info[u] # None /\ bucket[u] = determineSpeedLimit(NodeSpeed, info[u])
    /\ \A c \in Calls : call[c].user = u => info[u] # None /\ call[c].speed = info[u]

Quiet(u) == bucket[u] = None /\ \A c \in Calls : call[c].user # u

BucketInv ==
    /\ upd.user \in Users => info[upd.user] = None
    /\ \A u \in Users \ stale :
        /\ upd.user # u => InForce(u)
        /\ upd.user = u /\ upd.at = "add" => Quiet(u)

(* Steps of a call that leave the limits, the buckets and the update alone *)
(* and at most end a call.                                                 *)
LEMMA CallStep ==
    ASSUME BucketInv, UNCHANGED <<info, bucket, upd, stale>>,
           \A c \in Calls : \/ call'[c].user = None
                            \/ /\ call'[c].user = call[c].user
                               /\ call'[c].speed = call[c].speed
    PROVE  BucketInv'
BY LimiterAssumption DEF BucketInv, InForce, Quiet

(* A user's bucket has the speed in force, unless an update of the user    *)
(* overtook a connection of it.                                            *)
THEOREM LimiterBucketMatches == Spec => []BucketMatches
<1>1. Init => BucketInv
  BY LimiterAssumption DEF Init, BucketInv, InForce, Quiet, Idle, NoUpdate
<1>2. ASSUME LimiterTypeOK, BucketInv, [Next]_vars PROVE BucketInv'
  <2> USE <1>2, LimiterAssumption
  <2>0. CallsOK
    BY DEF CallsOK, LimiterTypeOK
  <2>1. CASE UNCHANGED vars
    BY <2>1, CallStep DEF vars
  <2>2. ASSUME NEW c \in Calls, CheckLimit(c) PROVE BucketInv'
    <3>1. ASSUME NEW u \in Users, NEW i \in IPs, Check(c, u, i) PROVE BucketInv'
      <4>1. /\ info[u] # None /\ UNCHANGED <<info, bucket, upd, stale>>
            /\ call'[c].user = u /\ call'[c].speed = info[u]
            /\ \A d \in Calls \ {c} : /\ call'[d].user = call[d].user
                                      /\ call'[d].speed = call[d].speed
        <5>1. \A d \in Calls : LET hit == [call[d] EXCEPT !.met = TRUE] IN
                              hit.user = call[d].user /\ hit.speed = call[d].speed
          BY <2>0 DEF CallsOK, CallRecs
        <5> QED BY <3>1, <5>1 DEF Check, Idle
      <4>2. upd.user # u
        BY <4>1 DEF BucketInv
      <4> QED BY <4>1, <4>2 DEF BucketInv, InForce, Quiet
    <3>2. CASE Register(c)
      <4>1. \A d \in Calls : call'[d].user = call[d].user /\ call'[d].speed = call[d].speed
        BY <3>2, <2>0 DEF Register, CallsOK, CallRecs
      <4> QED BY <3>2, <4>1, CallStep DEF Register, Rest
    <3>3. ASSUME NEW at, Pass(c, at)
          PROVE  \A d \in Calls : call'[d].user = call[d].user /\ call'[d].speed = call[d].speed
      BY <3>3, <2>0 DEF Pass, Idle, CallsOK
    <3>4. CASE Add(c)
      <4>1. \A d \in Calls : call'[d].user = call[d].user /\ call'[d].speed = call[d].speed
        <5>1. CASE Pass(c, "speed")
          BY <5>1, <3>3
        <5>2. CASE call' = [call EXCEPT ![c].at = "old"]
          BY <5>2, <2>0 DEF CallsOK, CallRecs
        <5> QED BY <3>4, <5>1, <5>2 DEF Add
      <4> QED BY <3>4, <4>1, CallStep DEF Add, Rest
    <3>5. CASE LookOld(c)
      <4>1. \A d \in Calls : call'[d].user = call[d].user /\ call'[d].speed = call[d].speed
        <5>1. CASE Pass(c, "speed") \/ Pass(c, "forget")
          BY <5>1, <3>3
        <5>2. CASE call' = [call EXCEPT ![c].at =
                              IF call[c].map = None THEN "undoFirst" ELSE "undo"]
          BY <5>2, <2>0 DEF CallsOK, CallRecs
        <5> QED BY <3>5, <5>1, <5>2 DEF LookOld
      <4> QED BY <3>5, <4>1, CallStep DEF LookOld, Rest
    <3>6. CASE Forget(c)
      <4>1. \A d \in Calls : call'[d].user = call[d].user /\ call'[d].speed = call[d].speed
        BY <3>6, <2>0 DEF Forget, CallsOK, CallRecs
      <4> QED BY <3>6, <4>1, CallStep DEF Forget, Rest
    <3>7. ASSUME call' = [call EXCEPT ![c] = Idle]
          PROVE  /\ call'[c].user = None
                 /\ \A d \in Calls \ {c} : call'[d] = call[d]
      BY <3>7, <2>0 DEF Idle, CallsOK
    <3>8. CASE Undo(c)
      BY <3>8, <3>7, CallStep DEF Undo, Rest
    <3>9. CASE UndoFirst(c)
      BY <3>9, <3>7, CallStep DEF UndoFirst, Rest
    <3>10. ASSUME call[c].at # "idle", UNCHANGED <<info, upd, stale>>,
                  bucket' = [bucket EXCEPT ![call[c].user] = Rate(c)],
                  \A d \in Calls : \/ call'[d].user = None
                                   \/ /\ call'[d].user = call[d].user
                                      /\ call'[d].speed = call[d].speed
           PROVE  BucketInv'
      <4> DEFINE u == call[c].user
      <4>1. u \in Users /\ bucket' = [bucket EXCEPT ![u] = Rate(c)]
        BY <3>10, <2>0 DEF CallsOK
      <4>2. bucket'[u] = determineSpeedLimit(NodeSpeed, call[c].speed)
        BY <4>1 DEF LimiterTypeOK, Rate
      <4>3. \A v \in Users \ {u} : bucket'[v] = bucket[v]
        BY <4>1 DEF LimiterTypeOK
      <4>4. ASSUME NEW v \in Users \ stale, upd.user # v PROVE InForce(v)'
        <5>1. InForce(v)
          BY <4>4 DEF BucketInv
        <5> QED BY <5>1, <3>10, <4>2, <4>3 DEF InForce
      <4>5. ASSUME NEW v \in Users \ stale, upd.user = v, upd.at = "add" PROVE Quiet(v)'
        <5>1. Quiet(v) /\ v # u
          BY <4>5 DEF BucketInv, Quiet
        <5> QED BY <5>1, <3>10, <4>3 DEF Quiet
      <4> QED BY <3>10, <4>4, <4>5 DEF BucketInv
    <3>11. CASE Speed(c)
      <4>1. CASE call' = [call EXCEPT ![c] = Idle] /\ UNCHANGED bucket
        BY <3>11, <4>1, <3>7, CallStep DEF Speed, Rest
      <4>2. CASE /\ bucket' = [bucket EXCEPT ![call[c].user] = Rate(c)]
                 /\ call' = [call EXCEPT ![c].at = "store"]
        <5>1. \A d \in Calls : call'[d].user = call[d].user /\ call'[d].speed = call[d].speed
          BY <4>2, <2>0 DEF CallsOK, CallRecs
        <5> QED BY <3>11, <4>2, <5>1, <3>10 DEF Speed, Rest
      <4> QED BY <3>11, <4>1, <4>2 DEF Speed
    <3>12. CASE Store(c)
      BY <3>12, <3>7, <3>10 DEF Store, Rest
    <3> QED BY <2>2, <3>1, <3>2, <3>4, <3>5, <3>6, <3>8, <3>9, <3>11, <3>12
            DEF CheckLimit
  <2>3. CASE GetOnlineDevice
    <3>1. CASE Begin
      <4>1. \A c \in Calls : call'[c].user = call[c].user /\ call'[c].speed = call[c].speed
        <5>1. \A c \in Calls : LET hit == [call[c] EXCEPT !.met = TRUE] IN
                              hit.user = call[c].user /\ hit.speed = call[c].speed
          BY <2>0 DEF CallsOK, CallRecs
        <5> QED BY <3>1, <5>1 DEF Begin
      <4> QED BY <3>1, <4>1, CallStep DEF Begin
    <3> QED BY <2>3, <3>1, CallStep DEF GetOnlineDevice, Visit, Copy, Drop, End
  <2>4. CASE UpdateUser
    <3>1. ASSUME NEW u \in Users, NEW s \in Speeds, AddInfo(u, s) PROVE BucketInv'
      <4>1. /\ info[u] = None /\ upd.user \notin Users /\ info'[u] = s
            /\ \A v \in Users \ {u} : info'[v] = info[v]
            /\ UNCHANGED <<bucket, upd, stale, call>>
        BY <3>1 DEF AddInfo, Others, LimiterTypeOK
      <4> QED BY <4>1 DEF BucketInv, InForce, Quiet
    <3>2. ASSUME NEW u \in Users, NEW s \in Speeds \cup {None}, DelInfo(u, s)
          PROVE  BucketInv'
      <4>1. /\ upd.user \notin Users /\ info'[u] = None /\ upd'.user = u
            /\ upd'.at = "online" /\ \A v \in Users \ {u} : info'[v] = info[v]
            /\ UNCHANGED <<bucket, stale, call>>
        BY <3>2 DEF DelInfo, Others, LimiterTypeOK
      <4> QED BY <4>1 DEF BucketInv, InForce, Quiet
    <3>3. CASE DelOnline
      <4>1. /\ upd'.user = upd.user /\ upd'.at = "bucket"
            /\ UNCHANGED <<info, bucket, stale, call>>
        BY <3>3 DEF DelOnline, Others, LimiterTypeOK
      <4> QED BY <4>1 DEF BucketInv, InForce, Quiet
    <3>4. CASE DelBucket
      <4> DEFINE u == upd.user
      <4>1. /\ u \in Users /\ bucket'[u] = None
            /\ \A v \in Users \ {u} : bucket'[v] = bucket[v]
            /\ UNCHANGED <<info, call>>
            /\ \A v \in Users \ {u} : v \in stale' <=> v \in stale
            /\ u \notin stale' => \A c \in Calls : call[c].user # u
        BY <3>4 DEF DelBucket, Others, LimiterTypeOK
      <4>2. upd'.user \in {None, u}
        BY <3>4 DEF DelBucket, NoUpdate, LimiterTypeOK
      <4> HIDE DEF u
      <4>3. ASSUME NEW v \in Users \ stale' PROVE InForce(v)' /\ (v = u => Quiet(v)')
        <5>1. CASE v = u
          BY <5>1, <4>1, <4>3 DEF InForce, Quiet
        <5>2. CASE v # u
          <6>1. InForce(v)
            BY <5>2, <4>1, <4>3 DEF BucketInv, u
          <6> QED BY <6>1, <5>2, <4>1 DEF InForce
        <5> QED BY <5>1, <5>2
      <4>4. info'[u] = None
        BY <4>1 DEF BucketInv, u
      <4> QED BY <4>1, <4>2, <4>3, <4>4 DEF BucketInv
    <3>5. CASE ReAdd
      <4>1. /\ upd.user \in Users /\ upd'.user = None /\ upd.at = "add"
            /\ \A v \in Users \ {upd.user} : info'[v] = info[v]
            /\ UNCHANGED <<bucket, call, stale>>
        BY <3>5 DEF ReAdd, Others, LimiterTypeOK, NoUpdate
      <4> QED BY <4>1 DEF BucketInv, InForce, Quiet
    <3> QED BY <2>4, <3>1, <3>2, <3>3, <3>4, <3>5 DEF UpdateUser
  <2>5. ASSUME NEW u \in Users, NEW n \in {0, DeviceLimit[u]}, SetAlive(u, n)
        PROVE  BucketInv'
    BY <2>5, CallStep DEF SetAlive
  <2> QED BY <2>1, <2>2, <2>3, <2>4, <2>5 DEF Next
<1>3. BucketInv => BucketMatches
  BY DEF BucketInv, InForce, BucketMatches
<1> QED BY <1>1, <1>2, <1>3, LimiterTypeCorrect, PTL DEF Spec

----------------------------------------------------------------------------
(* Whose inner maps are: no two users share one, and who loaded one works  *)
(* for its user, also after it was replaced.                               *)
Owned ==
    /\ \A u, v \in Users : userOnline[u] # None /\ userOnline[u] = userOnline[v]
                            => u = v
    /\ \A c \in Calls, u \in Users :
          call[c].map # None /\ call[c].map = userOnline[u] => call[c].user = u
    /\ \A c, d \in Calls :
          call[c].map # None /\ call[c].map = call[d].map => call[c].user = call[d].user
    /\ \A c \in Calls : call[c].at = "online" => call[c].map = None

(* Two calls for one device that are both undecided know of each other.    *)
Undeciding == {"online", "add", "old", "undo", "undoFirst"}
Same(c, d) ==
    /\ call[c].at \in Undeciding /\ call[d].at \in Undeciding
    /\ call[c].user = call[d].user /\ call[c].ip = call[d].ip
Meet == \A c, d \in Calls : c # d /\ Same(c, d) => call[c].met

(* An address in a user's map was admitted in this period, or in the last  *)
(* one when the report has yet to drop the map, or a call that will take   *)
(* it out again when it rejects the device has put it there.               *)
Due(u) == rep.at # "idle" /\ (u \in rep.users \/ (rep.at = "copy" /\ rep.user = u))
Seen(u, i) == <<u, i>> \in admitted \/ (<<u, i>> \in known /\ Due(u))
Liable(c, u, i) ==
    /\ call[c].user = u /\ call[c].ip = i
    /\ \/ call[c].at \in {"old", "undo"} /\ call[c].map = userOnline[u]
       \/ call[c].at \in {"old", "undoFirst"} /\ call[c].map = None
Listed ==
    \A u \in Users, i \in IPs :
        userOnline[u] # None /\ i \in ips[userOnline[u]]
        => Seen(u, i) \/ \E c \in Calls : Liable(c, u, i)

(* A device that a call is about to find in the map it loaded, which may   *)
(* have been dropped since.                                                *)
Found ==
    \A c \in Calls :
        call[c].at = "add" /\ ~call[c].met /\ call[c].ip \in ips[call[c].map]
        => <<call[c].user, call[c].ip>> \in admitted \cup known

OldKnown ==
    \A i \in IPs : old[i] # None => <<old[i], i>> \in admitted \cup known \cup leaked

DeviceInv == Owned /\ Meet /\ Listed /\ Found /\ OldKnown /\ OverLimitExplained

(* Steps that take addresses or maps away and at most end calls.           *)
LEMMA DevicesShrink ==
    ASSUME LimiterTypeOK, DeviceInv,
           \A u \in Users : userOnline'[u] = userOnline[u] \/ userOnline'[u] = None,
           \A o \in Objs : ips'[o] \subseteq ips[o],
           admitted' = admitted, known' = known, leaked \subseteq leaked',
           \A i \in IPs : old'[i] = old[i] \/ old'[i] = None,
           \A c \in Calls :
              \/ call'[c] = call[c]
              \/ /\ call'[c].at \notin Undeciding /\ ~call'[c].odd
                 /\ call'[c].map # None => /\ call'[c].map = call[c].map
                                           /\ call'[c].user = call[c].user,
           \A u \in Users, i \in IPs :
              userOnline'[u] # None /\ i \in ips'[userOnline'[u]]
              => /\ Due(u) => Due(u)'
                 /\ \A c \in Calls : Liable(c, u, i) => call'[c] = call[c]
    PROVE  DeviceInv'
<1>1. Owned'
  BY DEF DeviceInv, Owned, Undeciding
<1>2. Meet'
  BY DEF DeviceInv, Meet, Same
<1>3. Listed'
  <2> SUFFICES ASSUME NEW u \in Users, NEW i \in IPs, userOnline'[u] # None,
                      i \in ips'[userOnline'[u]]
               PROVE  Seen(u, i)' \/ \E c \in Calls : Liable(c, u, i)'
    BY DEF Listed
  <2>1. userOnline'[u] = userOnline[u] /\ userOnline[u] \in Objs
    BY DEF LimiterTypeOK
  <2>2. Seen(u, i) \/ \E c \in Calls : Liable(c, u, i)
    BY <2>1 DEF DeviceInv, Listed
  <2>3. CASE Seen(u, i)
    BY <2>3 DEF Seen
  <2>4. ASSUME NEW c \in Calls, Liable(c, u, i) PROVE Liable(c, u, i)'
    BY <2>1, <2>4 DEF Liable
  <2> QED BY <2>2, <2>3, <2>4
<1>4. Found'
  <2> SUFFICES ASSUME NEW c \in Calls, call'[c].at = "add", ~call'[c].met,
                      call'[c].ip \in ips'[call'[c].map]
               PROVE  <<call'[c].user, call'[c].ip>> \in admitted \cup known
    BY DEF Found
  <2>1. call'[c] = call[c]
    BY DEF Undeciding
  <2>2. call[c].map \in Objs
    BY <2>1 DEF LimiterTypeOK
  <2> QED BY <2>1, <2>2 DEF DeviceInv, Found
<1>5. OldKnown'
  BY DEF DeviceInv, OldKnown
<1>6. OverLimitExplained'
  BY DEF DeviceInv, OverLimitExplained
<1> QED BY <1>1, <1>2, <1>3, <1>4, <1>5, <1>6 DEF DeviceInv

(* A call lets its device in.                                              *)
LEMMA DevicePasses ==
    ASSUME LimiterTypeOK, DeviceInv, NEW c \in Calls, NEW at \in {"forget", "speed"},
           Pass(c, at), call[c].at # "idle",
           UNCHANGED <<userOnline, ips, old, known, leaked, rep>>,
           call[c].over => Reason(call[c].user, call[c].ip, call[c].met)
    PROVE  DeviceInv'
<1> DEFINE u == call[c].user
           i == call[c].ip
<1>0. u \in Users /\ i \in IPs
  BY DEF LimiterTypeOK
<1>1. /\ \A d \in Calls \ {c} : call'[d] = call[d]
      /\ call'[c].at = at /\ call'[c].map = None /\ ~call'[c].odd
      /\ admitted' = admitted \cup {<<u, i>>}
  BY DEF Pass, Idle, LimiterTypeOK
<1>2. Owned'
  BY <1>1 DEF DeviceInv, Owned
<1>3. Meet'
  BY <1>1 DEF DeviceInv, Meet, Same, Undeciding
<1>4. Listed'
  <2> SUFFICES ASSUME NEW v \in Users, NEW j \in IPs, userOnline[v] # None,
                      j \in ips[userOnline[v]]
               PROVE  Seen(v, j)' \/ \E d \in Calls : Liable(d, v, j)'
    BY DEF Listed
  <2>1. CASE Seen(v, j)
    BY <1>1, <2>1 DEF Seen, Due
  <2>2. ASSUME NEW d \in Calls, Liable(d, v, j)
        PROVE  Seen(v, j)' \/ Liable(d, v, j)'
    <3>1. CASE d = c
      BY <1>1, <2>2, <3>1 DEF Liable, Seen
    <3>2. CASE d # c
      BY <1>1, <2>2, <3>2 DEF Liable
    <3> QED BY <3>1, <3>2
  <2> QED BY <2>1, <2>2 DEF DeviceInv, Listed
<1>5. Found'
  BY <1>1 DEF DeviceInv, Found
<1>6. OldKnown'
  BY <1>1 DEF DeviceInv, OldKnown
<1>7. OverLimitExplained'
  BY <1>1 DEF DeviceInv, OverLimitExplained
<1> QED BY <1>2, <1>3, <1>4, <1>5, <1>6, <1>7 DEF DeviceInv

(* A device in the map a call loaded got in before, or the call knows of   *)
(* another one for it.                                                     *)
LEMMA ListedOrMet ==
    ASSUME LimiterTypeOK, DeviceInv, NEW c \in Calls, call[c].at \in {"online", "add"},
           userOnline[call[c].user] # None, call[c].ip \in ips[userOnline[call[c].user]],
           ~call[c].met
    PROVE  Seen(call[c].user, call[c].ip)
<1>1. call[c].user \in Users /\ call[c].ip \in IPs
  BY DEF LimiterTypeOK
<1>2. ASSUME NEW d \in Calls, Liable(d, call[c].user, call[c].ip) PROVE FALSE
  <2>1. d # c /\ Same(c, d)
    BY <1>2 DEF Liable, Same, Undeciding
  <2> QED BY <2>1 DEF DeviceInv, Meet
<1> QED BY <1>1, <1>2 DEF DeviceInv, Listed

(* CheckLimit begins.                                                      *)
LEMMA CheckDevices ==
    ASSUME LimiterTypeOK, DeviceInv, NEW c \in Calls, NEW u \in Users, NEW i \in IPs,
           Check(c, u, i)
    PROVE  DeviceInv'
<1> USE LimiterAssumption
<1>0. CallsOK /\ call[c].at = "idle"
  BY DEF Check, CallsOK, LimiterTypeOK
<1>1. /\ call'[c].at = "online" /\ call'[c].user = u /\ call'[c].ip = i
      /\ call'[c].map = None /\ ~call'[c].odd
      /\ call'[c].met <=> Undecided(u, i) # {}
  <2> DEFINE over == DeviceLimit[u] > 0 /\ DeviceLimit[u] <= alive[u]
             met == Undecided(u, i) # {}
             new == [Idle EXCEPT !.at = "online", !.user = u, !.ip = i,
                              !.over = over, !.speed = info[u], !.met = met]
  <2>1. call'[c] = new
    BY DEF Check
  <2> HIDE DEF over, met
  <2>2. /\ new.at = "online" /\ new.user = u /\ new.ip = i /\ new.map = None
        /\ new.odd = FALSE /\ new.met = met
    BY DEF Idle
  <2> HIDE DEF new
  <2> QED BY <2>1, <2>2 DEF met
<1>2. \A d \in Calls \ {c} :
        /\ call'[d].at = call[d].at /\ call'[d].user = call[d].user
        /\ call'[d].ip = call[d].ip /\ call'[d].map = call[d].map
        /\ call'[d].odd = call[d].odd
        /\ call[d].met => call'[d].met
        /\ d \in Undecided(u, i) => call'[d].met
  <2> DEFINE hit(d) == [call[d] EXCEPT !.met = TRUE]
  <2>1. \A d \in Calls : /\ hit(d).at = call[d].at /\ hit(d).ip = call[d].ip
                         /\ hit(d).user = call[d].user /\ hit(d).map = call[d].map
                         /\ hit(d).odd = call[d].odd /\ hit(d).met = TRUE
    BY <1>0 DEF CallsOK, CallRecs
  <2>2. \A d \in Calls \ {c} :
            call'[d] = IF d \in Undecided(u, i) THEN hit(d) ELSE call[d]
    BY DEF Check
  <2> HIDE DEF hit
  <2> QED BY <2>1, <2>2
<1>3. UNCHANGED <<userOnline, ips, old, rep, admitted, known, leaked>>
  BY DEF Check
<1>4. Owned'
  BY <1>1, <1>2, <1>3 DEF DeviceInv, Owned
<1>5. Meet'
  <2> SUFFICES ASSUME NEW a \in Calls, NEW b \in Calls, a # b, Same(a, b)'
               PROVE  call'[a].met
    BY DEF Meet
  <2>1. CASE a = c
    <3>1. b \in Undecided(u, i)
      BY <1>1, <1>2, <2>1 DEF Same, Undecided, Undeciding
    <3> QED BY <1>1, <2>1, <3>1
  <2>2. CASE b = c
    <3>1. a \in Undecided(u, i)
      BY <1>1, <1>2, <2>2 DEF Same, Undecided, Undeciding
    <3> QED BY <1>2, <2>2, <3>1
  <2>3. CASE a # c /\ b # c
    BY <1>2, <2>3 DEF DeviceInv, Meet, Same
  <2> QED BY <2>1, <2>2, <2>3
<1>6. Listed'
  <2>1. \A d \in Calls, v \in Users, j \in IPs : Liable(d, v, j) => Liable(d, v, j)'
    BY <1>0, <1>1, <1>2, <1>3 DEF Liable
  <2>2. \A v \in Users, j \in IPs : Seen(v, j) => Seen(v, j)'
    BY <1>3 DEF Seen, Due
  <2> QED BY <1>3, <2>1, <2>2 DEF DeviceInv, Listed
<1>7. Found'
  BY <1>1, <1>2, <1>3 DEF DeviceInv, Found
<1>8. OldKnown' /\ OverLimitExplained'
  BY <1>1, <1>2, <1>3 DEF DeviceInv, OldKnown, OverLimitExplained
<1> QED BY <1>4, <1>5, <1>6, <1>7, <1>8 DEF DeviceInv

(* LoadOrStore of the user's inner map.                                    *)
LEMMA RegisterDevices ==
    ASSUME LimiterTypeOK, DeviceInv, NEW c \in Calls, Register(c)
    PROVE  DeviceInv'
<1> USE LimiterAssumption
<1> DEFINE u == call[c].user
           i == call[c].ip
<1>0. /\ CallsOK /\ call[c].at = "online" /\ u \in Users /\ i \in IPs
      /\ call[c].map = None
      /\ UNCHANGED <<old, rep, admitted, known, leaked>>
  BY DEF Register, Rest, CallsOK, LimiterTypeOK, DeviceInv, Owned
<1>1. CASE userOnline[u] = None
  <2>1. /\ newMap \in Objs /\ newMap \notin Reachable /\ newMap # None
    BY NewMap
  <2>2. /\ userOnline' = [userOnline EXCEPT ![u] = newMap]
        /\ ips' = [o \in Objs |-> IF o = newMap THEN {i}
                                   ELSE IF o \in Reachable THEN ips[o] ELSE {}]
        /\ call' = [call EXCEPT ![c].at = "old"]
    BY <1>1 DEF Register
  <2>3. /\ userOnline'[u] = newMap
        /\ \A v \in Users \ {u} : userOnline'[v] = userOnline[v]
        /\ \A v \in Users : userOnline[v] # newMap
        /\ \A d \in Calls : call[d].map # newMap
    BY <1>0, <2>1, <2>2 DEF LimiterTypeOK, Reachable
  <2>4. /\ call'[c].at = "old" /\ call'[c].user = u /\ call'[c].ip = i
        /\ call'[c].map = None /\ call'[c].odd = call[c].odd
        /\ call'[c].met = call[c].met
        /\ \A d \in Calls \ {c} : call'[d] = call[d]
    BY <1>0, <2>2 DEF CallsOK, CallRecs
  <2>5. /\ ips'[newMap] = {i}
        /\ \A v \in Users : userOnline[v] # None
                             => ips'[userOnline[v]] = ips[userOnline[v]]
        /\ \A d \in Calls : call[d].map # None => ips'[call[d].map] = ips[call[d].map]
    BY <1>0, <2>1, <2>2, <2>3 DEF LimiterTypeOK, Reachable, CallsOK, CallRecs
  <2> HIDE DEF u, i
  <2>6. Owned'
    BY <2>1, <2>3, <2>4 DEF DeviceInv, Owned
  <2>7. Meet'
    BY <1>0, <2>4 DEF DeviceInv, Meet, Same, Undeciding, u, i
  <2>8. Listed'
    <3> SUFFICES ASSUME NEW v \in Users, NEW j \in IPs, userOnline'[v] # None,
                        j \in ips'[userOnline'[v]]
                 PROVE  Seen(v, j)' \/ \E d \in Calls : Liable(d, v, j)'
      BY DEF Listed
    <3>1. CASE v = u
      <4>1. j = i
        BY <2>3, <2>5, <3>1
      <4>2. Liable(c, v, j)'
        BY <2>4, <3>1, <4>1 DEF Liable
      <4> QED BY <4>2
    <3>2. CASE v # u
      <4>1. userOnline'[v] = userOnline[v] /\ j \in ips[userOnline[v]]
        BY <2>3, <2>5, <3>2
      <4>2. Seen(v, j) => Seen(v, j)'
        BY <1>0 DEF Seen, Due
      <4>3. ASSUME NEW d \in Calls, Liable(d, v, j) PROVE Liable(d, v, j)'
        BY <1>0, <2>4, <3>2, <4>1, <4>3 DEF Liable, u
      <4> QED BY <4>1, <4>2, <4>3 DEF DeviceInv, Listed
    <3> QED BY <3>1, <3>2
  <2>9. Found'
    BY <1>0, <2>4, <2>5 DEF DeviceInv, Found, LimiterTypeOK
  <2>10. OldKnown' /\ OverLimitExplained'
    BY <1>0, <2>4 DEF DeviceInv, OldKnown, OverLimitExplained
  <2> QED BY <2>6, <2>7, <2>8, <2>9, <2>10 DEF DeviceInv
<1>2. CASE userOnline[u] # None
  <2>1. /\ call' = [call EXCEPT ![c].at = "add", ![c].map = userOnline[u]]
        /\ UNCHANGED <<userOnline, ips>>
    BY <1>2 DEF Register
  <2>2. /\ call'[c].at = "add" /\ call'[c].user = u /\ call'[c].ip = i
        /\ call'[c].map = userOnline[u] /\ call'[c].odd = call[c].odd
        /\ call'[c].met = call[c].met
        /\ \A d \in Calls \ {c} : call'[d] = call[d]
    BY <1>0, <2>1 DEF CallsOK, CallRecs
  <2>3. ~call[c].met /\ i \in ips[userOnline[u]] => Seen(u, i)
    BY <1>0, <1>2, ListedOrMet
  <2> HIDE DEF u, i
  <2>4. Owned'
    <3>1. \A d \in Calls : call[d].map = userOnline[u] => call[d].user = u
      BY <1>0, <1>2 DEF DeviceInv, Owned
    <3>2. \A d \in Calls, v \in Users :
            call'[d].map # None /\ call'[d].map = userOnline'[v] => call'[d].user = v
      <4> SUFFICES ASSUME NEW d \in Calls, NEW v \in Users, call'[d].map # None,
                          call'[d].map = userOnline[v]
                   PROVE  call'[d].user = v
        BY <2>1
      <4>1. CASE d = c
        BY <1>0, <1>2, <2>2, <4>1 DEF DeviceInv, Owned
      <4>2. CASE d # c
        BY <2>2, <4>2 DEF DeviceInv, Owned
      <4> QED BY <4>1, <4>2
    <3>3. \A d, e \in Calls :
            call'[d].map # None /\ call'[d].map = call'[e].map
            => call'[d].user = call'[e].user
      BY <2>2, <3>1 DEF DeviceInv, Owned
    <3>4. \A d \in Calls : call'[d].at = "online" => call'[d].map = None
      BY <2>2 DEF DeviceInv, Owned
    <3> QED BY <2>1, <3>2, <3>3, <3>4 DEF DeviceInv, Owned
  <2>5. Meet'
    BY <1>0, <2>2 DEF DeviceInv, Meet, Same, Undeciding, u, i
  <2>6. Listed'
    <3>1. \A d \in Calls, v \in Users, j \in IPs : Liable(d, v, j) => Liable(d, v, j)'
      BY <1>0, <2>1, <2>2 DEF Liable
    <3>2. \A v \in Users, j \in IPs : Seen(v, j) => Seen(v, j)'
      BY <1>0 DEF Seen, Due
    <3> QED BY <2>1, <3>1, <3>2 DEF DeviceInv, Listed
  <2>7. Found'
    <3> SUFFICES ASSUME NEW d \in Calls, call'[d].at = "add", ~call'[d].met,
                        call'[d].ip \in ips'[call'[d].map]
                 PROVE  <<call'[d].user, call'[d].ip>> \in admitted' \cup known'
      BY DEF Found
    <3>1. CASE d = c
      BY <1>0, <2>1, <2>2, <2>3, <3>1 DEF Seen
    <3>2. CASE d # c
      BY <1>0, <2>1, <2>2, <3>2 DEF DeviceInv, Found
    <3> QED BY <3>1, <3>2
  <2>8. OldKnown' /\ OverLimitExplained'
    BY <1>0, <2>2 DEF DeviceInv, OldKnown, OverLimitExplained
  <2> QED BY <2>4, <2>5, <2>6, <2>7, <2>8 DEF DeviceInv
<1> QED BY <1>1, <1>2

(* LoadOrStore of the address in the inner map.                            *)
LEMMA AddDevices ==
    ASSUME LimiterTypeOK, DeviceInv, NEW c \in Calls, Add(c)
    PROVE  DeviceInv'
<1> USE LimiterAssumption
<1> DEFINE u == call[c].user
           i == call[c].ip
           o == call[c].map
<1>0. /\ CallsOK /\ call[c].at = "add" /\ u \in Users /\ i \in IPs /\ o \in Objs
      /\ UNCHANGED <<userOnline, old, rep, known, leaked>>
  BY DEF Add, Rest, CallsOK, LimiterTypeOK
<1>1. CASE i \in ips[o]
  <2>1. Pass(c, "speed") /\ UNCHANGED ips
    BY <1>1 DEF Add
  <2>2. Reason(u, i, call[c].met)
    BY <1>0, <1>1 DEF DeviceInv, Found, Reason
  <2> QED BY <1>0, <2>1, <2>2, DevicePasses
<1>2. CASE i \notin ips[o]
  <2>1. /\ ips' = [ips EXCEPT ![o] = @ \cup {i}]
        /\ call' = [call EXCEPT ![c].at = "old"] /\ UNCHANGED admitted
    BY <1>2 DEF Add
  <2>2. /\ call'[c].at = "old" /\ call'[c].user = u /\ call'[c].ip = i
        /\ call'[c].map = o /\ call'[c].odd = call[c].odd
        /\ call'[c].met = call[c].met
        /\ \A d \in Calls \ {c} : call'[d] = call[d]
    BY <1>0, <2>1 DEF CallsOK, CallRecs
  <2>3. ips'[o] = ips[o] \cup {i} /\ \A p \in Objs \ {o} : ips'[p] = ips[p]
    BY <1>0, <2>1 DEF LimiterTypeOK
  <2> HIDE DEF u, i, o
  <2>4. Owned'
    BY <1>0, <2>2 DEF DeviceInv, Owned, u, o
  <2>5. Meet'
    BY <1>0, <2>2 DEF DeviceInv, Meet, Same, Undeciding, u, i
  <2>6. Listed'
    <3> SUFFICES ASSUME NEW v \in Users, NEW j \in IPs, userOnline[v] # None,
                        j \in ips'[userOnline[v]]
                 PROVE  Seen(v, j)' \/ \E d \in Calls : Liable(d, v, j)'
      BY <1>0 DEF Listed
    <3>0. userOnline[v] \in Objs
      BY DEF LimiterTypeOK
    <3>1. CASE j \in ips[userOnline[v]]
      <4>1. Seen(v, j) => Seen(v, j)'
        BY <1>0, <2>1 DEF Seen, Due
      <4>2. ASSUME NEW d \in Calls, Liable(d, v, j) PROVE Liable(d, v, j)'
        BY <1>0, <2>2, <4>2 DEF Liable
      <4> QED BY <3>1, <4>1, <4>2 DEF DeviceInv, Listed
    <3>2. CASE j \notin ips[userOnline[v]]
      <4>1. userOnline[v] = o /\ j = i
        BY <2>3, <3>0, <3>2
      <4>2. v = u
        BY <1>0, <4>1 DEF DeviceInv, Owned, u, o
      <4>3. Liable(c, v, j)'
        BY <1>0, <2>2, <4>1, <4>2 DEF Liable
      <4> QED BY <4>3
    <3> QED BY <3>1, <3>2
  <2>7. Found'
    <3> SUFFICES ASSUME NEW d \in Calls, call'[d].at = "add", ~call'[d].met,
                        call'[d].ip \in ips'[call'[d].map]
                 PROVE  <<call'[d].user, call'[d].ip>> \in admitted' \cup known'
      BY DEF Found
    <3>1. d # c /\ call'[d] = call[d] /\ call[d].map \in Objs
      BY <2>2 DEF LimiterTypeOK
    <3>2. CASE call[d].ip \in ips[call[d].map]
      BY <1>0, <2>1, <3>1, <3>2 DEF DeviceInv, Found
    <3>3. CASE call[d].ip \notin ips[call[d].map]
      <4>1. call[d].map = o /\ call[d].ip = i
        BY <2>3, <3>1, <3>3
      <4>2. call[d].user = u
        BY <1>0, <4>1 DEF DeviceInv, Owned, u, o
      <4>3. Same(d, c)
        BY <1>0, <3>1, <4>1, <4>2 DEF Same, Undeciding, u, i
      <4> QED BY <3>1, <4>3 DEF DeviceInv, Meet
    <3> QED BY <3>2, <3>3
  <2>8. OldKnown' /\ OverLimitExplained'
    BY <1>0, <2>1, <2>2 DEF DeviceInv, OldKnown, OverLimitExplained
  <2> QED BY <2>4, <2>5, <2>6, <2>7, <2>8 DEF DeviceInv
<1> QED BY <1>1, <1>2

(* An address that is not new: the devices of the last report.             *)
LEMMA LookOldDevices ==
    ASSUME LimiterTypeOK, DeviceInv, NEW c \in Calls, LookOld(c)
    PROVE  DeviceInv'
<1> USE LimiterAssumption
<1> DEFINE u == call[c].user
           i == call[c].ip
<1>0. /\ CallsOK /\ call[c].at = "old" /\ u \in Users /\ i \in IPs
      /\ UNCHANGED <<userOnline, ips, old, rep, known, leaked>>
      /\ None \notin Users
  BY DEF LookOld, Rest, CallsOK, LimiterTypeOK
<1>1. CASE old[i] # None
  <2>1. Pass(c, "forget") \/ Pass(c, "speed")
    BY <1>1 DEF LookOld
  <2>2. old[i] \in Users
    BY <1>0, <1>1 DEF LimiterTypeOK
  <2>3. Reason(u, i, call[c].met)
    BY <1>0, <1>1, <2>2 DEF DeviceInv, OldKnown, Reason
  <2> QED BY <1>0, <2>1, <2>3, DevicePasses
<1>2. CASE old[i] = None /\ ~call[c].over
  <2>1. Pass(c, "speed")
    BY <1>0, <1>2 DEF LookOld
  <2> QED BY <1>0, <1>2, <2>1, DevicePasses
<1>3. CASE old[i] = None /\ call[c].over
  <2> DEFINE to == IF call[c].map = None THEN "undoFirst" ELSE "undo"
  <2>1. call' = [call EXCEPT ![c].at = to] /\ admitted' = admitted
    BY <1>0, <1>3 DEF LookOld
  <2>2. /\ call'[c].at = to /\ call'[c].user = u /\ call'[c].ip = i
        /\ call'[c].map = call[c].map /\ call'[c].odd = call[c].odd
        /\ call'[c].met = call[c].met
        /\ \A d \in Calls \ {c} : call'[d] = call[d]
    BY <1>0, <2>1 DEF CallsOK, CallRecs
  <2>3. to \in {"undo", "undoFirst"}
    OBVIOUS
  <2>4. Owned'
    BY <1>0, <2>2, <2>3 DEF DeviceInv, Owned
  <2>5. Meet'
    BY <1>0, <2>2 DEF DeviceInv, Meet, Same, Undeciding
  <2>6. Listed'
    <3>1. \A d \in Calls, v \in Users, j \in IPs : Liable(d, v, j) => Liable(d, v, j)'
      BY <1>0, <2>2 DEF Liable
    <3>2. \A v \in Users, j \in IPs : Seen(v, j) => Seen(v, j)'
      BY <1>0, <2>1 DEF Seen, Due
    <3> QED BY <1>0, <3>1, <3>2 DEF DeviceInv, Listed
  <2>7. Found'
    <3> HIDE DEF to
    <3> QED BY <1>0, <2>1, <2>2, <2>3 DEF DeviceInv, Found
  <2>8. OldKnown' /\ OverLimitExplained'
    BY <1>0, <2>1, <2>2 DEF DeviceInv, OldKnown, OverLimitExplained
  <2> QED BY <2>4, <2>5, <2>6, <2>7, <2>8 DEF DeviceInv
<1> QED BY <1>1, <1>2, <1>3

(* The steps that end a call, or follow its verdict.                       *)
LEMMA EndDevices ==
    ASSUME LimiterTypeOK, DeviceInv, NEW c \in Calls,
           Forget(c) \/ Undo(c) \/ UndoFirst(c) \/ Speed(c) \/ Store(c)
    PROVE  DeviceInv'
<1> USE LimiterAssumption
<1>0. /\ CallsOK /\ call[c].at # "idle" /\ call[c].user \in Users /\ call[c].ip \in IPs
      /\ UNCHANGED <<rep, known, leaked, admitted>>
  BY DEF Forget, Undo, UndoFirst, Speed, Store, Rest, CallsOK, LimiterTypeOK
<1>1. \A d \in Calls \ {c} : call'[d] = call[d]
  BY DEF Forget, Undo, UndoFirst, Speed, Store, LimiterTypeOK
<1>2. \A v \in Users : Due(v) => Due(v)'
  BY <1>0 DEF Due
<1>3. CASE Undo(c)
  <2>1. /\ call[c].at = "undo" /\ call[c].map \in Objs
        /\ UNCHANGED <<userOnline, old>>
        /\ ips' = [ips EXCEPT ![call[c].map] = @ \ {call[c].ip}]
        /\ call'[c] = Idle
    BY <1>3 DEF Undo, Rest, LimiterTypeOK
  <2>2. /\ ips'[call[c].map] = ips[call[c].map] \ {call[c].ip}
        /\ \A o \in Objs : ips'[o] \subseteq ips[o]
    BY <2>1 DEF LimiterTypeOK
  <2>3. call'[c].at \notin Undeciding /\ ~call'[c].odd /\ call'[c].map = None
    BY <2>1 DEF Idle, Undeciding
  <2>4. \A u \in Users, i \in IPs :
           i \in ips'[userOnline'[u]] => ~Liable(c, u, i)
    BY <2>1, <2>2 DEF Liable
  <2> QED BY <1>0, <1>1, <1>2, <2>1, <2>2, <2>3, <2>4, DevicesShrink
<1>4. CASE UndoFirst(c)
  <2>1. /\ call[c].at = "undoFirst" /\ UNCHANGED <<ips, old>>
        /\ userOnline' = [userOnline EXCEPT ![call[c].user] = None]
        /\ call'[c] = Idle
    BY <1>4 DEF UndoFirst, Rest, LimiterTypeOK
  <2>2. /\ userOnline'[call[c].user] = None
        /\ \A u \in Users : userOnline'[u] = userOnline[u] \/ userOnline'[u] = None
    BY <1>0, <2>1 DEF LimiterTypeOK
  <2>3. call'[c].at \notin Undeciding /\ ~call'[c].odd /\ call'[c].map = None
    BY <2>1 DEF Idle, Undeciding
  <2>4. \A u \in Users, i \in IPs : userOnline'[u] # None => ~Liable(c, u, i)
    BY <2>2 DEF Liable
  <2> QED BY <1>0, <1>1, <1>2, <2>1, <2>2, <2>3, <2>4, DevicesShrink
<1>5. CASE Forget(c) \/ Speed(c) \/ Store(c)
  <2>1. /\ call[c].at \notin Undeciding /\ UNCHANGED <<ips, userOnline>>
        /\ \/ call' = [call EXCEPT ![c].at = "speed"]
           \/ call' = [call EXCEPT ![c].at = "store"]
           \/ call' = [call EXCEPT ![c] = Idle]
    BY <1>5 DEF Forget, Speed, Store, Undeciding
  <2>2. \A i \in IPs : old'[i] = old[i] \/ old'[i] = None
    BY <1>5 DEF Forget, Speed, Store, LimiterTypeOK
  <2>3. \/ call'[c].at = "speed" /\ call'[c].map = call[c].map
           /\ call'[c].user = call[c].user /\ call'[c].odd = call[c].odd
        \/ call'[c].at = "store" /\ call'[c].map = call[c].map
           /\ call'[c].user = call[c].user /\ call'[c].odd = call[c].odd
        \/ call'[c] = Idle
    BY <1>0, <2>1 DEF CallsOK, CallRecs
  <2>4. /\ call'[c].at \notin Undeciding /\ ~call'[c].odd
        /\ call'[c].map # None => /\ call'[c].map = call[c].map
                                  /\ call'[c].user = call[c].user
    BY <2>3 DEF Idle, Undeciding, DeviceInv, OverLimitExplained
  <2>5. \A u \in Users, i \in IPs : ~Liable(c, u, i)
    BY <2>1 DEF Liable, Undeciding
  <2> QED BY <1>0, <1>1, <1>2, <2>1, <2>2, <2>4, <2>5, DevicesShrink
<1> QED BY <1>3, <1>4, <1>5

(* GetOnlineDevice begins with an empty list of old devices.               *)
LEMMA BeginDevices ==
    ASSUME LimiterTypeOK, DeviceInv, Begin
    PROVE  DeviceInv'
<1> USE LimiterAssumption
<1>1. /\ CallsOK /\ rep.at = "idle" /\ rep'.at = "range" /\ rep'.users = Users
      /\ UNCHANGED <<userOnline, ips>>
      /\ known' = admitted /\ \A i \in IPs : old'[i] = None
  BY DEF Begin, CallsOK, LimiterTypeOK
<1>2. \A c \in Calls :
        /\ call'[c].at = call[c].at /\ call'[c].user = call[c].user
        /\ call'[c].ip = call[c].ip /\ call'[c].map = call[c].map
        /\ call'[c].odd = call[c].odd
        /\ call[c].met => call'[c].met
        /\ call[c].map # None /\ call[c].map # userOnline[call[c].user] => call'[c].met
  <2> DEFINE hit(c) == [call[c] EXCEPT !.met = TRUE]
  <2>1. \A c \in Calls : /\ hit(c).at = call[c].at /\ hit(c).ip = call[c].ip
                         /\ hit(c).user = call[c].user /\ hit(c).map = call[c].map
                         /\ hit(c).odd = call[c].odd /\ hit(c).met = TRUE
    BY <1>1 DEF CallsOK, CallRecs
  <2>2. \A c \in Calls :
            call'[c] = IF call[c].map # None /\ call[c].map # userOnline[call[c].user]
                       THEN hit(c) ELSE call[c]
    BY DEF Begin
  <2> HIDE DEF hit
  <2> QED BY <2>1, <2>2
<1>3. Owned'
  BY <1>1, <1>2 DEF DeviceInv, Owned
<1>4. Meet'
  BY <1>2 DEF DeviceInv, Meet, Same
<1>5. \A u \in Users, i \in IPs : Seen(u, i) => <<u, i>> \in known' /\ Due(u)'
  BY <1>1 DEF Seen, Due
<1>6. Listed'
  <2>1. \A c \in Calls, u \in Users, i \in IPs : Liable(c, u, i) => Liable(c, u, i)'
    BY <1>1, <1>2 DEF Liable
  <2>2. \A u \in Users, i \in IPs : Seen(u, i) => Seen(u, i)'
    BY <1>5 DEF Seen
  <2> QED BY <1>1, <2>1, <2>2 DEF DeviceInv, Listed
<1>7. Found'
  <2> SUFFICES ASSUME NEW c \in Calls, call'[c].at = "add", ~call'[c].met,
                      call'[c].ip \in ips'[call'[c].map]
               PROVE  <<call'[c].user, call'[c].ip>> \in known'
    BY DEF Found
  <2>1. /\ call[c].at = "add" /\ ~call[c].met /\ call[c].map \in Objs
        /\ call[c].user \in Users /\ call[c].ip \in IPs
    BY <1>2 DEF LimiterTypeOK
  <2>2. call[c].map # None /\ call[c].map = userOnline[call[c].user]
    BY <1>2, <2>1
  <2>3. Seen(call[c].user, call[c].ip)
    BY <1>1, <1>2, <2>1, <2>2, ListedOrMet
  <2> QED BY <1>2, <1>5, <2>1, <2>3
<1>8. OldKnown' /\ OverLimitExplained'
  BY <1>1, <1>2 DEF DeviceInv, OldKnown, OverLimitExplained
<1> QED BY <1>3, <1>4, <1>6, <1>7, <1>8 DEF DeviceInv

(* GetOnlineDevice copies one address of a user.                           *)
LEMMA CopyDevices ==
    ASSUME LimiterTypeOK, DeviceInv, NEW i \in IPs, Copy(i)
    PROVE  DeviceInv'
<1>1. /\ rep'.at = "copy" /\ rep.at = "copy" /\ rep'.users = rep.users
      /\ rep'.user = rep.user /\ rep.user \in Users
      /\ UNCHANGED <<userOnline, ips, call, admitted, known>>
      /\ leaked \subseteq leaked'
  BY DEF Copy, LimiterTypeOK
<1>2. Owned' /\ Meet' /\ Found' /\ OverLimitExplained'
  BY <1>1 DEF DeviceInv, Owned, Meet, Same, Found, OverLimitExplained
<1>3. Listed'
  <2>1. \A u \in Users, j \in IPs : Seen(u, j) => Seen(u, j)'
    BY <1>1 DEF Seen, Due
  <2>2. \A c \in Calls, u \in Users, j \in IPs : Liable(c, u, j) => Liable(c, u, j)'
    BY <1>1 DEF Liable
  <2> QED BY <1>1, <2>1, <2>2 DEF DeviceInv, Listed
<1>4. OldKnown'
  <2>1. CASE i \in ips[rep.map]
    <3>1. /\ old'[i] = rep.user /\ \A j \in IPs \ {i} : old'[j] = old[j]
          /\ <<rep.user, i>> \in admitted \cup known \cup leaked'
      BY <2>1 DEF Copy, LimiterTypeOK
    <3> QED BY <1>1, <3>1 DEF DeviceInv, OldKnown
  <2>2. CASE i \notin ips[rep.map]
    BY <1>1, <2>2 DEF Copy, DeviceInv, OldKnown
  <2> QED BY <2>1, <2>2
<1> QED BY <1>2, <1>3, <1>4 DEF DeviceInv

(* The report's other steps: a user's map is dropped once it was copied.   *)
LEMMA ReportDevices ==
    ASSUME LimiterTypeOK, DeviceInv, Drop \/ End \/ \E u \in Users : Visit(u)
    PROVE  DeviceInv'
<1> USE LimiterAssumption
<1>1. UNCHANGED <<ips, old, call, admitted, known, leaked>>
  BY DEF Drop, End, Visit
<1>2. CASE Drop
  <2>1. /\ rep.at = "copy" /\ rep.user \in Users /\ rep'.at = "range"
        /\ rep'.users = rep.users
        /\ userOnline' = [userOnline EXCEPT ![rep.user] = None]
    BY <1>2 DEF Drop, NoReport, LimiterTypeOK
  <2>2. /\ userOnline'[rep.user] = None
        /\ \A v \in Users : userOnline'[v] = userOnline[v] \/ userOnline'[v] = None
    BY <2>1 DEF LimiterTypeOK
  <2>3. \A v \in Users : userOnline'[v] # None /\ Due(v) => Due(v)'
    BY <2>1, <2>2 DEF Due
  <2> QED BY <1>1, <2>2, <2>3, DevicesShrink
<1>3. CASE End
  <2>1. userOnline' = userOnline /\ \A v \in Users : ~Due(v)
    BY <1>3 DEF End, Due
  <2> QED BY <1>1, <2>1, DevicesShrink
<1>4. ASSUME NEW u \in Users, Visit(u) PROVE DeviceInv'
  <2>1. /\ userOnline' = userOnline /\ rep.at = "range"
        /\ IF userOnline[u] = None
           THEN rep'.at = "range" /\ rep'.users = rep.users \ {u}
           ELSE rep'.at = "copy" /\ rep'.users = rep.users \ {u} /\ rep'.user = u
    BY <1>4 DEF Visit, LimiterTypeOK
  <2>2. \A v \in Users : userOnline'[v] # None /\ Due(v) => Due(v)'
    BY <2>1 DEF Due
  <2> QED BY <1>1, <2>1, <2>2, DevicesShrink
<1> QED BY <1>2, <1>3, <1>4

(* Updates and alive counts touch no device.                               *)
LEMMA UpdateDevices ==
    ASSUME LimiterTypeOK, DeviceInv,
           UpdateUser \/ (\E u \in Users : \E n \in {0, DeviceLimit[u]} : SetAlive(u, n))
           \/ UNCHANGED vars
    PROVE  DeviceInv'
<1>1. UNCHANGED <<ips, old, call, rep, admitted, known, leaked>>
  BY DEF UpdateUser, AddInfo, DelInfo, DelOnline, DelBucket, ReAdd, Others, SetAlive, vars
<1>2. \A v \in Users : userOnline'[v] = userOnline[v] \/ userOnline'[v] = None
  BY DEF UpdateUser, AddInfo, DelInfo, DelOnline, DelBucket, ReAdd, SetAlive, vars,
         LimiterTypeOK
<1>3. \A v \in Users : Due(v) => Due(v)'
  BY <1>1 DEF Due
<1> QED BY <1>1, <1>2, <1>3, DevicesShrink

(* Every step of a call, of the report and of an update keeps DeviceInv.   *)
LEMMA DeviceInvInductive == Spec => []DeviceInv
<1> USE LimiterAssumption
<1>1. Init => DeviceInv
  BY DEF Init, Idle, NoReport, DeviceInv, Owned, Meet, Same, Undeciding, Listed, Found,
         OldKnown, OverLimitExplained
<1>2. LimiterTypeOK /\ DeviceInv /\ [Next]_vars => DeviceInv'
  <2> SUFFICES ASSUME LimiterTypeOK, DeviceInv, [Next]_vars PROVE DeviceInv'
    OBVIOUS
  <2>1. ASSUME NEW c \in Calls, CheckLimit(c) PROVE DeviceInv'
    BY <2>1, CheckDevices, RegisterDevices, AddDevices, LookOldDevices, EndDevices
    DEF CheckLimit
  <2>2. CASE GetOnlineDevice
    BY <2>2, BeginDevices, CopyDevices, ReportDevices DEF GetOnlineDevice
  <2> QED BY <2>1, <2>2, UpdateDevices DEF Next
<1> QED BY <1>1, <1>2, LimiterTypeCorrect, PTL DEF Spec

(* A device CheckLimit rejects is taken out of its user's map again,       *)
(* whatever connections of the device, reports and updates come between    *)
(* the step that put it there and the one that undoes it.                  *)
THEOREM LimiterRejectedLeave == Spec => []RejectedLeave
<1>1. LimiterTypeOK /\ DeviceInv => RejectedLeave
  <2> SUFFICES ASSUME LimiterTypeOK, DeviceInv, NEW u \in Users, userOnline[u] # None,
                      NEW i \in ips[userOnline[u]], Undecided(u, i) = {}
               PROVE  <<u, i>> \in admitted \cup known
    BY DEF RejectedLeave
  <2>1. userOnline[u] \in Objs /\ i \in IPs
    BY DEF LimiterTypeOK
  <2>2. \A c \in Calls : ~Liable(c, u, i)
    BY DEF Liable, Undecided
  <2> QED BY <2>1, <2>2 DEF DeviceInv, Listed, Seen
<1> QED BY <1>1, LimiterTypeCorrect, DeviceInvInductive, PTL

(* CheckLimit never admits a device beyond the limit without one of the    *)
(* reasons its lookups have (the address got in before, the device meets   *)
(* another call for it, a dropped map), for any number of users,           *)
(* connections, reports and updates.                                       *)
THEOREM LimiterOverLimitExplained == Spec => []OverLimitExplained
<1>1. DeviceInv => OverLimitExplained
  BY DEF DeviceInv
<1> QED BY <1>1, DeviceInvInductive, PTL
============================================================================
