--------------------------- MODULE TrafficProofs ---------------------------
(* Proofs about Traffic, for any number of report loops: its type, that no *)
(* unit is charged twice unless a push is repeated after a lost answer or  *)
(* two scans overlap, how often one is charged then, and which are lost.   *)
EXTENDS Traffic, TLAPS

(* The operations on a user's two counters stay within Traffics.           *)
LEMMA CounterOps ==
    /\ Zero \in Traffics
    /\ \A t \in Traffics, d \in Dirs, s \in SUBSET Units : [t EXCEPT ![d] = s] \in Traffics
    /\ \A t \in Traffics, d \in Dirs : t[d] \in SUBSET Units
    /\ \A t \in Traffics : Both(t) \in SUBSET Units
    /\ "up" \in Dirs /\ "down" \in Dirs
BY DEF Zero, Traffics, Dirs, Both

(* One counter of one user set to another value.                           *)
LEMMA SetCounter ==
    ASSUME NEW f \in [Users -> Traffics], NEW u \in Users, NEW d \in Dirs,
           NEW s \in SUBSET Units
    PROVE  /\ [f EXCEPT ![u][d] = s] \in [Users -> Traffics]
           /\ \A v \in Users, e \in Dirs :
                 [f EXCEPT ![u][d] = s][v][e] = IF v = u /\ e = d THEN s ELSE f[v][e]
<1>1. f[u] \in Traffics
  OBVIOUS
<1>2. [f[u] EXCEPT ![d] = s] \in Traffics
  BY <1>1, CounterOps
<1>3. \A e \in Dirs : [f[u] EXCEPT ![d] = s][e] = IF e = d THEN s ELSE f[u][e]
  BY <1>1 DEF Traffics
<1> QED BY <1>2, <1>3

(* A push collects units and the panel counts them.                        *)
LEMMA CountedType ==
    ASSUME TrafficTypeOK, NEW l \in Loops
    PROVE  InSlice(l) \in SUBSET Units /\ Counted(l) \in [Loops -> [Units -> Nat]]
<1>1. InSlice(l) \in SUBSET Units
  BY CounterOps DEF TrafficTypeOK, InSlice
<1>2. [b \in Units |-> IF b \in InSlice(l) THEN charges[l][b] + 1 ELSE charges[l][b]]
         \in [Units -> Nat]
  BY DEF TrafficTypeOK
<1> QED BY <1>1, <1>2 DEF TrafficTypeOK, Counted

(* Dropping a counter orphans the connections.                             *)
LEMMA DropType ==
    ASSUME TrafficTypeOK, NEW u \in Users, DropCounter(u)
    PROVE  /\ entry' \subseteq Users /\ cnt' \in [Users -> Traffics]
           /\ conn' \in [Conns -> [at : {"free", "checked", "open", "orphan"},
                                  user : Users \cup {None}]]
           /\ \A c \in Conns : conn'[c].at # "free" => conn'[c].user \in Users
BY CounterOps DEF TrafficTypeOK, DropCounter

(* The part of the type that a step of a loop can change.                  *)
LoopTypeOK ==
    /\ cnt \in [Users -> Traffics] /\ slice \in [Loops -> [Users -> Traffics]]
    /\ pc \in [Loops -> Stages] /\ todo \in [Loops -> SUBSET Users]
    /\ cur \in [Loops -> Users \cup {None}] /\ tmp \in [Loops -> Traffics]
    /\ stale \in [Loops -> BOOLEAN] /\ tries \in [Loops -> 0 .. Retries]
    /\ \A l \in Loops : pc[l] \in {"loadDown", "zeroUp", "zeroDown"} => cur[l] \in Users
    /\ \A l \in Loops : pc[l] # "idle" => l \in live
    /\ charges \in [Loops -> [Units -> Nat]]
    /\ lossy \subseteq Units /\ repeated \subseteq Units /\ shared \subseteq Units

(* A loop's step keeps them.                                               *)
LEMMA ReportType ==
    ASSUME TrafficTypeOK, NEW l \in Loops, Report(l)
    PROVE  LoopTypeOK'
<1> USE TrafficAssumption DEF TrafficTypeOK, LoopTypeOK, conns, books, admin, scan, report, Stages
<1>1. CASE Begin(l)
  BY <1>1 DEF Begin
<1>2. ASSUME NEW u \in Users, LoadUp(l, u) PROVE LoopTypeOK'
  <2>1. tmp' \in [Loops -> Traffics]
    BY <1>2, CounterOps DEF LoadUp
  <2>2. shared' \subseteq Units
    BY <1>2, CounterOps DEF LoadUp, ReadTwice
  <2> QED BY <1>2, <2>1, <2>2 DEF LoadUp
<1>3. CASE LoadDown(l)
  <2>0. cur[l] \in Users
    BY <1>3 DEF LoadDown
  <2>1. tmp' \in [Loops -> Traffics]
    <3> DEFINE s == IF stale[l] THEN {} ELSE cnt[cur[l]]["down"]
               t == [tmp[l] EXCEPT !["down"] = s]
    <3>1. s \in SUBSET Units /\ tmp[l] \in Traffics
      BY <2>0, CounterOps
    <3>2. t \in Traffics
      BY <3>1, CounterOps
    <3>3. tmp' \in {[tmp EXCEPT ![l] = t], [tmp EXCEPT ![l] = Zero]}
      BY <1>3 DEF LoadDown, Done
    <3> HIDE DEF t
    <3> QED BY <3>2, <3>3, CounterOps
  <2>2. shared' \subseteq Units
    BY <1>3, <2>0, CounterOps DEF LoadDown, ReadTwice
  <2> QED BY <1>3, <2>1, <2>2 DEF LoadDown, Done
<1>4. CASE ZeroUp(l)
  <2>1. cnt' \in [Users -> Traffics]
    BY <1>4, SetCounter, CounterOps DEF ZeroUp, Reset
  <2> QED BY <1>4, <2>1 DEF ZeroUp
<1>5. CASE ZeroDown(l)
  <2>1. cnt' \in [Users -> Traffics] /\ cur[l] \in Users
    BY <1>5, SetCounter, CounterOps DEF ZeroDown, Reset
  <2>2. slice' \in [Loops -> [Users -> Traffics]] /\ tmp' \in [Loops -> Traffics]
    BY <1>5, <2>1, CounterOps DEF ZeroDown, Done
  <2> QED BY <1>5, <2>1, <2>2 DEF ZeroDown, Done
<1>6. CASE ZeroDownUnknown(l)
  <2>1. tmp' \in [Loops -> Traffics]
    BY <1>6, CounterOps DEF ZeroDownUnknown, Done
  <2>2. cur[l] \in Users /\ DropCounter(cur[l])
    BY <1>6 DEF ZeroDownUnknown
  <2>3. lossy' \subseteq Units
    BY <1>6, <2>2, CounterOps DEF ZeroDownUnknown
  <2> QED BY <1>6, <2>1, <2>2, <2>3, DropType DEF ZeroDownUnknown, Done
<1>7. CASE EndScan(l)
  <2>0. /\ pc' \in {[pc EXCEPT ![l] = "online"], [pc EXCEPT ![l] = "push"]}
        /\ tries' \in {tries, [tries EXCEPT ![l] = Retries]}
    BY <1>7 DEF EndScan
  <2>1. tries' \in [Loops -> 0 .. Retries] /\ pc' \in [Loops -> Stages]
    <3>1. Retries \in 0 .. Retries
      OBVIOUS
    <3>2. tries' \in [Loops -> 0 .. Retries]
      BY <2>0, <3>1
    <3>3. pc' \in [Loops -> Stages]
      BY <2>0
    <3> QED BY <3>2, <3>3
  <2>2. \A m \in Loops :
            /\ pc'[m] # "idle" => m \in live
            /\ pc'[m] \in {"loadDown", "zeroUp", "zeroDown"} => pc'[m] = pc[m]
    <3>1. pc[l] = "scan"
      BY <1>7 DEF EndScan
    <3> QED BY <2>0, <3>1
  <2>3. /\ todo' \in [Loops -> SUBSET Users]
        /\ UNCHANGED <<live, cnt, slice, cur, tmp, stale, charges, lossy, repeated, shared>>
    BY <1>7 DEF EndScan
  <2> QED BY <2>1, <2>2, <2>3
<1>8. ASSUME Forget(l)
      PROVE  /\ slice' \in [Loops -> [Users -> Traffics]]
             /\ pc' = [pc EXCEPT ![l] = "online"] /\ tries' \in [Loops -> 0 .. Retries]
  <2>1. [u \in Users |-> Zero] \in [Users -> Traffics] /\ 0 \in 0 .. Retries
    BY CounterOps
  <2> QED BY <1>8, <2>1 DEF Forget
<1>9. CASE Pushed(l)
  BY <1>8, <1>9, CountedType DEF Pushed
<1>10. CASE Refused(l)
  BY <1>8, <1>10, CountedType DEF Refused
<1>11. ASSUME NEW b \in BOOLEAN, PushError(l, b) PROVE LoopTypeOK'
  <2>1. charges' \in [Loops -> [Units -> Nat]]
    BY <1>11, CountedType DEF PushError
  <2>2. lossy' \subseteq Units /\ repeated' \subseteq Units
    BY <1>11, CountedType DEF PushError
  <2>3. CASE tries[l] > 0
    <3>1. tries' \in [Loops -> 0 .. Retries] /\ UNCHANGED <<pc, slice>>
      BY <1>11, <2>3 DEF PushError
    <3> QED BY <1>11, <2>1, <2>2, <3>1 DEF PushError
  <2>4. CASE tries[l] = 0
    <3>1. Forget(l)
      BY <1>11, <2>4 DEF PushError
    <3> QED BY <1>11, <1>8, <2>1, <2>2, <3>1 DEF PushError
  <2> QED BY <2>3, <2>4
<1>12. CASE Online(l)
  BY <1>12 DEF Online
<1> QED BY <1>1, <1>2, <1>3, <1>4, <1>5, <1>6, <1>7, <1>9, <1>10, <1>11, <1>12 DEF Report

(* The accounting state keeps its type; in particular a push is never      *)
(* tried more often than configured, and a loop is always left.            *)
THEOREM TrafficTypeCorrect == Spec => []TrafficTypeOK
<1>1. Init => TrafficTypeOK
  <2> SUFFICES ASSUME Init PROVE TrafficTypeOK
    OBVIOUS
  <2>1. (CHOOSE l \in Loops : TRUE) \in Loops
    BY TrafficAssumption
  <2>2. charges \in [Loops -> [Units -> Nat]]
    BY DEF Init
  <2> QED BY <2>1, <2>2, CounterOps, TrafficAssumption DEF Init, TrafficTypeOK, Free, Stages
<1>2. ASSUME TrafficTypeOK, [Next]_vars PROVE TrafficTypeOK'
  <2> USE <1>2, TrafficAssumption DEF TrafficTypeOK, conns, books, admin, scan, report
  <2>1. CASE UNCHANGED vars
    BY <2>1 DEF vars
  <2>2. ASSUME NEW l \in Loops, Report(l) PROVE TrafficTypeOK'
    <3>1. LoopTypeOK'
      BY <2>2, ReportType
    <3>2. UNCHANGED <<admin, units>>
      BY <2>2 DEF Report, Begin, LoadUp, LoadDown, ZeroUp, ZeroDown, ZeroDownUnknown,
                  EndScan, Pushed, Refused, PushError, Online
    <3>3. CASE ZeroDownUnknown(l)
      <4>1. cur[l] \in Users /\ DropCounter(cur[l])
        BY <3>3 DEF ZeroDownUnknown
      <4> QED BY <3>1, <3>2, <4>1, DropType DEF LoopTypeOK
    <3>4. CASE UNCHANGED <<entry, conn>>
      BY <3>1, <3>2, <3>4 DEF LoopTypeOK
    <3>5. ZeroDownUnknown(l) \/ UNCHANGED <<entry, conn>>
      BY <2>2 DEF Report, Begin, LoadUp, LoadDown, ZeroUp, ZeroDown,
                  EndScan, Pushed, Refused, PushError, Online
    <3> QED BY <3>3, <3>4, <3>5
  <2>3. ASSUME NEW c \in Conns, NEW u \in Users, Accept(c, u) PROVE TrafficTypeOK'
    BY <2>3 DEF Accept
  <2>4. ASSUME NEW c \in Conns, GetCounter(c) PROVE TrafficTypeOK'
    BY <2>4 DEF GetCounter
  <2>5. ASSUME NEW c \in Conns, NEW d \in Dirs, Move(c, d) PROVE TrafficTypeOK'
    <3> DEFINE u == conn[c].user
               b == units + 1
    <3>0. u \in Users /\ b \in Units /\ units' = b /\ b \in 0 .. MaxUnits
      BY <2>5 DEF Move, Units
    <3> DEFINE s == cnt[u][d] \cup {b}
    <3>1. s \in SUBSET Units
      BY <3>0, CounterOps
    <3>3. cnt' \in {cnt, [cnt EXCEPT ![u][d] = s]}
      BY <2>5 DEF Move
    <3>2. [cnt EXCEPT ![u][d] = s] \in [Users -> Traffics]
      <4> HIDE DEF s, u
      <4> QED BY <3>0, <3>1, SetCounter
    <3>4. lossy' \subseteq Units
      BY <2>5, <3>0 DEF Move
    <3> HIDE DEF u, b, s
    <3> QED BY <2>5, <3>0, <3>2, <3>3, <3>4 DEF Move
  <2>6. ASSUME NEW c \in Conns, Disconnect(c) PROVE TrafficTypeOK'
    BY <2>6 DEF Disconnect, Free
  <2>7. ASSUME NEW u \in Users, DelUser(u) PROVE TrafficTypeOK'
    <3>1. DropCounter(u)
      BY <2>7 DEF DelUser
    <3>2. lossy' \subseteq Units
      BY <2>7, CounterOps DEF DelUser
    <3> QED BY <2>7, <3>1, <3>2, DropType DEF DelUser
  <2>8. ASSUME NEW u \in Users, AddUser(u) PROVE TrafficTypeOK'
    BY <2>8 DEF AddUser
  <2>9. ASSUME NEW l \in Loops, Restart(l) PROVE TrafficTypeOK'
    BY <2>9 DEF Restart
  <2> QED BY <2>1, <2>2, <2>3, <2>4, <2>5, <2>6, <2>7, <2>8, <2>9 DEF Next
<1> QED BY <1>1, <1>2, PTL DEF Spec

----------------------------------------------------------------------------
(* What a loop holds: units it has read from the counter it is scanning,   *)
(* and units it has collected or charged.                                  *)
Read(l)     == Both(tmp[l])
Owned(l)    == InSlice(l) \cup Charged(l)
Scanning(l) == pc[l] \in {"loadDown", "zeroUp", "zeroDown"}

(* The stages of a loop: a user is scanned once per report, and nothing is *)
(* held between reports.                                                   *)
StageInv ==
    \A l \in Loops :
        /\ pc[l] \in {"idle", "online"} => \A u \in Users : slice[l][u] = Zero
        /\ \A u \in todo[l] : slice[l][u] = Zero
        /\ Scanning(l) => slice[l][cur[l]] = Zero /\ cur[l] \notin todo[l]
        /\ ~Scanning(l) => tmp[l] = Zero
        /\ pc[l] = "loadDown" => tmp[l]["down"] = {}

(* Where a unit is: in one counter at most; a loop that holds it is the    *)
(* only one, unless two scans read it; and once taken it is in no counter. *)
PlaceInv ==
    /\ \A u, v \in Users, d, e \in Dirs : \A b \in cnt[u][d] \cap cnt[v][e] : u = v /\ d = e
    /\ \A l \in Loops, d \in Dirs : \A b \in tmp[l][d] \cap InCounters :
          ~stale[l] /\ b \in cnt[cur[l]][d]
    /\ \A l \in Loops : pc[l] = "zeroDown" => tmp[l]["up"] \cap InCounters = {}
    /\ \A l \in Loops : Owned(l) \cap (InCounters \cup Read(l)) = {}
    /\ \A l \in Loops, m \in Loops : l # m =>
          (Owned(l) \cup Read(l)) \cap (Owned(m) \cup Read(m)) \subseteq shared

(* No unit is anywhere before it has moved.                                *)
SeenInv ==
    /\ InCounters \subseteq 1 .. units
    /\ \A l \in Loops : Owned(l) \cup Read(l) \subseteq 1 .. units

(* What a push has charged and may still charge.                           *)
ChargeInv ==
    \A l \in Loops, b \in Units :
        /\ charges[l][b] <= Retries + 1
        /\ b \in InSlice(l) => IF pc[l] = "push" THEN charges[l][b] + tries[l] <= Retries
                               ELSE charges[l][b] = 0
        /\ b \notin repeated => /\ charges[l][b] <= 1
                                /\ b \in InSlice(l) => charges[l][b] = 0

(* Nothing is added to a counter being collected without being noticed.    *)
ExactInv ==
    \A l \in Loops, d \in Dirs :
        Scanning(l) /\ ~stale[l] /\ Loaded(l, d) => cnt[cur[l]][d] \subseteq tmp[l][d] \cup lossy

(* The sets of units by their members.                                     *)
Members ==
    /\ \A b : b \in InCounters <=> \E u \in Users, d \in Dirs : b \in cnt[u][d]
    /\ \A l \in Loops : \A b :
          /\ b \in InSlice(l) <=> \E u \in Users, d \in Dirs : b \in slice[l][u][d]
          /\ b \in Read(l) <=> \E d \in Dirs : b \in tmp[l][d]
          /\ b \in Charged(l) <=> b \in Units /\ charges[l][b] > 0
          /\ b \in Owned(l) <=> (b \in InSlice(l) \/ b \in Charged(l))
          /\ b \in InFlight(l) <=>
                b \in InSlice(l) \/ (pc[l] = "zeroDown" /\ b \in tmp[l]["up"])

(* Each is the union it is defined as.                                     *)
LEMMA MembersHold == Members
<1>1. \A t, b : b \in Both(t) <=> \E d \in Dirs : b \in t[d]
  BY DEF Both, Dirs
<1>2. \A b : b \in InCounters <=> \E u \in Users : b \in Both(cnt[u])
  BY DEF InCounters
<1>3. \A l, b : b \in InSlice(l) <=> \E u \in Users : b \in Both(slice[l][u])
  BY DEF InSlice
<1>4. \A l, b : b \in Charged(l) <=> b \in Units /\ charges[l][b] > 0
  BY DEF Charged
<1>5. \A l, b : b \in InFlight(l) <=>
                b \in InSlice(l) \/ (pc[l] = "zeroDown" /\ b \in tmp[l]["up"])
  BY DEF InFlight
<1>6. \A b : b \in InCounters <=> \E u \in Users, d \in Dirs : b \in cnt[u][d]
  BY <1>1, <1>2
<1>7. \A l, b : b \in InSlice(l) <=> \E u \in Users, d \in Dirs : b \in slice[l][u][d]
  BY <1>1, <1>3
<1>8. \A l, b : b \in Read(l) <=> \E d \in Dirs : b \in tmp[l][d]
  BY <1>1 DEF Read
<1>9. \A l, b : b \in Owned(l) <=> (b \in InSlice(l) \/ b \in Charged(l))
  BY DEF Owned
<1> QED BY <1>4, <1>5, <1>6, <1>7, <1>8, <1>9, Zenon DEF Members

(* A new counter has counted nothing.                                      *)
LEMMA ZeroValues == Zero["up"] = {} /\ Zero["down"] = {} /\ \A d \in Dirs : Zero[d] = {}
BY DEF Zero, Dirs

Inv == /\ StageInv /\ PlaceInv /\ SeenInv /\ ChargeInv /\ ExactInv
       /\ LossesExplained

(* A step that leaves counters and loops alone keeps everything.           *)
LEMMA FrameStep ==
    ASSUME Inv, UNCHANGED <<pc, todo, cur, tmp, stale, slice, tries, cnt, charges,
                            lossy, repeated, shared, units>>
    PROVE  Inv'
BY DEF Inv, StageInv, PlaceInv, SeenInv, ChargeInv, ExactInv, LossesExplained,
       Read, Owned, Scanning, Loaded, InCounters, InFlight, InSlice, Charged

(* A unit that is nowhere is known to be lost.                             *)
LEMMA LossKept ==
    ASSUME LossesExplained, units' = units, lossy \subseteq lossy',
           \A b \in InCounters :
              \/ b \in lossy' \/ b \in InCounters'
              \/ \E m \in Loops : b \in InFlight(m)' \cup Charged(m)',
           \A l \in Loops : \A b \in InFlight(l) \cup Charged(l) :
              \/ b \in lossy' \/ b \in InCounters'
              \/ \E m \in Loops : b \in InFlight(m)' \cup Charged(m)'
    PROVE  LossesExplained'
<1> SUFFICES ASSUME NEW b \in (1 .. units) \ lossy'
             PROVE  \/ b \in InCounters'
                    \/ \E l \in Loops : b \in InFlight(l)' \cup Charged(l)'
  BY DEF LossesExplained
<1>1. b \in InCounters \/ \E l \in Loops : b \in InFlight(l) \cup Charged(l)
  BY DEF LossesExplained
<1> QED BY <1>1

(* Begin, EndScan, Online: a stage without a scan in it.                   *)
LEMMA TurnStep ==
    ASSUME TrafficTypeOK, Inv, NEW l \in Loops, Begin(l) \/ EndScan(l) \/ Online(l)
    PROVE  Inv'
<1>1. /\ pc[l] \in {"idle", "scan", "online"} /\ UNCHANGED <<cur, tmp, stale, slice>>
      /\ UNCHANGED <<cnt, charges, lossy, repeated, shared, units>>
      /\ \A m \in Loops : m # l => pc'[m] = pc[m] /\ todo'[m] = todo[m] /\ tries'[m] = tries[m]
      /\ pc'[l] \in {"scan", "push", "online", "idle"}
      /\ pc'[l] = "push" => tries'[l] = Retries /\ pc[l] = "scan"
      /\ pc'[l] \in {"idle", "online"} => slice[l] = [u \in Users |-> Zero] \/ pc[l] = "online"
      /\ \/ todo'[l] = {} \/ (pc[l] = "idle" /\ todo'[l] \subseteq Users)
         \/ todo'[l] = todo[l]
  BY DEF Begin, EndScan, Online, TrafficTypeOK, books, scan, Stages
<1>2. \A m \in Loops : Scanning(m)' = Scanning(m) /\ (pc'[m] = "zeroDown" <=> pc[m] = "zeroDown")
  BY <1>1 DEF Scanning
<1>3. \A m \in Loops, d \in Dirs : Scanning(m) => Loaded(m, d)' = Loaded(m, d)
  BY <1>1 DEF Scanning, Loaded
<1>4. /\ InCounters' = InCounters
      /\ \A m \in Loops : /\ InSlice(m)' = InSlice(m) /\ Charged(m)' = Charged(m)
                          /\ Read(m)' = Read(m) /\ Owned(m)' = Owned(m)
                          /\ InFlight(m)' = InFlight(m)
  BY <1>1, <1>2 DEF InCounters, InSlice, Charged, Read, Owned, InFlight
<1>5. StageInv'
  <2> SUFFICES ASSUME NEW m \in Loops
               PROVE  /\ pc'[m] \in {"idle", "online"} => \A u \in Users : slice[m][u] = Zero
                      /\ \A u \in todo'[m] : slice[m][u] = Zero
                      /\ Scanning(m) => slice[m][cur[m]] = Zero /\ cur[m] \notin todo'[m]
                      /\ ~Scanning(m) => tmp[m] = Zero
                      /\ pc'[m] = "loadDown" => tmp[m]["down"] = {}
    BY <1>1, <1>2 DEF StageInv
  <2>1. CASE m # l
    BY <1>1, <2>1 DEF Inv, StageInv
  <2>2. CASE m = l
    <3>1. ~Scanning(l)
      BY <1>1 DEF Scanning
    <3>2. pc'[l] \in {"idle", "online"} => \A u \in Users : slice[l][u] = Zero
      BY <1>1 DEF Inv, StageInv
    <3>3. \A u \in todo'[l] : slice[l][u] = Zero
      BY <1>1 DEF Inv, StageInv
    <3> QED BY <1>1, <2>2, <3>1, <3>2, <3>3 DEF Inv, StageInv
  <2> QED BY <2>1, <2>2
<1>6. PlaceInv' /\ SeenInv' /\ ExactInv'
  BY <1>1, <1>2, <1>3, <1>4 DEF Inv, PlaceInv, SeenInv, ExactInv
<1>7. LossesExplained'
  BY <1>1, <1>4 DEF Inv, LossesExplained
<1>8. ChargeInv'
  <2> SUFFICES ASSUME NEW m \in Loops, NEW b \in Units
               PROVE  /\ b \in InSlice(m) => IF pc'[m] = "push" THEN charges[m][b] + tries'[m] <= Retries
                                             ELSE charges[m][b] = 0
    BY <1>1, <1>4 DEF Inv, ChargeInv
  <2>1. CASE m # l
    BY <1>1, <2>1 DEF Inv, ChargeInv
  <2>2. CASE m = l
    <3>1. b \in InSlice(l) => charges[l][b] = 0
      BY <1>1 DEF Inv, ChargeInv
    <3> QED BY <1>1, <2>2, <3>1, TrafficAssumption
  <2> QED BY <2>1, <2>2
<1> QED BY <1>5, <1>6, <1>7, <1>8 DEF Inv

(* A scan reads a counter: LoadUp, and LoadDown when it goes on.           *)
LEMMA ReadStep ==
    ASSUME TrafficTypeOK, Inv, NEW l \in Loops, NEW u \in Users, NEW d \in Dirs,
           UNCHANGED <<slice, tries, cnt, charges, lossy, repeated, units>>,
           ~Scanning(l) \/ cur[l] = u, pc[l] \in {"scan", "loadDown"},
           pc[l] = "scan" => d = "up" /\ pc'[l] = "loadDown" /\ u \in todo[l] /\ u \notin todo'[l],
           pc[l] = "loadDown" => d = "down" /\ pc'[l] = "zeroUp" /\ todo'[l] = todo[l]
                                 /\ stale'[l] = stale[l],
           todo'[l] \subseteq todo[l], cur'[l] = u,
           \A m \in Loops \ {l} : /\ pc'[m] = pc[m] /\ todo'[m] = todo[m] /\ cur'[m] = cur[m]
                                  /\ tmp'[m] = tmp[m] /\ stale'[m] = stale[m],
           \A e \in Dirs : tmp'[l][e] = IF e # d THEN tmp[l][e]
                                        ELSE IF stale'[l] THEN {} ELSE cnt[u][d],
           shared' = ReadTwice(l, tmp'[l][d])
    PROVE  Inv'
<1> DEFINE new == tmp'[l][d]
<1>m. Members /\ Members'
  BY MembersHold, PTL
<1>1. /\ InCounters' = InCounters
      /\ \A m \in Loops : /\ InSlice(m)' = InSlice(m) /\ Charged(m)' = Charged(m)
                          /\ Owned(m)' = Owned(m)
  BY DEF InCounters, InSlice, Charged, Owned
<1>2. \A m \in Loops : /\ m # l => Read(m)' = Read(m)
                       /\ InFlight(m)' = InFlight(m)
  <2>1. pc[l] # "zeroDown" /\ pc'[l] # "zeroDown"
    OBVIOUS
  <2> QED BY <1>1, <2>1 DEF Read, InFlight
<1>3. /\ \A b \in Read(l)' : b \in Read(l) \/ b \in new
      /\ new \subseteq InCounters /\ (stale'[l] => new = {})
  BY <1>m DEF Members
<1>4. /\ shared \subseteq shared'
      /\ \A b \in new, m \in Loops \ {l} : b \in Read(m) => b \in shared'
  BY DEF ReadTwice, Read
<1>5. pc[l] = "scan" => tmp[l] = Zero
  BY DEF Inv, StageInv, Scanning
<1>6. StageInv'
  <2> SUFFICES ASSUME NEW m \in Loops
               PROVE  /\ pc'[m] \in {"idle", "online"} => \A v \in Users : slice[m][v] = Zero
                      /\ \A v \in todo'[m] : slice[m][v] = Zero
                      /\ Scanning(m)' => slice[m][cur'[m]] = Zero /\ cur'[m] \notin todo'[m]
                      /\ ~Scanning(m)' => tmp'[m] = Zero
                      /\ pc'[m] = "loadDown" => tmp'[m]["down"] = {}
    BY DEF StageInv
  <2>1. CASE m # l
    BY <2>1 DEF Inv, StageInv, Scanning
  <2>2. CASE m = l
    BY <1>5, <2>2, ZeroValues, CounterOps DEF Inv, StageInv, Scanning
  <2> QED BY <2>1, <2>2
<1>7. PlaceInv'
  <2>1. \A m \in Loops, e \in Dirs : \A b \in tmp'[m][e] \cap InCounters :
            ~stale'[m] /\ b \in cnt[cur'[m]][e]
    <3> SUFFICES ASSUME NEW m \in Loops, NEW e \in Dirs, NEW b \in tmp'[m][e] \cap InCounters
                 PROVE  ~stale'[m] /\ b \in cnt[cur'[m]][e]
      OBVIOUS
    <3>1. CASE m # l
      BY <3>1 DEF Inv, PlaceInv
    <3>2. CASE m = l /\ e = d
      BY <3>2
    <3>3. CASE m = l /\ e # d
      <4>1. b \in tmp[l][e]
        BY <3>3
      <4>2. pc[l] = "loadDown" /\ cur[l] = u
        BY <1>5, <3>3, <4>1, ZeroValues DEF Scanning
      <4> QED BY <3>3, <4>1, <4>2 DEF Inv, PlaceInv
    <3> QED BY <3>1, <3>2, <3>3
  <2>2. \A m \in Loops : pc'[m] = "zeroDown" => tmp'[m]["up"] \cap InCounters = {}
    BY DEF Inv, PlaceInv
  <2>3. \A m \in Loops : Owned(m) \cap (InCounters \cup Read(m)') = {}
    BY <1>2, <1>3 DEF Inv, PlaceInv
  <2>4. ASSUME NEW m \in Loops, NEW k \in Loops, m # k,
                NEW b \in (Owned(m) \cup Read(m)') \cap (Owned(k) \cup Read(k)')
         PROVE  b \in shared'
    <3>1. \A x \in Loops : b \in new => b \notin Owned(x)
      BY <1>3 DEF Inv, PlaceInv
    <3>2. CASE b \notin new
      BY <1>2, <1>3, <1>4, <2>4, <3>2 DEF Inv, PlaceInv
    <3>3. CASE b \in new
      BY <1>2, <1>4, <2>4, <3>1, <3>3
    <3> QED BY <3>2, <3>3
  <2> QED BY <1>1, <2>1, <2>2, <2>3, <2>4 DEF Inv, PlaceInv
<1>8. SeenInv'
  BY <1>1, <1>2, <1>3 DEF Inv, SeenInv
<1>9. ChargeInv'
  BY <1>1 DEF Inv, ChargeInv
<1>10. ExactInv'
  <2> SUFFICES ASSUME NEW m \in Loops, NEW e \in Dirs, Scanning(m)', ~stale'[m], Loaded(m, e)'
               PROVE  cnt[cur'[m]][e] \subseteq tmp'[m][e] \cup lossy
    BY DEF ExactInv
  <2>1. CASE m # l
    BY <2>1 DEF Inv, ExactInv, Scanning, Loaded
  <2>2. CASE m = l /\ e = d
    BY <2>2
  <2>3. CASE m = l /\ e # d
    <3>1. pc[l] = "loadDown" /\ cur[l] = u /\ e = "up"
      BY <2>3 DEF Scanning, Loaded, Dirs
    <3> QED BY <2>3, <3>1 DEF Inv, ExactInv, Scanning, Loaded
  <2> QED BY <2>1, <2>2, <2>3
<1>11. LossesExplained'
  <2>1. LossesExplained /\ units' = units /\ lossy \subseteq lossy'
    BY DEF Inv
  <2>2. \A b \in InCounters :
           \/ b \in lossy' \/ b \in InCounters'
           \/ \E m \in Loops : b \in InFlight(m)' \cup Charged(m)'
    BY <1>1
  <2>3. \A k \in Loops : \A b \in InFlight(k) \cup Charged(k) :
           \/ b \in lossy' \/ b \in InCounters'
           \/ \E m \in Loops : b \in InFlight(m)' \cup Charged(m)'
    <3>1. \A k \in Loops : InFlight(k)' = InFlight(k) /\ Charged(k)' = Charged(k)
      BY <1>1, <1>2
    <3> QED BY ONLY <3>1
  <2> QED BY ONLY <2>1, <2>2, <2>3, LossKept
<1> QED BY <1>6, <1>7, <1>8, <1>9, <1>10, <1>11 DEF Inv

(* LoadDown below the threshold: what was read is forgotten.               *)
LEMMA SkipStep ==
    ASSUME TrafficTypeOK, Inv, NEW l \in Loops, pc[l] = "loadDown", Done(l),
           pc' = [pc EXCEPT ![l] = "scan"],
           UNCHANGED <<todo, stale, slice, tries, cnt, charges, lossy, repeated,
                       shared, units>>
    PROVE  Inv'
<1>1. /\ InCounters' = InCounters
      /\ \A m \in Loops : /\ InSlice(m)' = InSlice(m) /\ Charged(m)' = Charged(m)
                          /\ Owned(m)' = Owned(m)
  BY DEF InCounters, InSlice, Charged, Owned
<1>2. /\ pc'[l] = "scan" /\ tmp'[l] = Zero
      /\ \A m \in Loops \ {l} : pc'[m] = pc[m] /\ cur'[m] = cur[m] /\ tmp'[m] = tmp[m]
  BY DEF Done, TrafficTypeOK
<1>3. Read(l)' = {} /\ \A m \in Loops \ {l} : Read(m)' = Read(m)
  BY <1>2, ZeroValues DEF Read, Both
<1>4. \A m \in Loops : InFlight(m)' = InFlight(m)
  BY <1>1, <1>2 DEF InFlight
<1>5. StageInv'
  BY <1>2 DEF Inv, StageInv, Scanning
<1>6. PlaceInv'
  <2>1. \A m \in Loops, e \in Dirs : \A b \in tmp'[m][e] \cap InCounters :
            ~stale[m] /\ b \in cnt[cur'[m]][e]
    BY <1>2, ZeroValues DEF Inv, PlaceInv
  <2>2. \A m \in Loops : pc'[m] = "zeroDown" => tmp'[m]["up"] \cap InCounters = {}
    BY <1>2 DEF Inv, PlaceInv
  <2>3. \A m \in Loops : Owned(m) \cap (InCounters \cup Read(m)') = {}
    BY <1>3 DEF Inv, PlaceInv
  <2>4. \A m, k \in Loops : m # k =>
            (Owned(m) \cup Read(m)') \cap (Owned(k) \cup Read(k)') \subseteq shared
    BY <1>3 DEF Inv, PlaceInv
  <2> QED BY <1>1, <2>1, <2>2, <2>3, <2>4 DEF Inv, PlaceInv
<1>7. SeenInv'
  BY <1>1, <1>3 DEF Inv, SeenInv
<1>8. ChargeInv'
  BY <1>1, <1>2 DEF Inv, ChargeInv
<1>9. ExactInv'
  BY <1>2 DEF Inv, ExactInv, Scanning, Loaded
<1>10. LossesExplained'
  BY <1>1, <1>4, LossKept DEF Inv
<1> QED BY <1>5, <1>6, <1>7, <1>8, <1>9, <1>10 DEF Inv

(* What resetting a counter does to the counters.                          *)
LEMMA ResetEffect ==
    ASSUME TrafficTypeOK, NEW l \in Loops, NEW d \in Dirs, cur[l] \in Users
    PROVE  \A u \in Users, e \in Dirs :
              Reset(l, d)[u][e] = IF ~stale[l] /\ u = cur[l] /\ e = d THEN {} ELSE cnt[u][e]
<1>1. CASE stale[l]
  BY <1>1 DEF Reset
<1>2. CASE ~stale[l]
  BY <1>2 DEF Reset, TrafficTypeOK, Traffics
<1> QED BY <1>1, <1>2

(* When counters only lose units, those left are where they were.          *)
LEMMA ShrinkPlaces ==
    ASSUME TrafficTypeOK, Inv,
           \A u \in Users, e \in Dirs : cnt'[u][e] \subseteq cnt[u][e]
    PROVE  /\ InCounters' \subseteq InCounters
           /\ \A m \in Loops, e \in Dirs : \A b \in tmp[m][e] \cap InCounters' :
                 ~stale[m] /\ b \in cnt'[cur[m]][e]
<1>m. Members /\ Members'
  BY MembersHold, PTL
<1>1. InCounters' \subseteq InCounters
  BY <1>m DEF Members
<1>2. ASSUME NEW m \in Loops, NEW e \in Dirs, NEW b \in tmp[m][e], b \in InCounters'
      PROVE  ~stale[m] /\ b \in cnt'[cur[m]][e]
  <2>1. ~stale[m] /\ b \in cnt[cur[m]][e]
    BY <1>1, <1>2 DEF Inv, PlaceInv
  <2>2. PICK u \in Users, d \in Dirs : b \in cnt'[u][d]
    BY <1>m, <1>2 DEF Members
  <2>3. cur[m] \in Users
    BY <1>2, ZeroValues DEF Inv, StageInv, Scanning, TrafficTypeOK
  <2>4. u = cur[m] /\ d = e
    BY <2>1, <2>2, <2>3 DEF Inv, PlaceInv
  <2> QED BY <2>1, <2>2, <2>4
<1> QED BY <1>1, <1>2

(* ZeroUp: what was read of the up counter is now the loop's alone.        *)
LEMMA ZeroUpStep ==
    ASSUME TrafficTypeOK, Inv, NEW l \in Loops, ZeroUp(l)
    PROVE  Inv'
<1>m. Members /\ Members'
  BY MembersHold, PTL
<1>0. cur[l] \in Users /\ "up" \in Dirs /\ "down" \in Dirs
  BY CounterOps DEF ZeroUp, TrafficTypeOK
<1>1. /\ pc[l] = "zeroUp" /\ pc'[l] = "zeroDown" /\ cnt' = Reset(l, "up")
      /\ \A m \in Loops \ {l} : pc'[m] = pc[m]
      /\ UNCHANGED <<todo, cur, tmp, stale, slice, tries, charges, lossy, repeated,
                     shared, units>>
  BY DEF ZeroUp, TrafficTypeOK, scan
<1>2. \A u \in Users, e \in Dirs :
         cnt'[u][e] = IF ~stale[l] /\ u = cur[l] /\ e = "up" THEN {} ELSE cnt[u][e]
  BY <1>0, <1>1, ResetEffect
<1>3. \A m \in Loops : /\ InSlice(m)' = InSlice(m) /\ Charged(m)' = Charged(m)
                       /\ Owned(m)' = Owned(m) /\ Read(m)' = Read(m)
  BY <1>1 DEF InSlice, Charged, Owned, Read
<1>4. \A u \in Users, e \in Dirs : cnt'[u][e] \subseteq cnt[u][e]
  BY <1>2
<1>5. InCounters' \subseteq InCounters
  BY <1>4, ShrinkPlaces
<1>6. tmp[l]["up"] \cap InCounters' = {}
  BY <1>0, <1>2, <1>4, ShrinkPlaces
<1>7. StageInv'
  BY <1>1 DEF Inv, StageInv, Scanning
<1>8. PlaceInv'
  <2>1. \A u, v \in Users, d, e \in Dirs : \A b \in cnt'[u][d] \cap cnt'[v][e] : u = v /\ d = e
    BY <1>4 DEF Inv, PlaceInv
  <2>2. \A m \in Loops, e \in Dirs : \A b \in tmp[m][e] \cap InCounters' :
            ~stale[m] /\ b \in cnt'[cur[m]][e]
    BY <1>4, ShrinkPlaces
  <2>3. \A m \in Loops : pc'[m] = "zeroDown" => tmp[m]["up"] \cap InCounters' = {}
    BY <1>1, <1>5, <1>6 DEF Inv, PlaceInv
  <2>4. \A m \in Loops : Owned(m) \cap (InCounters' \cup Read(m)) = {}
    BY <1>5 DEF Inv, PlaceInv
  <2> QED BY <1>1, <1>3, <2>1, <2>2, <2>3, <2>4 DEF Inv, PlaceInv
<1>9. SeenInv'
  BY <1>1, <1>3, <1>5 DEF Inv, SeenInv
<1>10. ChargeInv'
  BY <1>1, <1>3 DEF Inv, ChargeInv
<1>11. ExactInv'
  BY <1>1, <1>4, <1>0 DEF Inv, ExactInv, Scanning, Loaded, TrafficTypeOK
<1>12. LossesExplained'
  <2>1. \A m \in Loops : InFlight(m) \subseteq InFlight(m)'
    BY <1>1, <1>3 DEF InFlight
  <2>2. tmp[l]["up"] \subseteq InFlight(l)'
    BY <1>1 DEF InFlight
  <2>3. ASSUME NEW b \in InCounters
        PROVE  b \in lossy \/ b \in InCounters' \/ b \in InFlight(l)'
    <3>1. PICK u \in Users, e \in Dirs : b \in cnt[u][e]
      BY <1>m DEF Members
    <3>2. CASE ~stale[l] /\ u = cur[l] /\ e = "up"
      <4>1. cnt[cur[l]]["up"] \subseteq tmp[l]["up"] \cup lossy
        BY <1>0, <1>1, <3>2 DEF Inv, ExactInv, Scanning, Loaded
      <4> QED BY <2>2, <3>1, <3>2, <4>1
    <3>3. CASE ~(~stale[l] /\ u = cur[l] /\ e = "up")
      BY <1>2, <1>m, <3>1, <3>3 DEF Members
    <3> QED BY <3>2, <3>3
  <2> QED BY <1>1, <1>3, <2>1, <2>3, LossKept DEF Inv
<1> QED BY <1>7, <1>8, <1>9, <1>10, <1>11, <1>12 DEF Inv

(* ZeroDown: the loop has collected what it read.                          *)
LEMMA ZeroDownStep ==
    ASSUME TrafficTypeOK, Inv, NEW l \in Loops, ZeroDown(l)
    PROVE  Inv'
<1>m. Members /\ Members'
  BY MembersHold, PTL
<1>0. cur[l] \in Users /\ "up" \in Dirs /\ "down" \in Dirs
  BY CounterOps DEF ZeroDown, TrafficTypeOK
<1>1. /\ pc[l] = "zeroDown" /\ pc'[l] = "scan" /\ cnt' = Reset(l, "down")
      /\ cur'[l] = None /\ tmp'[l] = Zero
      /\ \A m \in Loops \ {l} : /\ pc'[m] = pc[m] /\ cur'[m] = cur[m] /\ tmp'[m] = tmp[m]
                                /\ slice'[m] = slice[m]
      /\ \A u \in Users : slice'[l][u] = IF u = cur[l] THEN tmp[l] ELSE slice[l][u]
      /\ UNCHANGED <<todo, stale, tries, charges, lossy, repeated, shared, units>>
  BY DEF ZeroDown, Done, TrafficTypeOK
<1>2. \A u \in Users, e \in Dirs :
         cnt'[u][e] = IF ~stale[l] /\ u = cur[l] /\ e = "down" THEN {} ELSE cnt[u][e]
  BY <1>0, <1>1, ResetEffect
<1>3. slice[l][cur[l]] = Zero /\ cur[l] \notin todo[l]
  BY <1>1 DEF Inv, StageInv, Scanning
<1>4. /\ \A m \in Loops : Charged(m)' = Charged(m)
      /\ \A m \in Loops \ {l} : /\ InSlice(m)' = InSlice(m) /\ Owned(m)' = Owned(m)
                                /\ Read(m)' = Read(m) /\ InFlight(m)' = InFlight(m)
  BY <1>1 DEF InSlice, Charged, Owned, Read, InFlight
<1>5. Read(l)' = {} /\ InFlight(l)' = InSlice(l)'
  BY <1>1, ZeroValues DEF Read, Both, InFlight
<1>6. \A b : b \in InSlice(l)' <=> (b \in InSlice(l) \/ b \in Read(l))
  <2>1. ASSUME NEW b, b \in InSlice(l)' PROVE b \in InSlice(l) \/ b \in Read(l)
    BY <1>1, <1>m, <2>1 DEF Members
  <2>2. ASSUME NEW b, b \in Read(l) PROVE b \in InSlice(l)'
    <3>1. PICK d \in Dirs : b \in tmp[l][d]
      BY <1>m, <2>2 DEF Members
    <3>2. b \in slice'[l][cur[l]][d]
      BY <1>0, <1>1, <3>1
    <3> QED BY <1>0, <1>m, <3>2 DEF Members
  <2>3. ASSUME NEW b, b \in InSlice(l) PROVE b \in InSlice(l)'
    <3>1. PICK u \in Users, d \in Dirs : b \in slice[l][u][d]
      BY <1>m, <2>3 DEF Members
    <3>2. u # cur[l]
      BY <1>3, <3>1, ZeroValues
    <3>3. b \in slice'[l][u][d]
      BY <1>1, <3>1, <3>2
    <3> QED BY <1>m, <3>3 DEF Members
  <2> QED BY <2>1, <2>2, <2>3
<1>7. \A b : b \in Owned(l)' <=> (b \in Owned(l) \/ b \in Read(l))
  BY <1>4, <1>6 DEF Owned
<1>8. \A u \in Users, e \in Dirs : cnt'[u][e] \subseteq cnt[u][e]
  BY <1>2
<1>9. InCounters' \subseteq InCounters
  BY <1>8, ShrinkPlaces
<1>10. Read(l) \cap InCounters' = {}
  <2> SUFFICES ASSUME NEW d \in Dirs, NEW b \in tmp[l][d], b \in InCounters'
               PROVE  FALSE
    BY <1>m DEF Members
  <2>1. CASE d = "up"
    BY <1>1, <1>9, <2>1 DEF Inv, PlaceInv
  <2>2. CASE d = "down"
    BY <1>0, <1>2, <1>8, <2>2, ShrinkPlaces
  <2> QED BY <2>1, <2>2 DEF Dirs
<1>11. StageInv'
  <2> SUFFICES ASSUME NEW m \in Loops
               PROVE  /\ pc'[m] \in {"idle", "online"} => \A u \in Users : slice'[m][u] = Zero
                      /\ \A u \in todo[m] : slice'[m][u] = Zero
                      /\ Scanning(m)' => slice'[m][cur'[m]] = Zero /\ cur'[m] \notin todo[m]
                      /\ ~Scanning(m)' => tmp'[m] = Zero
                      /\ pc'[m] = "loadDown" => tmp'[m]["down"] = {}
    BY <1>1 DEF StageInv
  <2>1. CASE m # l
    BY <1>1, <2>1 DEF Inv, StageInv, Scanning
  <2>2. CASE m = l
    <3>1. \A u \in todo[l] : slice'[l][u] = Zero
      BY <1>1, <1>3 DEF Inv, StageInv, TrafficTypeOK
    <3> QED BY <1>1, <2>2, <3>1 DEF Scanning
  <2> QED BY <2>1, <2>2
<1>12. PlaceInv'
  <2>1. \A u, v \in Users, d, e \in Dirs : \A b \in cnt'[u][d] \cap cnt'[v][e] : u = v /\ d = e
    BY <1>8 DEF Inv, PlaceInv
  <2>2. \A m \in Loops, e \in Dirs : \A b \in tmp'[m][e] \cap InCounters' :
            ~stale[m] /\ b \in cnt'[cur'[m]][e]
    BY <1>1, <1>8, ZeroValues, ShrinkPlaces
  <2>3. \A m \in Loops : pc'[m] = "zeroDown" => tmp'[m]["up"] \cap InCounters' = {}
    BY <1>1, <1>9 DEF Inv, PlaceInv
  <2>4. \A m \in Loops : Owned(m)' \cap (InCounters' \cup Read(m)') = {}
    <3>1. \A m \in Loops : Owned(m) \cap (InCounters \cup Read(m)) = {}
      BY DEF Inv, PlaceInv
    <3>2. Owned(l)' \cap (InCounters' \cup Read(l)') = {}
      BY <1>5, <1>7, <1>9, <1>10, <3>1
    <3>3. \A m \in Loops \ {l} : Owned(m)' \cap (InCounters' \cup Read(m)') = {}
      BY <1>4, <1>9, <3>1
    <3> QED BY <3>2, <3>3
  <2>5. ASSUME NEW m \in Loops, NEW k \in Loops, m # k
        PROVE  (Owned(m)' \cup Read(m)') \cap (Owned(k)' \cup Read(k)') \subseteq shared
    <3>1. \A x \in Loops : Owned(x)' \cup Read(x)' \subseteq Owned(x) \cup Read(x)
      BY <1>4, <1>5, <1>7
    <3>2. (Owned(m) \cup Read(m)) \cap (Owned(k) \cup Read(k)) \subseteq shared
      BY <2>5 DEF Inv, PlaceInv
    <3> QED BY <3>1, <3>2
  <2> QED BY <1>1, <2>1, <2>2, <2>3, <2>4, <2>5 DEF PlaceInv
<1>13. SeenInv'
  BY <1>1, <1>4, <1>5, <1>7, <1>9 DEF Inv, SeenInv
<1>14. ChargeInv'
  <2> SUFFICES ASSUME NEW m \in Loops, NEW b \in Units
               PROVE  /\ b \in InSlice(m)' =>
                            IF pc'[m] = "push" THEN charges[m][b] + tries[m] <= Retries
                            ELSE charges[m][b] = 0
                      /\ b \notin repeated /\ b \in InSlice(m)' => charges[m][b] = 0
    BY <1>1 DEF Inv, ChargeInv
  <2>1. CASE m # l
    BY <1>1, <1>4, <2>1 DEF Inv, ChargeInv
  <2>2. CASE m = l
    <3>1. b \in Read(l) => charges[l][b] = 0
      <4>1. b \in Read(l) => b \notin Charged(l)
        BY <1>m DEF Inv, PlaceInv, Members
      <4>2. charges[l][b] \in Nat
        BY DEF TrafficTypeOK
      <4> QED BY <1>m, <4>1, <4>2 DEF Members
    <3>2. b \in InSlice(l) => charges[l][b] = 0
      BY <1>1 DEF Inv, ChargeInv
    <3> QED BY <1>1, <1>6, <2>2, <3>1, <3>2
  <2> QED BY <2>1, <2>2
<1>15. ExactInv'
  BY <1>1, <1>8, <1>0 DEF Inv, ExactInv, Scanning, Loaded, TrafficTypeOK
<1>16. LossesExplained'
  <2>1. LossesExplained /\ units' = units /\ lossy \subseteq lossy'
    BY <1>1 DEF Inv
  <2>2. ASSUME NEW b \in InCounters
        PROVE  \/ b \in lossy' \/ b \in InCounters'
               \/ \E m \in Loops : b \in InFlight(m)' \cup Charged(m)'
    <3>1. PICK u \in Users, e \in Dirs : b \in cnt[u][e]
      BY <1>m DEF Members
    <3>2. CASE ~stale[l] /\ u = cur[l] /\ e = "down"
      <4>1. cnt[cur[l]]["down"] \subseteq tmp[l]["down"] \cup lossy
        BY <1>0, <1>1, <3>2 DEF Inv, ExactInv, Scanning, Loaded
      <4>2. b \in lossy \/ b \in Read(l)
        BY <1>0, <1>m, <3>1, <3>2, <4>1 DEF Members
      <4> QED BY <1>1, <1>5, <1>6, <4>2
    <3>3. CASE ~(~stale[l] /\ u = cur[l] /\ e = "down")
      BY <1>2, <1>m, <3>1, <3>3 DEF Members
    <3> QED BY <3>2, <3>3
  <2>3. ASSUME NEW k \in Loops, NEW b \in InFlight(k) \cup Charged(k)
        PROVE  b \in InFlight(k)' \cup Charged(k)'
    <3>1. CASE k # l
      BY <1>4, <3>1
    <3>2. CASE k = l
      <4>1. InFlight(l) \subseteq InSlice(l) \cup Read(l)
        BY <1>0, <1>m DEF Members
      <4> QED BY <1>4, <1>5, <1>6, <3>2, <4>1
    <3> QED BY <3>1, <3>2
  <2> QED BY <2>1, <2>2, <2>3, LossKept
<1> QED BY <1>11, <1>12, <1>13, <1>14, <1>15, <1>16 DEF Inv

(* A counter is dropped: by DelUsers, when no scan is on, or by a scan.    *)
LEMMA DropStep ==
    ASSUME TrafficTypeOK, Inv, NEW u \in Users, NEW L \in SUBSET Loops,
           cnt' = [cnt EXCEPT ![u] = Zero],
           lossy \cup Both(cnt[u]) \subseteq lossy',
           UNCHANGED <<todo, slice, tries, charges, repeated, shared, units>>,
           \A m \in Loops \ L :
              /\ pc'[m] = pc[m] /\ cur'[m] = cur[m] /\ tmp'[m] = tmp[m]
              /\ Scanning(m) => (stale'[m] <=> (stale[m] \/ cur[m] = u)),
           \A m \in L : /\ pc[m] = "zeroDown" /\ pc'[m] = "scan" /\ tmp'[m] = Zero
                        /\ Read(m) \subseteq lossy'
    PROVE  Inv'
<1>m. Members /\ Members'
  BY MembersHold, PTL
<1>1. \A v \in Users, e \in Dirs : cnt'[v][e] = IF v = u THEN {} ELSE cnt[v][e]
  BY ZeroValues DEF TrafficTypeOK
<1>2. \A v \in Users, e \in Dirs : cnt'[v][e] \subseteq cnt[v][e]
  BY <1>1
<1>3. InCounters' \subseteq InCounters
  BY <1>2, ShrinkPlaces
<1>4. /\ \A m \in Loops : /\ InSlice(m)' = InSlice(m) /\ Charged(m)' = Charged(m)
                          /\ Owned(m)' = Owned(m)
      /\ \A m \in Loops \ L : Read(m)' = Read(m) /\ InFlight(m)' = InFlight(m)
  BY DEF InSlice, Charged, Owned, Read, InFlight
<1>5. \A m \in L : Read(m)' = {} /\ InFlight(m) \subseteq InSlice(m) \cup Read(m)
                   /\ InFlight(m)' = InSlice(m)
  BY <1>4, ZeroValues DEF Read, Both, InFlight
<1>6. StageInv'
  BY DEF Inv, StageInv, Scanning
<1>7. PlaceInv'
  <2>1. \A v, w \in Users, d, e \in Dirs : \A b \in cnt'[v][d] \cap cnt'[w][e] : v = w /\ d = e
    BY <1>2 DEF Inv, PlaceInv
  <2>2. ASSUME NEW m \in Loops, NEW e \in Dirs, NEW b \in tmp'[m][e] \cap InCounters'
        PROVE  ~stale'[m] /\ b \in cnt'[cur'[m]][e]
    <3>1. m \notin L /\ b \in tmp[m][e]
      BY <2>2, ZeroValues
    <3>2. ~stale[m] /\ b \in cnt'[cur[m]][e]
      BY <1>2, <2>2, <3>1, ShrinkPlaces
    <3>3. Scanning(m) /\ cur[m] \in Users
      BY <3>1, ZeroValues DEF Inv, StageInv, Scanning, TrafficTypeOK
    <3>4. cur[m] # u
      BY <1>1, <3>2, <3>3
    <3> QED BY <3>1, <3>2, <3>3, <3>4
  <2>3. \A m \in Loops : pc'[m] = "zeroDown" => tmp'[m]["up"] \cap InCounters' = {}
    BY <1>3 DEF Inv, PlaceInv
  <2>4. \A m \in Loops : Owned(m) \cap (InCounters' \cup Read(m)') = {}
    <3>1. \A m \in Loops : Owned(m) \cap (InCounters \cup Read(m)) = {}
      BY DEF Inv, PlaceInv
    <3> QED BY <1>3, <1>4, <1>5, <3>1
  <2>5. ASSUME NEW m \in Loops, NEW k \in Loops, m # k
        PROVE  (Owned(m) \cup Read(m)') \cap (Owned(k) \cup Read(k)') \subseteq shared
    <3>1. \A x \in Loops : Read(x)' \subseteq Read(x)
      BY <1>4, <1>5
    <3>2. (Owned(m) \cup Read(m)) \cap (Owned(k) \cup Read(k)) \subseteq shared
      BY <2>5 DEF Inv, PlaceInv
    <3> QED BY <3>1, <3>2
  <2> QED BY <1>4, <2>1, <2>2, <2>3, <2>4, <2>5 DEF PlaceInv
<1>8. SeenInv'
  <2>1. \A m \in Loops : Owned(m)' \cup Read(m)' \subseteq Owned(m) \cup Read(m)
    BY <1>4, <1>5
  <2> QED BY <1>3, <2>1 DEF Inv, SeenInv
<1>9. ChargeInv'
  BY <1>4 DEF Inv, ChargeInv
<1>10. ExactInv'
  <2> SUFFICES ASSUME NEW m \in Loops, NEW d \in Dirs, Scanning(m)', ~stale'[m], Loaded(m, d)'
               PROVE  cnt'[cur'[m]][d] \subseteq tmp'[m][d] \cup lossy'
    BY DEF ExactInv
  <2>1. m \notin L /\ Scanning(m) /\ Loaded(m, d) /\ ~stale[m] /\ cur[m] \in Users
    BY DEF Scanning, Loaded, TrafficTypeOK
  <2>2. cnt[cur[m]][d] \subseteq tmp[m][d] \cup lossy
    BY <2>1 DEF Inv, ExactInv
  <2>3. cnt'[cur[m]][d] \subseteq cnt[cur[m]][d]
    BY <1>2, <2>1
  <2>4. cur'[m] = cur[m] /\ tmp'[m] = tmp[m] /\ lossy \subseteq lossy'
    BY <2>1
  <2> QED BY <2>2, <2>3, <2>4
<1>11. LossesExplained'
  <2>1. LossesExplained /\ units' = units /\ lossy \subseteq lossy'
    BY DEF Inv
  <2>2. ASSUME NEW b \in InCounters
        PROVE  b \in lossy' \/ b \in InCounters'
    <3>1. PICK v \in Users, e \in Dirs : b \in cnt[v][e]
      BY <1>m DEF Members
    <3>2. CASE v = u
      BY <3>1, <3>2 DEF Both, Dirs
    <3>3. CASE v # u
      BY <1>1, <1>m, <3>1, <3>3 DEF Members
    <3> QED BY <3>2, <3>3
  <2>3. ASSUME NEW k \in Loops, NEW b \in InFlight(k) \cup Charged(k)
        PROVE  b \in lossy' \/ b \in InFlight(k)' \cup Charged(k)'
    <3>1. CASE k \notin L
      BY <1>4, <3>1
    <3>2. CASE k \in L
      BY <1>4, <1>5, <3>2
    <3> QED BY <3>1, <3>2
  <2> QED BY <2>1, <2>2, <2>3, LossKept
<1> QED BY <1>6, <1>7, <1>8, <1>9, <1>10, <1>11 DEF Inv

(* A unit moves: it is new, and added to a counter or lost.                *)
LEMMA MoveStep ==
    ASSUME TrafficTypeOK, Inv, NEW c \in Conns, NEW d \in Dirs, Move(c, d)
    PROVE  Inv'
<1> DEFINE u == conn[c].user
           n == units + 1
<1>m. Members /\ Members'
  BY MembersHold, PTL
<1>0. /\ u \in Users /\ units \in Nat /\ n \in Units /\ units' = n
      /\ 1 .. units' = (1 .. units) \cup {n} /\ n \notin 1 .. units
  <2>1. u \in Users /\ units \in Nat /\ units' = n /\ n \in Units
    BY TrafficAssumption DEF Move, TrafficTypeOK, Units
  <2> QED BY <2>1
<1>1. UNCHANGED <<pc, todo, cur, tmp, stale, slice, tries, charges, repeated, shared>>
  BY DEF Move, report, scan
<1>2. \A m \in Loops : /\ InSlice(m)' = InSlice(m) /\ Charged(m)' = Charged(m)
                       /\ Owned(m)' = Owned(m) /\ Read(m)' = Read(m)
                       /\ InFlight(m)' = InFlight(m)
  BY <1>1 DEF InSlice, Charged, Owned, Read, InFlight
<1>3. /\ \A v \in Users, e \in Dirs : cnt'[v][e] \subseteq cnt[v][e] \cup {n}
      /\ \A v \in Users, e \in Dirs : cnt[v][e] \subseteq cnt'[v][e]
      /\ \A v \in Users, e \in Dirs : n \in cnt'[v][e] => (v = u /\ e = d) \/ n \in cnt[v][e]
      /\ lossy \subseteq lossy' /\ (n \in cnt'[u][d] \/ n \in lossy')
      /\ n \in cnt'[u][d] \/ cnt' = cnt
      /\ Collecting(u, d) => n \in lossy'
  <2>1. CASE conn[c].at = "open"
    <3>1. \A v \in Users, e \in Dirs :
             cnt'[v][e] = IF v = u /\ e = d THEN cnt[v][e] \cup {n} ELSE cnt[v][e]
      <4>1. cnt' = [cnt EXCEPT ![u][d] = cnt[u][d] \cup {n}]
        BY <2>1 DEF Move
      <4>2. cnt \in [Users -> Traffics] /\ u \in Users
        BY <1>0 DEF TrafficTypeOK
      <4> HIDE DEF u, n
      <4> QED BY <4>1, <4>2 DEF Traffics
    <3>2. lossy \subseteq lossy' /\ (Collecting(u, d) => n \in lossy')
      BY <2>1 DEF Move
    <3> HIDE DEF u, n
    <3> QED BY <3>1, <3>2, <1>0
  <2>2. CASE conn[c].at = "orphan"
    BY <2>2 DEF Move
  <2> QED BY <2>1, <2>2 DEF Move
<1> HIDE DEF u, n
<1>4. /\ n \notin InCounters /\ \A m \in Loops : n \notin Owned(m) /\ n \notin Read(m)
      /\ \A v \in Users, e \in Dirs : n \notin cnt[v][e]
  BY <1>0, <1>m DEF Inv, SeenInv, Members
<1>5. InCounters \subseteq InCounters' /\ InCounters' \subseteq InCounters \cup {n}
  BY <1>3, <1>m DEF Members
<1>6. StageInv'
  BY <1>1 DEF Inv, StageInv, Scanning
<1>7. PlaceInv'
  <2>1. ASSUME NEW v \in Users, NEW w \in Users, NEW e \in Dirs, NEW f \in Dirs,
               NEW b \in cnt'[v][e] \cap cnt'[w][f]
        PROVE  v = w /\ e = f
    <3>1. CASE b = n
      BY <1>3, <1>4, <2>1, <3>1
    <3>2. CASE b # n
      BY <1>3, <2>1, <3>2 DEF Inv, PlaceInv
    <3> QED BY <3>1, <3>2
  <2>2. ASSUME NEW m \in Loops, NEW e \in Dirs, NEW b \in tmp[m][e] \cap InCounters'
        PROVE  ~stale[m] /\ b \in cnt'[cur[m]][e]
    <3>1. b \in Read(m)
      BY <1>m, <2>2 DEF Members
    <3>2. b \in InCounters
      BY <1>4, <1>5, <2>2, <3>1
    <3>3. ~stale[m] /\ b \in cnt[cur[m]][e]
      BY <2>2, <3>2 DEF Inv, PlaceInv
    <3>4. cur[m] \in Users
      BY <2>2, ZeroValues DEF Inv, StageInv, Scanning, TrafficTypeOK
    <3> QED BY <1>3, <3>3, <3>4
  <2>3. ASSUME NEW m \in Loops, pc[m] = "zeroDown" PROVE tmp[m]["up"] \cap InCounters' = {}
    <3>1. tmp[m]["up"] \cap InCounters = {}
      BY <2>3 DEF Inv, PlaceInv
    <3>2. n \notin tmp[m]["up"]
      BY <1>4, <1>m, CounterOps DEF Members
    <3> QED BY <1>5, <3>1, <3>2
  <2>4. \A m \in Loops : Owned(m) \cap (InCounters' \cup Read(m)) = {}
    <3>1. \A m \in Loops : Owned(m) \cap (InCounters \cup Read(m)) = {}
      BY DEF Inv, PlaceInv
    <3> QED BY <1>4, <1>5, <3>1
  <2> QED BY <1>1, <1>2, <2>1, <2>2, <2>3, <2>4 DEF Inv, PlaceInv
<1>8. SeenInv'
  BY <1>0, <1>2, <1>5 DEF Inv, SeenInv
<1>9. ChargeInv'
  BY <1>1, <1>2 DEF Inv, ChargeInv
<1>10. ExactInv'
  <2> SUFFICES ASSUME NEW m \in Loops, NEW e \in Dirs, Scanning(m), ~stale[m], Loaded(m, e),
                      NEW b \in cnt'[cur[m]][e]
               PROVE  b \in tmp[m][e] \cup lossy'
    BY <1>1 DEF ExactInv, Scanning, Loaded
  <2>1. cur[m] \in Users
    BY DEF Scanning, TrafficTypeOK
  <2>2. CASE b # n
    <3>1. b \in cnt[cur[m]][e]
      BY <1>3, <2>1, <2>2
    <3> QED BY <1>3, <3>1 DEF Inv, ExactInv
  <2>3. CASE b = n
    <3>1. cur[m] = u /\ e = d
      BY <1>3, <1>4, <2>1, <2>3
    <3> QED BY <1>3, <2>3, <3>1 DEF Collecting
  <2> QED BY <2>2, <2>3
<1>11. LossesExplained'
  <2> SUFFICES ASSUME NEW b \in (1 .. units') \ lossy'
               PROVE  \/ b \in InCounters'
                      \/ \E m \in Loops : b \in InFlight(m)' \cup Charged(m)'
    BY DEF LossesExplained
  <2>1. CASE b = n
    <3>1. n \in cnt'[u][d]
      BY <1>3, <2>1
    <3> QED BY <1>0, <1>m, <2>1, <3>1 DEF Members
  <2>2. CASE b # n
    <3>1. b \in (1 .. units) \ lossy
      BY <1>0, <1>3, <2>2
    <3>2. b \in InCounters \/ \E m \in Loops : b \in InFlight(m) \cup Charged(m)
      BY <3>1 DEF Inv, LossesExplained
    <3> QED BY <1>2, <1>5, <3>2
  <2> QED BY <2>1, <2>2
<1> QED BY <1>6, <1>7, <1>8, <1>9, <1>10, <1>11 DEF Inv

(* An attempt of a push, counted by the panel or not: the last one ends    *)
(* the push, another leaves it for one attempt less.                       *)
LEMMA PushStep ==
    ASSUME TrafficTypeOK, Inv, NEW l \in Loops, pc[l] = "push",
           UNCHANGED <<todo, cur, tmp, stale, cnt, shared, units>>,
           charges' = charges \/ charges' = Counted(l),
           \/ /\ Forget(l) /\ repeated' = repeated
              /\ lossy \subseteq lossy'
              /\ charges' = charges => InSlice(l) \subseteq lossy'
           \/ /\ tries[l] > 0 /\ tries' = [tries EXCEPT ![l] = @ - 1]
              /\ UNCHANGED <<pc, slice, lossy>>
              /\ repeated \subseteq repeated'
              /\ charges' = charges \/ InSlice(l) \subseteq repeated'
    PROVE  Inv'
<1>m. Members /\ Members'
  BY MembersHold, PTL
<1>s. InSlice(l) \subseteq Units
  BY CountedType
<1>1. /\ lossy \subseteq lossy' /\ repeated \subseteq repeated'
      /\ \A m \in Loops \ {l} : /\ pc'[m] = pc[m] /\ slice'[m] = slice[m] /\ tries'[m] = tries[m]
                                /\ charges'[m] = charges[m]
      /\ pc'[l] \in {"push", "online"}
      /\ pc'[l] = "online" => slice'[l] = [u \in Users |-> Zero]
      /\ pc'[l] = "push" => slice'[l] = slice[l] /\ tries[l] > 0 /\ tries'[l] = tries[l] - 1
  BY DEF Forget, Counted, TrafficTypeOK
<1>2. /\ InCounters' = InCounters /\ \A m \in Loops : Read(m)' = Read(m)
      /\ \A m \in Loops \ {l} : /\ InSlice(m)' = InSlice(m) /\ Charged(m)' = Charged(m)
                                /\ Owned(m)' = Owned(m) /\ InFlight(m)' = InFlight(m)
  BY <1>1 DEF InCounters, Read, InSlice, Charged, Owned, InFlight
<1>3. InFlight(l)' = InSlice(l)' /\ InFlight(l) = InSlice(l)
  BY <1>1 DEF InFlight
<1>4. InSlice(l)' = IF pc'[l] = "push" THEN InSlice(l) ELSE {}
  <2>1. CASE pc'[l] = "push"
    BY <1>1, <2>1 DEF InSlice
  <2>2. CASE pc'[l] = "online"
    BY <1>1, <1>m, <2>2, ZeroValues DEF Members
  <2> QED BY <1>1, <2>1, <2>2
<1>5. \A b \in Units : /\ charges[l][b] \in Nat
                       /\ charges'[l][b] = IF charges' # charges /\ b \in InSlice(l)
                                           THEN charges[l][b] + 1 ELSE charges[l][b]
  BY DEF TrafficTypeOK, Counted
<1>6. /\ Charged(l) \subseteq Charged(l)' /\ Charged(l)' \subseteq Charged(l) \cup InSlice(l)
      /\ charges' # charges => InSlice(l) \subseteq Charged(l)'
  BY <1>5, <1>s DEF Charged
<1>7. Owned(l)' \subseteq Owned(l)
  BY <1>4, <1>6 DEF Owned
<1>8. StageInv'
  <2> SUFFICES ASSUME NEW m \in Loops
               PROVE  /\ pc'[m] \in {"idle", "online"} => \A u \in Users : slice'[m][u] = Zero
                      /\ \A u \in todo[m] : slice'[m][u] = Zero
                      /\ Scanning(m)' => slice'[m][cur[m]] = Zero /\ cur[m] \notin todo[m]
                      /\ ~Scanning(m)' => tmp[m] = Zero
                      /\ pc'[m] = "loadDown" => tmp[m]["down"] = {}
    BY DEF StageInv
  <2>1. CASE m # l
    BY <1>1, <2>1 DEF Inv, StageInv, Scanning
  <2>2. CASE m = l
    <3>1. pc[l] = "push" /\ ~Scanning(l) /\ ~Scanning(l)'
      BY <1>1 DEF Scanning
    <3>2. \A u \in todo[l] : slice'[l][u] = Zero
      BY <1>1 DEF Inv, StageInv, TrafficTypeOK
    <3>3. pc'[l] \in {"idle", "online"} => \A u \in Users : slice'[l][u] = Zero
      BY <1>1
    <3> QED BY <1>1, <2>2, <3>1, <3>2, <3>3 DEF Inv, StageInv
  <2> QED BY <2>1, <2>2
<1>9. PlaceInv'
  <2>1. \A m \in Loops : Owned(m)' \subseteq Owned(m)
    BY <1>2, <1>7
  <2>2. \A m \in Loops : Owned(m)' \cap (InCounters \cup Read(m)) = {}
    BY <2>1 DEF Inv, PlaceInv
  <2>3. ASSUME NEW m \in Loops, NEW k \in Loops, m # k
        PROVE  (Owned(m)' \cup Read(m)) \cap (Owned(k)' \cup Read(k)) \subseteq shared
    <3>1. (Owned(m) \cup Read(m)) \cap (Owned(k) \cup Read(k)) \subseteq shared
      BY <2>3 DEF Inv, PlaceInv
    <3> QED BY <2>1, <3>1
  <2>4. \A m \in Loops : pc'[m] = "zeroDown" => pc[m] = "zeroDown"
    BY <1>1
  <2> QED BY <1>2, <2>2, <2>3, <2>4 DEF Inv, PlaceInv
<1>10. SeenInv'
  BY <1>2, <1>7 DEF Inv, SeenInv
<1>11. ChargeInv'
  <2> SUFFICES ASSUME NEW m \in Loops, NEW b \in Units
               PROVE  /\ charges'[m][b] <= Retries + 1
                      /\ b \in InSlice(m)' =>
                            IF pc'[m] = "push" THEN charges'[m][b] + tries'[m] <= Retries
                            ELSE charges'[m][b] = 0
                      /\ b \notin repeated' => /\ charges'[m][b] <= 1
                                               /\ b \in InSlice(m)' => charges'[m][b] = 0
    BY DEF ChargeInv
  <2>1. CASE m # l
    BY <1>1, <1>2, <2>1 DEF Inv, ChargeInv
  <2>2. CASE m = l
    <3>1. /\ charges[l][b] \in Nat /\ tries[l] \in Nat /\ Retries \in Nat
          /\ charges[l][b] <= Retries + 1
          /\ b \in InSlice(l) => charges[l][b] + tries[l] <= Retries
          /\ b \notin repeated => charges[l][b] <= 1 /\ (b \in InSlice(l) => charges[l][b] = 0)
      BY <1>5, TrafficAssumption DEF Inv, ChargeInv, TrafficTypeOK
    <3>2. CASE charges' = charges \/ b \notin InSlice(l)
      <4>1. charges'[l][b] = charges[l][b]
        BY <1>5, <3>2
      <4> QED BY <1>1, <1>4, <2>2, <3>1, <4>1
    <3>3. CASE charges' # charges /\ b \in InSlice(l)
      <4>1. charges'[l][b] = charges[l][b] + 1
        BY <1>5, <3>3
      <4>2. pc'[l] = "push" => b \in repeated'
        BY <3>3 DEF Forget, TrafficTypeOK
      <4> QED BY <1>1, <1>4, <2>2, <3>1, <3>3, <4>1, <4>2
    <3> QED BY <3>2, <3>3
  <2> QED BY <2>1, <2>2
<1>12. ExactInv'
  <2>1. \A m \in Loops : Scanning(m)' => m # l /\ pc'[m] = pc[m]
    BY <1>1 DEF Scanning
  <2> QED BY <1>1, <2>1 DEF Inv, ExactInv, Scanning, Loaded
<1>13. LossesExplained'
  <2>1. LossesExplained /\ units' = units /\ lossy \subseteq lossy'
    BY <1>1 DEF Inv
  <2>2. ASSUME NEW k \in Loops, NEW b \in InFlight(k) \cup Charged(k)
        PROVE  b \in lossy' \/ b \in InFlight(k)' \cup Charged(k)'
    <3>1. CASE k # l
      BY <1>2, <3>1
    <3>2. CASE k = l /\ b \in Charged(l)
      BY <1>6, <3>2
    <3>3. CASE k = l /\ b \in InSlice(l)
      <4>1. CASE pc'[l] = "push"
        BY <1>3, <1>4, <3>3, <4>1
      <4>2. CASE pc'[l] = "online" /\ charges' = charges
        BY <3>3, <4>2 DEF Forget
      <4>3. CASE pc'[l] = "online" /\ charges' # charges
        BY <1>6, <3>3, <4>3
      <4> QED BY <1>1, <4>1, <4>2, <4>3
    <3> QED BY <1>3, <2>2, <3>1, <3>2, <3>3
  <2> QED BY <1>2, <2>1, <2>2, LossKept
<1> QED BY <1>8, <1>9, <1>10, <1>11, <1>12, <1>13 DEF Inv

(* Every step keeps the invariant.                                         *)
LEMMA AccountStep ==
    ASSUME TrafficTypeOK, Inv, [Next]_vars
    PROVE  Inv'
<1> USE DEF conns, books, admin, scan, report
<1>1. CASE \/ UNCHANGED vars
           \/ \E c \in Conns : \/ GetCounter(c) \/ Disconnect(c)
                              \/ \E u \in Users : Accept(c, u)
           \/ \E u \in Users : AddUser(u)
           \/ \E l \in Loops : Restart(l)
  BY <1>1, FrameStep DEF vars, GetCounter, Disconnect, Accept, AddUser, Restart
<1>2. ASSUME NEW l \in Loops, Begin(l) \/ EndScan(l) \/ Online(l) PROVE Inv'
  BY <1>2, TurnStep
<1>3. ASSUME NEW l \in Loops, NEW u \in Users, LoadUp(l, u) PROVE Inv'
  <2>1. tmp[l] = Zero
    BY <1>3 DEF LoadUp, Inv, StageInv, Scanning
  <2>2. \A e \in Dirs : tmp'[l][e] = IF e # "up" THEN tmp[l][e]
                                     ELSE IF stale'[l] THEN {} ELSE cnt[u]["up"]
    <3>1. tmp'[l] = [Zero EXCEPT !["up"] = cnt[u]["up"]] /\ ~stale'[l]
      BY <1>3 DEF LoadUp, TrafficTypeOK
    <3> QED BY <2>1, <3>1 DEF Zero
  <2>3. /\ UNCHANGED <<slice, tries, cnt, charges, lossy, repeated, units>>
        /\ pc[l] = "scan" /\ pc'[l] = "loadDown" /\ u \in todo[l] /\ u \notin todo'[l]
        /\ todo'[l] \subseteq todo[l] /\ cur'[l] = u
        /\ \A m \in Loops \ {l} : /\ pc'[m] = pc[m] /\ todo'[m] = todo[m] /\ cur'[m] = cur[m]
                                  /\ tmp'[m] = tmp[m] /\ stale'[m] = stale[m]
        /\ shared' = ReadTwice(l, cnt[u]["up"])
    BY <1>3 DEF LoadUp, TrafficTypeOK
  <2>4. tmp'[l]["up"] = cnt[u]["up"] /\ ~Scanning(l)
    BY <1>3, <2>2, <2>3, CounterOps DEF LoadUp, TrafficTypeOK, Scanning
  <2>5. "up" \in Dirs /\ shared' = ReadTwice(l, tmp'[l]["up"])
    BY <2>3, <2>4, CounterOps
  <2>6. pc[l] \in {"scan", "loadDown"} /\ ~(pc[l] = "loadDown")
    BY <2>3
  <2> QED BY <2>2, <2>3, <2>4, <2>5, <2>6, ReadStep
<1>4. ASSUME NEW l \in Loops, LoadDown(l) PROVE Inv'
  <2>0. pc[l] = "loadDown" /\ cur[l] \in Users
    BY <1>4 DEF LoadDown, TrafficTypeOK
  <2>1. CASE pc' = [pc EXCEPT ![l] = "scan"] /\ Done(l) /\ UNCHANGED shared
    <3>1. UNCHANGED <<todo, stale, slice, tries, cnt, charges, lossy, repeated, units>>
      BY <1>4 DEF LoadDown
    <3> QED BY <2>0, <2>1, <3>1, SkipStep
  <2>2. CASE ~(pc' = [pc EXCEPT ![l] = "scan"] /\ Done(l) /\ UNCHANGED shared)
    <3> DEFINE down == IF stale[l] THEN {} ELSE cnt[cur[l]]["down"]
    <3>1. /\ UNCHANGED <<todo, cur, stale, slice, tries, cnt, charges, lossy, repeated, units>>
          /\ pc' = [pc EXCEPT ![l] = "zeroUp"]
          /\ tmp' = [tmp EXCEPT ![l] = [tmp[l] EXCEPT !["down"] = down]]
          /\ shared' = ReadTwice(l, down)
      BY <1>4, <2>2 DEF LoadDown
    <3>2. /\ pc'[l] = "zeroUp"
          /\ \A m \in Loops \ {l} : pc'[m] = pc[m] /\ tmp'[m] = tmp[m]
          /\ tmp'[l] = [tmp[l] EXCEPT !["down"] = down] /\ tmp[l] \in Traffics
      BY <3>1 DEF TrafficTypeOK
    <3>3. /\ "down" \in Dirs
          /\ \A e \in Dirs : tmp'[l][e] = IF e # "down" THEN tmp[l][e]
                                          ELSE IF stale'[l] THEN {} ELSE cnt[cur[l]]["down"]
      <4>1. down = (IF stale'[l] THEN {} ELSE cnt[cur[l]]["down"])
        BY <3>1
      <4> HIDE DEF down
      <4>2. "down" \in Dirs /\ \A e \in Dirs : tmp'[l][e] = IF e # "down" THEN tmp[l][e] ELSE down
        BY <3>2, CounterOps DEF Traffics
      <4> QED BY <4>1, <4>2
    <3>4. shared' = ReadTwice(l, tmp'[l]["down"])
      <4>1. tmp'[l]["down"] = down
        BY <3>1, <3>3
      <4> HIDE DEF down
      <4> QED BY <3>1, <4>1
    <3>5. /\ pc[l] \in {"scan", "loadDown"} /\ pc[l] # "scan" /\ cur'[l] = cur[l]
          /\ todo'[l] = todo[l] /\ stale'[l] = stale[l] /\ todo'[l] \subseteq todo[l]
          /\ \A m \in Loops \ {l} : /\ pc'[m] = pc[m] /\ todo'[m] = todo[m] /\ cur'[m] = cur[m]
                                    /\ tmp'[m] = tmp[m] /\ stale'[m] = stale[m]
      BY <2>0, <3>1, <3>2
    <3> HIDE DEF down
    <3> QED BY <2>0, <3>1, <3>2, <3>3, <3>4, <3>5, ReadStep
  <2> QED BY <2>1, <2>2
<1>5. ASSUME NEW l \in Loops, ZeroUp(l) \/ ZeroDown(l) PROVE Inv'
  BY <1>5, ZeroUpStep, ZeroDownStep
<1>6. ASSUME NEW l \in Loops, ZeroDownUnknown(l) PROVE Inv'
  <2> DEFINE u == cur[l]
             L == {l}
  <2>1. /\ u \in Users /\ cnt' = [cnt EXCEPT ![u] = Zero] /\ L \in SUBSET Loops
        /\ lossy \cup Both(cnt[u]) \subseteq lossy'
        /\ UNCHANGED <<todo, slice, tries, charges, repeated, shared, units>>
    BY <1>6 DEF ZeroDownUnknown, DropCounter, TrafficTypeOK
  <2>2. \A m \in Loops \ L :
              /\ pc'[m] = pc[m] /\ cur'[m] = cur[m] /\ tmp'[m] = tmp[m]
              /\ Scanning(m) => (stale'[m] <=> (stale[m] \/ cur[m] = u))
    BY <1>6 DEF ZeroDownUnknown, Done, TrafficTypeOK
  <2>3. \A m \in L : /\ pc[m] = "zeroDown" /\ pc'[m] = "scan" /\ tmp'[m] = Zero
                     /\ Read(m) \subseteq lossy'
    BY <1>6 DEF ZeroDownUnknown, Done, TrafficTypeOK, Read
  <2> HIDE DEF u, L
  <2> QED BY <2>1, <2>2, <2>3, DropStep
<1>7. ASSUME NEW u \in Users, DelUser(u) PROVE Inv'
  <2> DEFINE L == {}
  <2>1. /\ cnt' = [cnt EXCEPT ![u] = Zero] /\ L \in SUBSET Loops
        /\ lossy \cup Both(cnt[u]) \subseteq lossy'
        /\ UNCHANGED <<pc, cur, tmp, todo, slice, tries, charges, repeated, shared, units>>
    BY <1>7 DEF DelUser, DropCounter
  <2>2. \A m \in Loops : ~Scanning(m)
    BY <1>7 DEF DelUser, Unlocked, Scanning
  <2> QED BY <2>1, <2>2, DropStep
<1>8. ASSUME NEW l \in Loops,
             Pushed(l) \/ Refused(l) \/ \E b \in BOOLEAN : PushError(l, b)
      PROVE  Inv'
  <2>1. /\ pc[l] = "push" /\ UNCHANGED <<todo, cur, tmp, stale, cnt, shared, units>>
        /\ charges' = charges \/ charges' = Counted(l)
    BY <1>8 DEF Pushed, Refused, PushError
  <2>2. \/ /\ Forget(l) /\ repeated' = repeated
           /\ lossy \subseteq lossy'
           /\ charges' = charges => InSlice(l) \subseteq lossy'
        \/ /\ tries[l] > 0 /\ tries' = [tries EXCEPT ![l] = @ - 1]
           /\ UNCHANGED <<pc, slice, lossy>>
           /\ repeated \subseteq repeated'
           /\ charges' = charges \/ InSlice(l) \subseteq repeated'
    <3>0. charges' = Counted(l) /\ charges' = charges => InSlice(l) = {}
      <4> SUFFICES ASSUME Counted(l) = charges, NEW b \in InSlice(l) PROVE FALSE
        OBVIOUS
      <4>1. b \in Units /\ charges[l][b] \in Nat
        BY CountedType DEF TrafficTypeOK
      <4>2. Counted(l)[l][b] = charges[l][b] + 1
        BY <4>1 DEF Counted, TrafficTypeOK
      <4> QED BY <4>1, <4>2
    <3>1. CASE Pushed(l)
      BY <3>0, <3>1 DEF Pushed
    <3>2. CASE Refused(l)
      BY <3>2 DEF Refused
    <3>3. ASSUME NEW b \in BOOLEAN, PushError(l, b), tries[l] > 0
          PROVE  /\ tries' = [tries EXCEPT ![l] = @ - 1]
                 /\ UNCHANGED <<pc, slice, lossy>>
                 /\ repeated \subseteq repeated'
                 /\ charges' = charges \/ InSlice(l) \subseteq repeated'
      BY <3>3 DEF PushError
    <3>4. ASSUME NEW b \in BOOLEAN, PushError(l, b), tries[l] = 0
          PROVE  /\ Forget(l) /\ repeated' = repeated
                 /\ lossy \subseteq lossy'
                 /\ charges' = charges => InSlice(l) \subseteq lossy'
      BY <3>0, <3>4 DEF PushError
    <3>5. tries[l] > 0 \/ tries[l] = 0
      BY TrafficAssumption DEF TrafficTypeOK
    <3> QED BY <1>8, <3>1, <3>2, <3>3, <3>4, <3>5
  <2> QED BY <2>1, <2>2, PushStep
<1>9. ASSUME NEW c \in Conns, NEW d \in Dirs, Move(c, d) PROVE Inv'
  BY <1>9, MoveStep
<1> QED BY <1>1, <1>2, <1>3, <1>4, <1>5, <1>6, <1>7, <1>8, <1>9 DEF Next, Report

(* Nothing was counted or reported.                                        *)
LEMMA AccountInit == Init => Inv
<1> SUFFICES ASSUME Init PROVE Inv
  OBVIOUS
<1>m. Members
  BY MembersHold
<1>1. /\ \A l \in Loops : /\ pc[l] = "idle" /\ tmp[l] = Zero /\ todo[l] = {}
                          /\ \A u \in Users : slice[l][u] = Zero
                          /\ \A b \in Units : charges[l][b] = 0
      /\ \A u \in Users : cnt[u] = Zero
  BY DEF Init
<1>2. InCounters = {} /\ \A l \in Loops : InSlice(l) = {} /\ Charged(l) = {}
                                        /\ Owned(l) = {} /\ Read(l) = {}
  BY <1>1, <1>m, ZeroValues DEF Members
<1>3. StageInv /\ SeenInv /\ ExactInv
  BY <1>1, <1>2 DEF StageInv, SeenInv, ExactInv, Scanning
<1>4. PlaceInv
  BY <1>1, <1>2, ZeroValues DEF PlaceInv
<1>5. ChargeInv
  BY <1>1, <1>2, TrafficAssumption DEF ChargeInv
<1>6. LossesExplained
  BY DEF Init, LossesExplained
<1> QED BY <1>3, <1>4, <1>5, <1>6 DEF Inv

(* The invariant holds throughout.                                         *)
THEOREM TrafficInvariant == Spec => []Inv
BY AccountInit, AccountStep, TrafficTypeCorrect, PTL DEF Spec

(* For any users, connections, thresholds and number of report loops, no   *)
(* unit is charged twice unless its push was repeated after a lost answer  *)
(* or two scans read it before either reset the counter.                   *)
THEOREM TrafficNoOvercount == Spec => []NoOvercount
<1>1. TrafficTypeOK /\ Inv => NoOvercount
  <2> SUFFICES ASSUME TrafficTypeOK, Inv, NEW l \in Loops,
                      NEW b \in (InFlight(l) \cup Charged(l)) \ (repeated \cup shared)
               PROVE  /\ b \notin InCounters
                      /\ charges[l][b] = (IF b \in InFlight(l) THEN 0 ELSE 1)
                      /\ \A m \in Loops \ {l} : b \notin InFlight(m) \cup Charged(m)
    BY DEF NoOvercount
  <2>m. Members
    BY MembersHold
  <2>1. \A m \in Loops : InFlight(m) \cup Charged(m) \subseteq Owned(m) \cup Read(m)
    BY <2>m, CounterOps DEF Members
  <2>2. b \notin InCounters
    BY <2>m DEF Members, Inv, PlaceInv
  <2>3. \A m \in Loops \ {l} : b \notin InFlight(m) \cup Charged(m)
    BY <2>1 DEF Inv, PlaceInv
  <2>4. b \in Units
    BY <2>m, CountedType, CounterOps DEF Members, TrafficTypeOK
  <2>5. charges[l][b] \in Nat
    BY <2>4 DEF TrafficTypeOK
  <2>6. charges[l][b] = (IF b \in InFlight(l) THEN 0 ELSE 1)
    <3>1. CASE b \in InSlice(l)
      <4>1. b \in InFlight(l)
        BY <3>1, <2>m DEF Members
      <4>2. charges[l][b] = 0
        BY <2>4, <3>1 DEF Inv, ChargeInv
      <4> QED BY <4>1, <4>2
    <3>2. CASE b \in InFlight(l) /\ b \notin InSlice(l)
      <4>1. b \in Read(l)
        BY <3>2, <2>m, CounterOps DEF Members
      <4>2. b \notin Owned(l)
        BY <4>1 DEF Inv, PlaceInv
      <4>3. ~(charges[l][b] > 0)
        BY <2>4, <2>m, <4>2 DEF Members
      <4> QED BY <2>5, <3>2, <4>3
    <3>3. CASE b \notin InFlight(l)
      <4>1. charges[l][b] > 0
        BY <3>3, <2>m DEF Members
      <4>2. charges[l][b] <= 1
        BY <2>4 DEF Inv, ChargeInv
      <4> QED BY <2>5, <3>3, <4>1, <4>2
    <3> QED BY <3>1, <3>2, <3>3
  <2> QED BY <2>2, <2>3, <2>6
<1> QED BY <1>1, TrafficInvariant, TrafficTypeCorrect, PTL

(* For any retry count and number of loops, a loop charges a unit at most  *)
(* once per attempt of a push, whatever happens to counters and answers.   *)
THEOREM TrafficOvercountBounded == Spec => []OvercountBounded
<1>1. Inv => OvercountBounded
  BY DEF Inv, ChargeInv, OvercountBounded
<1> QED BY <1>1, TrafficInvariant, PTL

(* For any users, connections, thresholds and number of loops, traffic is  *)
(* missing at the panel only for the four reasons the model names.         *)
THEOREM TrafficLossesExplained == Spec => []LossesExplained
<1>1. Inv => LossesExplained
  BY DEF Inv
<1> QED BY <1>1, TrafficInvariant, PTL

============================================================================
