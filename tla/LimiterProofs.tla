---------------------------- MODULE LimiterProofs ----------------------------
(***************************************************************************)
(* Proofs about Limiter, for any connections, users and devices, any       *)
(* number of replaced inbounds, and everything that the controller and     *)
(* other nodes may do between two steps of a connection.                   *)
(***************************************************************************)
EXTENDS Limiter, FiniteSetTheorems, TLAPS

(***************************************************************************)
(* The inductive invariant.                                                *)
(***************************************************************************)

CallRecord ==
  [at : {"idle", "join", "add", "count", "global", "speed", "admitted", "rejected"},
   email : Email \cup {None}, ip : Ip \cup {None}, info : 0 .. MaxInbounds,
   setting : Settings, map : Conn \cup {None},
   bucket : Conn \cup {None}, push : SUBSET Ip]

UpdateRecord == [info : 0 .. MaxInbounds, email : Email \cup {None}, setting : Settings]

ReportRecord == [at : {"idle", "clear", "reset"}, info : 0 .. MaxInbounds, todo : SUBSET Email]

\* What a call or an update has at each of its steps.
ShapeInv ==
  /\ current <= made
  /\ \A c \in Conn :
       /\ call[c].info <= made
       /\ call[c].at # "idle" => call[c].email \in Email /\ call[c].ip \in Ip
       /\ call[c].at \in {"join", "add", "count", "global", "speed"} => call[c].info \in Object
       /\ call[c].at \in {"add", "count"} => call[c].map \in Conn
       /\ call[c].at \in {"idle", "join"} => call[c].map = None
       /\ call[c].at = "idle" => call[c].push = {}
  /\ \A w \in Updater : /\ update[w].info <= made
                        /\ update[w].info # 0 => update[w].email \in Email
  /\ report.at # "idle" => report.info \in Object

\* A bucket belongs to the user for whom the connection that made it was admitted.
HubInv ==
  \A o \in Object, e \in Email : hub[o][e] # None =>
    LET b == hub[o][e]
    IN  call[b].at = "admitted" /\ call[b].info = o /\ call[b].email = e

\* What is about to be pushed has one device too many at most.
PushInv ==
  \A c \in Conn : call[c].push # {} /\ call[c].setting.devices > 0 =>
    Cardinality(call[c].push) <= call[c].setting.devices + 1

LimiterInv ==
  /\ LimiterTypeOK
  /\ ShapeInv
  /\ HubInv
  /\ BucketFollowsPanel
  /\ DevicesWithinLimit
  /\ GlobalWithinOneMore
  /\ PushInv

(***************************************************************************)
(* Settings, rates and sets of devices.                                    *)
(***************************************************************************)

LEMMA SettingType == Settings \subseteq [speed : Nat, devices : Nat]
BY LimiterAssumption DEF Settings, Unknown

LEMMA RateType == \A s \in Settings : RateOf(s) \in Nat
BY SettingType, LimiterAssumption DEF RateOf, determineRate

LEMMA KeyType == \A k \in Key : k[1] \in Email /\ k[2] \in Nat /\ k = << k[1], k[2] >>
BY SettingType DEF Key

LEMMA Devices ==
  ASSUME NEW S \in SUBSET Ip
  PROVE  IsFiniteSet(S) /\ Cardinality(S) \in Nat
BY LimiterAssumption, FS_Subset, FS_CardinalityType

LEMMA FewerDevices ==
  ASSUME NEW S \in SUBSET Ip, NEW T \in SUBSET S
  PROVE  Cardinality(T) <= Cardinality(S)
BY Devices, FS_Subset

LEMMA OneMoreDevice ==
  ASSUME NEW S \in SUBSET Ip, NEW i \in Ip
  PROVE  Cardinality(S \cup {i}) <= Cardinality(S) + 1
BY Devices, FS_AddElement

\* One entry of a table of inbounds and users.
LEMMA SetEntry ==
  ASSUME NEW V, NEW f \in [Object -> [Email -> V]], NEW o \in Object, NEW e \in Email, NEW v \in V
  PROVE  /\ [f EXCEPT ![o][e] = v] \in [Object -> [Email -> V]]
         /\ \A p \in Object, d \in Email :
              [f EXCEPT ![o][e] = v][p][d] = IF p = o /\ d = e THEN v ELSE f[p][d]
<1>1. [f EXCEPT ![o][e] = v] = [f EXCEPT ![o] = [f[o] EXCEPT ![e] = v]]
  OBVIOUS
<1>2. f[o] \in [Email -> V]
  OBVIOUS
<1>3. [f[o] EXCEPT ![e] = v] \in [Email -> V] /\ \A d \in Email : [f[o] EXCEPT ![e] = v][d] = IF d = e THEN v ELSE f[o][d]
  BY <1>2
<1> DEFINE r == [f[o] EXCEPT ![e] = v]
<1>4. [f EXCEPT ![o] = r] \in [Object -> [Email -> V]] /\ \A p \in Object : [f EXCEPT ![o] = r][p] = IF p = o THEN r ELSE f[p]
  BY <1>3
<1> QED BY <1>1, <1>3, <1>4

LEMMA InitLimiterInv == LimiterInit => LimiterInv
<1> SUFFICES ASSUME LimiterInit PROVE LimiterInv
  OBVIOUS
<1>1. 1 \in Object /\ 0 \in 0 .. MaxInbounds /\ Unknown \in Settings
  BY LimiterAssumption DEF Object, Settings
<1>2. LimiterTypeOK
  <2>1. Idle \in CallRecord
    BY <1>1 DEF Idle, Asked, CallRecord
  <2>2. Rested \in UpdateRecord
    BY <1>1 DEF Rested, UpdateRecord
  <2>3. shared \in [Key -> SUBSET Ip]
    BY LimiterAssumption DEF LimiterInit
  <2>4. users \in [Object -> [Email -> Settings]]
    BY <1>1 DEF LimiterInit, Settings
  <2>5. report \in ReportRecord
    BY <1>1 DEF LimiterInit, ReportRecord
  <2>6. call \in [Conn -> CallRecord] /\ update \in [Updater -> UpdateRecord]
    BY <2>1, <2>2 DEF LimiterInit
  <2>7. /\ current \in 0 .. MaxInbounds /\ made \in Object /\ stale \subseteq Conn
        /\ ips \in [Conn -> SUBSET Ip] /\ rate \in [Conn -> Nat]
    BY <1>1, LimiterAssumption DEF LimiterInit, Object
  <2>8. /\ hub \in [Object -> [Email -> Conn \cup {None}]]
        /\ online \in [Object -> [Email -> Conn \cup {None}]]
    BY DEF LimiterInit
  <2> QED BY <2>3, <2>4, <2>5, <2>6, <2>7, <2>8
             DEF LimiterTypeOK, CallRecord, UpdateRecord, ReportRecord
<1>3. ShapeInv /\ PushInv
  BY LimiterAssumption DEF LimiterInit, ShapeInv, PushInv, Idle, Asked, Rested
<1>4. HubInv /\ BucketFollowsPanel /\ DevicesWithinLimit
  BY DEF LimiterInit, HubInv, BucketFollowsPanel, DevicesWithinLimit
<1>5. GlobalWithinOneMore
  <2> SUFFICES ASSUME NEW k \in Key, k[2] > 0 PROVE Cardinality(shared[k]) <= k[2] + 1
    BY DEF GlobalWithinOneMore
  <2>1. PICK s \in Settings : k[2] = s.devices
    BY DEF Key
  <2>2. s \in Setting
    BY <2>1 DEF Settings, Unknown
  <2>3. shared[k] = Others
    BY DEF LimiterInit
  <2> QED BY <2>1, <2>2, <2>3, LimiterAssumption
<1> QED BY <1>2, <1>3, <1>4, <1>5 DEF LimiterInv

(***************************************************************************)
(* Types and shape.                                                        *)
(***************************************************************************)

\* The calls and the updates keep the rest of the types.
LEMMA ControllerTypes ==
  ASSUME LimiterTypeOK, ShapeInv, LimiterCall \/ LimiterWork
  PROVE  LimiterTypeOK' /\ ShapeInv'
<1>0. 0 \in 0 .. MaxInbounds /\ Object \subseteq 0 .. MaxInbounds /\ Object \subseteq Nat /\ Settings \subseteq Settings
  BY LimiterAssumption DEF Object
<1>1. CASE AddInboundLimiter
  <2>1. /\ made \in Nat /\ made' = made + 1 /\ current' = made' /\ made' \in Object
        /\ UNCHANGED << hub, online, ips, rate, stale, shared, call, update, report >>
    BY <1>1, LimiterAssumption DEF AddInboundLimiter, LimiterTypeOK, Object
  <2>2. users' \in [Object -> [Email -> Settings]]
    BY <1>1 DEF AddInboundLimiter, LimiterTypeOK
  <2>3. LimiterTypeOK'
    BY <1>0, <2>1, <2>2 DEF LimiterTypeOK
  <2>4. ShapeInv'
    <3>1. /\ \A c \in Conn : call[c].info \in Nat
          /\ \A w \in Updater : update[w].info \in Nat
      BY DEF LimiterTypeOK
    <3> QED BY <2>1, <3>1 DEF ShapeInv
  <2> QED BY <2>3, <2>4
<1>2. CASE DeleteInboundLimiter
  <2>1. /\ current' = 0 /\ made \in Nat
        /\ UNCHANGED << made, users, hub, online, ips, rate, stale, shared, call, update, report >>
    BY <1>0, <1>2 DEF DeleteInboundLimiter, LimiterTypeOK
  <2>2. LimiterTypeOK'
    BY <1>0, <2>1 DEF LimiterTypeOK
  <2>3. ShapeInv'
    BY <2>1 DEF ShapeInv
  <2> QED BY <2>2, <2>3
<1>3. ASSUME NEW w \in Updater, NEW e \in Email, NEW s \in Setting, UpdateUser(w, e, s)
      PROVE  LimiterTypeOK' /\ ShapeInv'
  <2>1. /\ current \in Object /\ s \in Settings
        /\ UNCHANGED << current, made, hub, online, ips, rate, stale, shared, call, report >>
    BY <1>3 DEF UpdateUser, LimiterTypeOK, Settings, Object
  <2>2. users' \in [Object -> [Email -> Settings]]
    BY <1>3, <2>1 DEF UpdateUser, LimiterTypeOK
  <2>3. [info |-> current, email |-> e, setting |-> s] \in UpdateRecord
    BY <1>0, <2>1 DEF UpdateRecord
  <2>4. update \in [Updater -> UpdateRecord]
    BY DEF LimiterTypeOK, UpdateRecord
  <2>5. /\ update' \in [Updater -> UpdateRecord]
        /\ \A v \in Updater : update'[v] = IF v = w THEN [info |-> current, email |-> e, setting |-> s] ELSE update[v]
    BY <1>3, <2>3, <2>4 DEF UpdateUser
  <2>6. LimiterTypeOK'
    BY <2>1, <2>2, <2>5 DEF LimiterTypeOK, UpdateRecord
  <2>7. ShapeInv'
    BY <2>1, <2>5 DEF ShapeInv
  <2> QED BY <2>6, <2>7
<1>4. CASE GetOnlineDevice
  <2>1. /\ current \in Object
        /\ report' = [at |-> "clear", info |-> current, todo |-> Email]
        /\ UNCHANGED << current, made, users, hub, online, ips, rate, stale, shared, call, update >>
    BY <1>4 DEF GetOnlineDevice, Reporting, LimiterTypeOK, Object
  <2>2. report' \in ReportRecord
    BY <1>0, <2>1 DEF ReportRecord
  <2>3. LimiterTypeOK' /\ ShapeInv'
    BY <2>1, <2>2 DEF LimiterTypeOK, ShapeInv, ReportRecord
  <2> QED BY <2>3
<1>5. ASSUME NEW w \in Updater, UpdateBucket(w)
      PROVE  LimiterTypeOK' /\ ShapeInv'
  <2>1. UNCHANGED << current, made, users, online, ips, shared, call, report >>
    BY <1>5 DEF UpdateBucket
  <2>2. Rested \in UpdateRecord /\ Unknown \in Settings
    BY <1>0 DEF Rested, UpdateRecord, Settings
  <2>3. /\ update' \in [Updater -> UpdateRecord]
        /\ \A v \in Updater : update'[v] = IF v = w THEN Rested ELSE update[v]
    BY <1>5, <2>2 DEF UpdateBucket, LimiterTypeOK, UpdateRecord
  <2> DEFINE o == update[w].info
             e == update[w].email
             s == update[w].setting
             b == hub[o][e]
  <2>4. o \in Object /\ e \in Email /\ s \in Settings /\ b \in Conn \cup {None}
    BY <1>5 DEF UpdateBucket, LimiterTypeOK, ShapeInv, Object
  <2>5. hub' \in [Object -> [Email -> Conn \cup {None}]]
    <3>1. hub' = hub \/ hub' = [hub EXCEPT ![o][e] = None]
      BY <1>5 DEF UpdateBucket
    <3>2. hub \in [Object -> [Email -> Conn \cup {None}]]
      BY DEF LimiterTypeOK
    <3> HIDE DEF o, e
    <3>3. [hub EXCEPT ![o][e] = None] \in [Object -> [Email -> Conn \cup {None}]]
      BY <2>4, <3>2, SetEntry
    <3> QED BY <3>1, <3>2, <3>3
  <2>6. rate' \in [Conn -> Nat] /\ stale' \subseteq Conn
    <3>1. (b # None /\ SetRate(b, s, o, e)) \/ UNCHANGED << rate, stale >>
      BY <1>5 DEF UpdateBucket
    <3> HIDE DEF o, e, s, b
    <3> QED BY <2>4, <3>1, RateType DEF LimiterTypeOK, SetRate
  <2> HIDE DEF o, e, s, b
  <2>7. LimiterTypeOK'
    BY <2>1, <2>3, <2>5, <2>6 DEF LimiterTypeOK, UpdateRecord
  <2>8. ShapeInv'
    <3>1. made \in Nat
      BY <1>0 DEF LimiterTypeOK
    <3> QED BY <2>1, <2>3, <3>1 DEF ShapeInv, Rested
  <2> QED BY <2>7, <2>8
<1>6. ASSUME NEW e \in Email, ClearBucket(e) \/ ResetOnline(e)
      PROVE  LimiterTypeOK' /\ ShapeInv'
  <2>1. /\ UNCHANGED << current, made, users, ips, rate, stale, shared, call, update >>
        /\ report.at # "idle" /\ report.info \in Object
    BY <1>6 DEF ClearBucket, ResetOnline, ShapeInv
  <2>2. /\ hub' \in [Object -> [Email -> Conn \cup {None}]]
        /\ online' \in [Object -> [Email -> Conn \cup {None}]]
    <3> DEFINE Table == [Object -> [Email -> Conn \cup {None}]]
    <3>1. hub \in Table /\ online \in Table
      BY DEF LimiterTypeOK
    <3>2. [hub EXCEPT ![report.info][e] = None] \in Table /\ [online EXCEPT ![report.info][e] = None] \in Table
      BY <2>1, <3>1, SetEntry
    <3>3. \/ hub' \in {hub, [hub EXCEPT ![report.info][e] = None]} /\ UNCHANGED online
          \/ online' = [online EXCEPT ![report.info][e] = None] /\ UNCHANGED hub
      BY <1>6 DEF ClearBucket, ResetOnline
    <3> HIDE DEF Table
    <3>4. hub' \in Table /\ online' \in Table
      BY <3>1, <3>2, <3>3
    <3> QED BY <3>4 DEF Table
  <2>3. report' \in ReportRecord /\ (report'.at # "idle" => report'.info \in Object)
    <3>1. report.todo \subseteq Email
      BY DEF LimiterTypeOK
    <3>2. \/ report' = [at |-> "reset", info |-> report.info, todo |-> Email]
          \/ report' = [at |-> "idle", info |-> 0, todo |-> {}]
          \/ \E at \in {"clear", "reset"} : report' = [at |-> at, info |-> report.info, todo |-> report.todo \ {e}]
      BY <1>6 DEF ClearBucket, ResetOnline, Reporting
    <3>3. \A at \in {"idle", "clear", "reset"}, n \in 0 .. MaxInbounds, t \in SUBSET Email :
            [at |-> at, info |-> n, todo |-> t] \in ReportRecord
      BY DEF ReportRecord
    <3>4. report.info \in 0 .. MaxInbounds /\ report.todo \ {e} \in SUBSET Email
      BY <1>0, <2>1, <3>1
    <3>5. report' \in ReportRecord
      BY <1>0, <3>2, <3>3, <3>4
    <3>6. report'.at # "idle" => report'.info = report.info
      BY <3>2
    <3> QED BY <2>1, <3>5, <3>6
  <2>4. LimiterTypeOK'
    BY <2>1, <2>2, <2>3 DEF LimiterTypeOK, ReportRecord
  <2>5. ShapeInv'
    BY <2>1, <2>3 DEF ShapeInv
  <2> QED BY <2>4, <2>5
<1> QED BY <1>1, <1>2, <1>3, <1>4, <1>5, <1>6 DEF LimiterCall, LimiterWork

\* c goes on: the other calls stay, and what c was asked with.
Moves(c) ==
  /\ call' \in [Conn -> CallRecord]
  /\ \A d \in Conn : d # c => call'[d] = call[d]
  /\ call'[c].email = call[c].email /\ call'[c].ip = call[c].ip
  /\ call'[c].info = call[c].info /\ call'[c].setting = call[c].setting

CallStep == {"idle", "join", "add", "count", "global", "speed", "admitted", "rejected"}

LEMMA MovesTo ==
  ASSUME call \in [Conn -> CallRecord], NEW c \in Conn, NEW step \in CallStep,
         call' = [call EXCEPT ![c].at = step]
  PROVE  /\ Moves(c)
         /\ call'[c].at = step /\ call'[c].map = call[c].map
         /\ call'[c].bucket = call[c].bucket /\ call'[c].push = call[c].push
<1>1. \A d \in Conn : d # c => call'[d] = call[d]
  BY DEF CallRecord, CallStep
<1>2. /\ call'[c].email = call[c].email /\ call'[c].ip = call[c].ip
      /\ call'[c].info = call[c].info /\ call'[c].setting = call[c].setting
      /\ call'[c].at = step /\ call'[c].map = call[c].map
      /\ call'[c].bucket = call[c].bucket /\ call'[c].push = call[c].push
  BY DEF CallRecord, CallStep
<1>3. call' \in [Conn -> CallRecord]
  BY DEF CallRecord, CallStep
<1> QED BY <1>1, <1>2, <1>3 DEF Moves

LEMMA MovesWithMap ==
  ASSUME call \in [Conn -> CallRecord], NEW c \in Conn, NEW step \in CallStep, NEW m \in Conn,
         call' = [call EXCEPT ![c].at = step, ![c].map = m]
  PROVE  /\ Moves(c)
         /\ call'[c].at = step /\ call'[c].map = m
         /\ call'[c].bucket = call[c].bucket /\ call'[c].push = call[c].push
<1>1. \A d \in Conn : d # c => call'[d] = call[d]
  BY DEF CallRecord, CallStep
<1>2. /\ call'[c].email = call[c].email /\ call'[c].ip = call[c].ip
      /\ call'[c].info = call[c].info /\ call'[c].setting = call[c].setting
      /\ call'[c].at = step /\ call'[c].map = m
      /\ call'[c].bucket = call[c].bucket /\ call'[c].push = call[c].push
  BY DEF CallRecord, CallStep
<1>3. call' \in [Conn -> CallRecord]
  <2>1. call' = [call EXCEPT ![c] = [call[c] EXCEPT !.at = step, !.map = m]]
    BY Zenon
  <2>2. [call[c] EXCEPT !.at = step, !.map = m] \in CallRecord
    BY DEF CallRecord, CallStep
  <2> QED BY <2>1, <2>2
<1> QED BY <1>1, <1>2, <1>3 DEF Moves

LEMMA MovesWithPush ==
  ASSUME call \in [Conn -> CallRecord], NEW c \in Conn, NEW step \in CallStep, NEW p \in SUBSET Ip,
         call' = [call EXCEPT ![c] = [call[c] EXCEPT !.at = step, !.push = p]]
  PROVE  /\ Moves(c)
         /\ call'[c].at = step /\ call'[c].map = call[c].map
         /\ call'[c].bucket = call[c].bucket /\ call'[c].push = p
<1>1. \A d \in Conn : d # c => call'[d] = call[d]
  BY DEF CallRecord, CallStep
<1>2. /\ call'[c].email = call[c].email /\ call'[c].ip = call[c].ip
      /\ call'[c].info = call[c].info /\ call'[c].setting = call[c].setting
      /\ call'[c].at = step /\ call'[c].map = call[c].map
      /\ call'[c].bucket = call[c].bucket /\ call'[c].push = p
  BY DEF CallRecord, CallStep
<1>3. call' \in [Conn -> CallRecord]
  <2>1. call' = [call EXCEPT ![c] = [call[c] EXCEPT !.at = step, !.push = p]]
    BY Zenon
  <2>2. [call[c] EXCEPT !.at = step, !.push = p] \in CallRecord
    BY DEF CallRecord, CallStep
  <2> QED BY <2>1, <2>2
<1> QED BY <1>1, <1>2, <1>3 DEF Moves

LEMMA MovesWithBucket ==
  ASSUME call \in [Conn -> CallRecord], NEW c \in Conn, NEW step \in CallStep, NEW b \in Conn \cup {None},
         call' = [call EXCEPT ![c].at = step, ![c].bucket = b]
  PROVE  /\ Moves(c)
         /\ call'[c].at = step /\ call'[c].map = call[c].map
         /\ call'[c].bucket = b /\ call'[c].push = call[c].push
<1>1. \A d \in Conn : d # c => call'[d] = call[d]
  BY DEF CallRecord, CallStep
<1>2. /\ call'[c].email = call[c].email /\ call'[c].ip = call[c].ip
      /\ call'[c].info = call[c].info /\ call'[c].setting = call[c].setting
      /\ call'[c].at = step /\ call'[c].map = call[c].map
      /\ call'[c].bucket = b /\ call'[c].push = call[c].push
  BY DEF CallRecord, CallStep
<1>3. call' \in [Conn -> CallRecord]
  <2>1. call' = [call EXCEPT ![c] = [call[c] EXCEPT !.at = step, !.bucket = b]]
    BY Zenon
  <2>2. [call[c] EXCEPT !.at = step, !.bucket = b] \in CallRecord
    BY DEF CallRecord, CallStep
  <2> QED BY <2>1, <2>2
<1> QED BY <1>1, <1>2, <1>3 DEF Moves

LEMMA Pushes ==
  ASSUME call \in [Conn -> CallRecord], NEW c \in Conn,
         call' = [call EXCEPT ![c].push = {}]
  PROVE  /\ Moves(c)
         /\ call'[c].at = call[c].at /\ call'[c].map = call[c].map
         /\ call'[c].bucket = call[c].bucket /\ call'[c].push = {}
<1>1. \A d \in Conn : d # c => call'[d] = call[d]
  BY DEF CallRecord
<1>2. /\ call'[c].email = call[c].email /\ call'[c].ip = call[c].ip
      /\ call'[c].info = call[c].info /\ call'[c].setting = call[c].setting
      /\ call'[c].at = call[c].at /\ call'[c].map = call[c].map
      /\ call'[c].bucket = call[c].bucket /\ call'[c].push = {}
  BY DEF CallRecord
<1>3. call' \in [Conn -> CallRecord]
  BY DEF CallRecord
<1> QED BY <1>1, <1>2, <1>3 DEF Moves

\* What the steps of a call do to it, and to the tables.
LEMMA JoinEffect ==
  ASSUME LimiterTypeOK, ShapeInv, NEW c \in Conn, JoinOnline(c)
  PROVE  /\ Moves(c) /\ call[c].at = "join"
         /\ call'[c].push = call[c].push /\ call'[c].bucket = call[c].bucket
         /\ UNCHANGED << current, made, users, hub, rate, stale, shared, update, report >>
         /\ online' \in [Object -> [Email -> Conn \cup {None}]]
         /\ \/ call'[c].map = c /\ call'[c].at = "global" /\ ips' = [ips EXCEPT ![c] = {call[c].ip}]
            \/ call'[c].map \in Conn /\ call'[c].at = "add" /\ UNCHANGED ips
<1> DEFINE m == online[call[c].info][call[c].email]
<1>1. /\ call[c].at = "join" /\ call \in [Conn -> CallRecord]
      /\ call[c].info \in Object /\ call[c].email \in Email
      /\ UNCHANGED << current, made, users, hub, rate, stale, shared, update, report >>
      /\ online \in [Object -> [Email -> Conn \cup {None}]]
  BY DEF JoinOnline, LimiterTypeOK, CallRecord, ShapeInv
<1>2. m \in Conn \cup {None}
  BY <1>1
<1>3. CASE m = None
  <2>1. /\ online' = [online EXCEPT ![call[c].info][call[c].email] = c]
        /\ ips' = [ips EXCEPT ![c] = {call[c].ip}]
        /\ call' = [call EXCEPT ![c].at = "global", ![c].map = c]
    BY <1>3 DEF JoinOnline
  <2>2. [online EXCEPT ![call[c].info][call[c].email] = c] \in [Object -> [Email -> Conn \cup {None}]]
    BY <1>1, SetEntry
  <2>3. "global" \in CallStep
    BY DEF CallStep
  <2>4. /\ Moves(c)
        /\ call'[c].at = "global" /\ call'[c].map = c
        /\ call'[c].bucket = call[c].bucket /\ call'[c].push = call[c].push
    BY <1>1, <2>1, <2>3, MovesWithMap, Zenon
  <2> QED BY <1>1, <2>1, <2>2, <2>4
<1>4. CASE m # None
  <2>1. call' = [call EXCEPT ![c].at = "add", ![c].map = m] /\ UNCHANGED << online, ips >>
    BY <1>4 DEF JoinOnline
  <2>2. "add" \in CallStep /\ m \in Conn
    BY <1>2, <1>4 DEF CallStep
  <2> HIDE DEF m
  <2>3. /\ Moves(c)
        /\ call'[c].at = "add" /\ call'[c].map = m
        /\ call'[c].bucket = call[c].bucket /\ call'[c].push = call[c].push
    BY <1>1, <2>1, <2>2, MovesWithMap, Zenon
  <2> QED BY <1>1, <2>1, <2>2, <2>3
<1> QED BY <1>3, <1>4

LEMMA AddEffect ==
  ASSUME LimiterTypeOK, ShapeInv, NEW c \in Conn, AddIp(c)
  PROVE  /\ Moves(c) /\ call[c].at = "add"
         /\ call'[c].push = call[c].push /\ call'[c].bucket = call[c].bucket
         /\ call'[c].map = call[c].map /\ call[c].map \in Conn /\ call[c].ip \in Ip
         /\ UNCHANGED << current, made, users, hub, online, rate, stale, shared, update, report >>
         /\ \/ call'[c].at = "global" /\ UNCHANGED ips
            \/ call'[c].at = "count" /\ ips' = [ips EXCEPT ![call[c].map] = @ \cup {call[c].ip}]
<1>1. /\ call[c].at = "add" /\ call \in [Conn -> CallRecord]
      /\ call[c].map \in Conn /\ call[c].ip \in Ip
      /\ UNCHANGED << current, made, users, hub, online, rate, stale, shared, update, report >>
  BY DEF AddIp, LimiterTypeOK, CallRecord, ShapeInv
<1>2. "global" \in CallStep /\ "count" \in CallStep
  BY DEF CallStep
<1>3. \/ Goto(c, "global") /\ UNCHANGED ips
      \/ Goto(c, "count") /\ ips' = [ips EXCEPT ![call[c].map] = @ \cup {call[c].ip}]
  BY DEF AddIp
<1>4. CASE Goto(c, "global") /\ UNCHANGED ips
  BY <1>1, <1>2, <1>4, MovesTo DEF Goto
<1>5. CASE Goto(c, "count") /\ ips' = [ips EXCEPT ![call[c].map] = @ \cup {call[c].ip}]
  BY <1>1, <1>2, <1>5, MovesTo DEF Goto
<1> QED BY <1>3, <1>4, <1>5

LEMMA CountEffect ==
  ASSUME LimiterTypeOK, ShapeInv, NEW c \in Conn, CountIps(c)
  PROVE  /\ Moves(c) /\ call[c].at = "count"
         /\ call'[c].push = call[c].push /\ call'[c].bucket = call[c].bucket
         /\ call'[c].map = call[c].map /\ call[c].map \in Conn /\ call[c].ip \in Ip
         /\ UNCHANGED << current, made, users, hub, online, rate, stale, shared, update, report >>
         /\ \/ /\ call'[c].at = "global" /\ UNCHANGED ips
               /\ \/ Cardinality(ips[call[c].map]) <= call[c].setting.devices
                  \/ call[c].setting.devices = 0
            \/ call'[c].at = "rejected" /\ ips' = [ips EXCEPT ![call[c].map] = @ \ {call[c].ip}]
<1>1. /\ call[c].at = "count" /\ call \in [Conn -> CallRecord]
      /\ call[c].map \in Conn /\ call[c].ip \in Ip
      /\ UNCHANGED << current, made, users, hub, online, rate, stale, shared, update, report >>
  BY DEF CountIps, LimiterTypeOK, CallRecord, ShapeInv
<1>2. call[c].setting.devices \in Nat /\ Cardinality(ips[call[c].map]) \in Nat
  <2>1. call[c].setting \in Settings /\ ips[call[c].map] \in SUBSET Ip
    BY <1>1 DEF LimiterTypeOK
  <2> QED BY <2>1, SettingType, Devices
<1>3. "global" \in CallStep /\ "rejected" \in CallStep
  BY DEF CallStep
<1>4. \/ /\ Goto(c, "global") /\ UNCHANGED ips
         /\ ~(Cardinality(ips[call[c].map]) > call[c].setting.devices /\ call[c].setting.devices > 0)
      \/ Goto(c, "rejected") /\ ips' = [ips EXCEPT ![call[c].map] = @ \ {call[c].ip}]
  BY DEF CountIps
<1>5. CASE /\ Goto(c, "global") /\ UNCHANGED ips
           /\ ~(Cardinality(ips[call[c].map]) > call[c].setting.devices /\ call[c].setting.devices > 0)
  <2>1. Cardinality(ips[call[c].map]) <= call[c].setting.devices \/ call[c].setting.devices = 0
    BY <1>2, <1>5
  <2> QED BY <1>1, <1>3, <1>5, <2>1, MovesTo DEF Goto
<1>6. CASE Goto(c, "rejected") /\ ips' = [ips EXCEPT ![call[c].map] = @ \ {call[c].ip}]
  BY <1>1, <1>3, <1>6, MovesTo DEF Goto
<1> QED BY <1>4, <1>5, <1>6

LEMMA GlobalEffect ==
  ASSUME LimiterTypeOK, ShapeInv, NEW c \in Conn, globalLimit(c)
  PROVE  /\ Moves(c) /\ call[c].at = "global"
         /\ call'[c].map = call[c].map /\ call'[c].bucket = call[c].bucket
         /\ KeyOf(c) \in Key /\ call[c].ip \in Ip
         /\ UNCHANGED << current, made, users, hub, online, ips, rate, stale, shared, update, report >>
         /\ call'[c].at \in {"speed", "rejected"}
         /\ \/ call'[c].push = call[c].push
            \/ call'[c].push = {}
            \/ ~OverGlobal(KeyOf(c)) /\ call'[c].push = shared[KeyOf(c)] \cup {call[c].ip}
<1>1. /\ call[c].at = "global" /\ call \in [Conn -> CallRecord] /\ call[c].ip \in Ip
      /\ call[c].email \in Email /\ call[c].setting \in Settings
      /\ UNCHANGED << current, made, users, hub, online, ips, rate, stale, shared, update, report >>
  BY DEF globalLimit, LimiterTypeOK, CallRecord, ShapeInv
<1>2. KeyOf(c) \in Key
  BY <1>1 DEF KeyOf, Key
<1>3. shared[KeyOf(c)] \in SUBSET Ip
  BY <1>2 DEF LimiterTypeOK
<1>4. "speed" \in CallStep /\ "rejected" \in CallStep
  BY DEF CallStep
<1>5. CASE \E at \in {"speed", "rejected"} : call' = [call EXCEPT ![c].at = at]
  <2>1. PICK at \in {"speed", "rejected"} : call' = [call EXCEPT ![c].at = at]
    BY <1>5
  <2>2. at \in CallStep
    BY <1>4
  <2> QED BY <1>1, <1>2, <2>1, <2>2, MovesTo
<1>6. CASE /\ ~OverGlobal(KeyOf(c))
           /\ call' = [call EXCEPT
                 ![c].at   = "speed",
                 ![c].push = IF call[c].ip \in shared[KeyOf(c)] THEN {} ELSE shared[KeyOf(c)] \cup {call[c].ip}]
  <2>1. PICK p \in SUBSET Ip :
          /\ p \in {{}, shared[KeyOf(c)] \cup {call[c].ip}}
          /\ call' = [call EXCEPT ![c].at = "speed", ![c].push = p]
    <3> DEFINE q == IF call[c].ip \in shared[KeyOf(c)] THEN {} ELSE shared[KeyOf(c)] \cup {call[c].ip}
    <3>1. q \in SUBSET Ip /\ q \in {{}, shared[KeyOf(c)] \cup {call[c].ip}}
      BY <1>1, <1>3
    <3>2. call' = [call EXCEPT ![c].at = "speed", ![c].push = q]
      BY <1>6
    <3> HIDE DEF q
    <3> QED BY <3>1, <3>2
  <2>2. call' = [call EXCEPT ![c].at = "speed", ![c].push = p]
    BY <2>1
  <2>3. call \in [Conn -> CallRecord] /\ "speed" \in CallStep
    BY <1>1, <1>4
  <2>4. /\ Moves(c)
        /\ call'[c].at = "speed" /\ call'[c].map = call[c].map
        /\ call'[c].bucket = call[c].bucket /\ call'[c].push = p
    <3>1. call' = [call EXCEPT ![c] = [call[c] EXCEPT !.at = "speed", !.push = p]]
      BY <2>2, Zenon
    <3> QED BY <2>3, <3>1, MovesWithPush
  <2>5. ~OverGlobal(KeyOf(c)) /\ call'[c].push \in {{}, shared[KeyOf(c)] \cup {call[c].ip}}
    BY <1>6, <2>1, <2>4
  <2> QED BY <1>1, <1>2, <2>4, <2>5
<1> QED BY <1>5, <1>6 DEF globalLimit, Goto

LEMMA SpeedEffect ==
  ASSUME LimiterTypeOK, ShapeInv, NEW c \in Conn, SpeedLimit(c)
  PROVE  /\ Moves(c) /\ call[c].at = "speed" /\ call'[c].at = "admitted"
         /\ call'[c].map = call[c].map /\ call'[c].push = call[c].push
         /\ call[c].info \in Object /\ call[c].email \in Email /\ call[c].setting \in Settings
         /\ UNCHANGED << current, made, users, online, ips, shared, update, report >>
         /\ \/ UNCHANGED << hub, rate, stale >>
            \/ /\ hub' = [hub EXCEPT ![call[c].info][call[c].email] = c]
               /\ SetRate(c, call[c].setting, call[c].info, call[c].email)
<1> DEFINE o == call[c].info
           e == call[c].email
           s == call[c].setting
<1>1. /\ call[c].at = "speed" /\ call \in [Conn -> CallRecord]
      /\ o \in Object /\ e \in Email /\ s \in Settings
      /\ UNCHANGED << current, made, users, online, ips, shared, update, report >>
      /\ hub \in [Object -> [Email -> Conn \cup {None}]]
  BY DEF SpeedLimit, LimiterTypeOK, CallRecord, ShapeInv
<1>2. \/ UNCHANGED << hub, rate, stale >>
      \/ hub' = [hub EXCEPT ![o][e] = c] /\ SetRate(c, s, o, e)
  BY DEF SpeedLimit
<1>3. call' = [call EXCEPT ![c].at = "admitted", ![c].bucket = IF RateOf(s) > 0 THEN hub'[o][e] ELSE None]
  BY DEF SpeedLimit
<1> HIDE DEF o, e, s
<1>4. hub'[o][e] \in Conn \cup {None}
  <2>1. [hub EXCEPT ![o][e] = c][o][e] = c
    BY <1>1, SetEntry
  <2> QED BY <1>1, <1>2, <2>1
<1> DEFINE b == IF RateOf(s) > 0 THEN hub'[o][e] ELSE None
<1>5. b \in Conn \cup {None} /\ "admitted" \in CallStep
  BY <1>4 DEF CallStep
<1>6. call' = [call EXCEPT ![c].at = "admitted", ![c].bucket = b]
  BY <1>3
<1> HIDE DEF b
<1>7. Moves(c) /\ call'[c].at = "admitted" /\ call'[c].map = call[c].map /\ call'[c].push = call[c].push
  BY <1>1, <1>5, <1>6, MovesWithBucket
<1> QED BY <1>1, <1>2, <1>7 DEF o, e, s

LEMMA PushEffect ==
  ASSUME LimiterTypeOK, ShapeInv, NEW c \in Conn, pushIP(c)
  PROVE  /\ Moves(c) /\ call[c].push # {} /\ call'[c].push = {}
         /\ call'[c].at = call[c].at /\ call'[c].map = call[c].map /\ call'[c].bucket = call[c].bucket
         /\ call[c].at # "idle" /\ call[c].push \in SUBSET Ip /\ KeyOf(c) \in Key
         /\ UNCHANGED << current, made, users, hub, online, ips, rate, stale, update, report >>
         /\ shared' = [shared EXCEPT ![KeyOf(c)] = call[c].push] \/ UNCHANGED shared
<1>1. /\ call[c].push # {} /\ call[c].at # "idle" /\ call \in [Conn -> CallRecord]
      /\ call[c].push \in SUBSET Ip /\ call[c].email \in Email /\ call[c].setting \in Settings
      /\ call' = [call EXCEPT ![c].push = {}]
      /\ UNCHANGED << current, made, users, hub, online, ips, rate, stale, update, report >>
      /\ shared' = [shared EXCEPT ![KeyOf(c)] = call[c].push] \/ UNCHANGED shared
  BY DEF pushIP, LimiterTypeOK, CallRecord, ShapeInv
<1>2. KeyOf(c) \in Key
  BY <1>1 DEF KeyOf, Key
<1> QED BY <1>1, <1>2, Pushes

LEMMA AskEffect ==
  ASSUME LimiterTypeOK, ShapeInv, NEW c \in Conn, NEW e \in Email, NEW i \in Ip, GetUserBucket(c, e, i)
  PROVE  /\ call[c].at = "idle" /\ call' \in [Conn -> CallRecord]
         /\ \A d \in Conn : d # c => call'[d] = call[d]
         /\ call'[c].email = e /\ call'[c].ip = i /\ call'[c].map = None /\ call'[c].push = {}
         /\ \/ call'[c].at = "admitted" /\ call'[c].info = 0
            \/ call'[c].at = "join" /\ call'[c].info = current /\ current \in Object
         /\ UNCHANGED << current, made, users, hub, online, ips, rate, stale, shared, update, report >>
<1>1. /\ call[c].at = "idle" /\ call \in [Conn -> CallRecord]
      /\ UNCHANGED << current, made, users, hub, online, ips, rate, stale, shared, update, report >>
      /\ Unknown \in Settings /\ 0 \in 0 .. MaxInbounds
  BY LimiterAssumption DEF GetUserBucket, LimiterTypeOK, CallRecord, Settings
<1>2. CASE current = 0
  <2> DEFINE r == [at |-> "admitted", email |-> e, ip |-> i, info |-> 0, setting |-> Unknown,
                   map |-> None, bucket |-> None, push |-> {}]
  <2>1. call' = [call EXCEPT ![c] = r]
    BY <1>2 DEF GetUserBucket, Asked
  <2>2. r \in CallRecord
    BY <1>1 DEF CallRecord
  <2> QED BY <1>1, <2>1, <2>2
<1>3. CASE current # 0
  <2> DEFINE r == [at |-> "join", email |-> e, ip |-> i, info |-> current, setting |-> users[current][e],
                   map |-> None, bucket |-> None, push |-> {}]
  <2>1. call' = [call EXCEPT ![c] = r]
    BY <1>3 DEF GetUserBucket, Asked
  <2>2. current \in Object /\ current \in 0 .. MaxInbounds /\ users[current][e] \in Settings
    BY <1>3 DEF LimiterTypeOK, Object
  <2>3. r \in CallRecord
    BY <1>1, <2>2 DEF CallRecord
  <2> QED BY <1>1, <2>1, <2>2, <2>3
<1> QED BY <1>2, <1>3

LEMMA CallTypes ==
  ASSUME LimiterTypeOK, ShapeInv, NEW c \in Conn,
         LimiterStep(c) \/ \E e \in Email, i \in Ip : GetUserBucket(c, e, i)
  PROVE  LimiterTypeOK' /\ ShapeInv'
<1>1. CASE JoinOnline(c)
  <2>1. /\ Moves(c) /\ call[c].at = "join" /\ call'[c].push = call[c].push
        /\ UNCHANGED << current, made, users, hub, rate, stale, shared, update, report >>
        /\ online' \in [Object -> [Email -> Conn \cup {None}]]
        /\ call'[c].map \in Conn /\ call'[c].at \in {"global", "add"}
    BY <1>1, JoinEffect
  <2>2. ips' \in [Conn -> SUBSET Ip]
    <3>1. call[c].ip \in Ip
      BY <2>1 DEF ShapeInv
    <3>2. ips' = [ips EXCEPT ![c] = {call[c].ip}] \/ UNCHANGED ips
      BY <1>1, JoinEffect, Zenon
    <3>3. {call[c].ip} \in SUBSET Ip /\ ips \in [Conn -> SUBSET Ip]
      BY <3>1 DEF LimiterTypeOK
    <3> QED BY <3>2, <3>3
  <2>3. LimiterTypeOK'
    BY <2>1, <2>2 DEF LimiterTypeOK, Moves, CallRecord
  <2>4. ShapeInv'
    BY <2>1 DEF ShapeInv, Moves
  <2> QED BY <2>3, <2>4
<1>2. CASE AddIp(c) \/ CountIps(c)
  <2>1. /\ Moves(c) /\ call[c].at \in {"add", "count"} /\ call'[c].push = call[c].push
        /\ call'[c].map = call[c].map /\ call[c].map \in Conn /\ call[c].ip \in Ip
        /\ UNCHANGED << current, made, users, hub, online, rate, stale, shared, update, report >>
        /\ call'[c].at \in {"global", "count", "rejected"}
    BY <1>2, AddEffect, CountEffect
  <2>2. ips' \in [Conn -> SUBSET Ip]
    BY <1>2, <2>1, AddEffect, CountEffect DEF LimiterTypeOK
  <2>3. LimiterTypeOK'
    BY <2>1, <2>2 DEF LimiterTypeOK, Moves, CallRecord
  <2>4. ShapeInv'
    BY <2>1 DEF ShapeInv, Moves
  <2> QED BY <2>3, <2>4
<1>3. CASE globalLimit(c)
  <2>1. /\ Moves(c) /\ call[c].at = "global" /\ call'[c].map = call[c].map
        /\ UNCHANGED << current, made, users, hub, online, ips, rate, stale, shared, update, report >>
        /\ call'[c].at \in {"speed", "rejected"}
    BY <1>3, GlobalEffect
  <2>2. LimiterTypeOK'
    BY <2>1 DEF LimiterTypeOK, Moves, CallRecord
  <2>3. ShapeInv'
    BY <2>1 DEF ShapeInv, Moves
  <2> QED BY <2>2, <2>3
<1>4. CASE SpeedLimit(c)
  <2>1. /\ Moves(c) /\ call[c].at = "speed" /\ call'[c].at = "admitted"
        /\ call'[c].map = call[c].map /\ call'[c].push = call[c].push
        /\ call[c].info \in Object /\ call[c].email \in Email /\ call[c].setting \in Settings
        /\ UNCHANGED << current, made, users, online, ips, shared, update, report >>
    BY <1>4, SpeedEffect
  <2>2. \/ UNCHANGED << hub, rate, stale >>
        \/ /\ hub' = [hub EXCEPT ![call[c].info][call[c].email] = c]
           /\ SetRate(c, call[c].setting, call[c].info, call[c].email)
    BY <1>4, SpeedEffect
  <2>3. hub' \in [Object -> [Email -> Conn \cup {None}]]
    <3>1. hub \in [Object -> [Email -> Conn \cup {None}]]
      BY DEF LimiterTypeOK
    <3>2. [hub EXCEPT ![call[c].info][call[c].email] = c] \in [Object -> [Email -> Conn \cup {None}]]
      BY <2>1, <3>1, SetEntry
    <3> QED BY <2>2, <3>1, <3>2
  <2>4. rate' \in [Conn -> Nat] /\ stale' \subseteq Conn
    <3>1. RateOf(call[c].setting) \in Nat
      BY <2>1, RateType
    <3>2. \/ UNCHANGED << rate, stale >>
          \/ /\ rate' = [rate EXCEPT ![c] = RateOf(call[c].setting)]
             /\ stale' \in {stale \ {c}, stale \cup {c}}
      BY <2>2 DEF SetRate
    <3> QED BY <3>1, <3>2 DEF LimiterTypeOK
  <2>5. LimiterTypeOK'
    BY <2>1, <2>3, <2>4 DEF LimiterTypeOK, Moves, CallRecord
  <2>6. ShapeInv'
    BY <2>1 DEF ShapeInv, Moves
  <2> QED BY <2>5, <2>6
<1>5. CASE pushIP(c)
  <2>1. /\ Moves(c) /\ call'[c].push = {} /\ call'[c].at = call[c].at /\ call'[c].map = call[c].map
        /\ UNCHANGED << current, made, users, hub, online, ips, rate, stale, update, report >>
    BY <1>5, PushEffect
  <2>2. shared' \in [Key -> SUBSET Ip]
    BY <1>5, PushEffect DEF LimiterTypeOK
  <2>3. LimiterTypeOK'
    BY <2>1, <2>2 DEF LimiterTypeOK, Moves, CallRecord
  <2>4. ShapeInv'
    BY <2>1 DEF ShapeInv, Moves
  <2> QED BY <2>3, <2>4
<1>6. ASSUME NEW e \in Email, NEW i \in Ip, GetUserBucket(c, e, i)
      PROVE  LimiterTypeOK' /\ ShapeInv'
  <2>1. /\ call' \in [Conn -> CallRecord]
        /\ \A d \in Conn : d # c => call'[d] = call[d]
        /\ call'[c].email = e /\ call'[c].ip = i /\ call'[c].map = None /\ call'[c].push = {}
        /\ \/ call'[c].at = "admitted" /\ call'[c].info = 0
           \/ call'[c].at = "join" /\ call'[c].info = current /\ current \in Object
        /\ UNCHANGED << current, made, users, hub, online, ips, rate, stale, shared, update, report >>
    BY <1>6, AskEffect
  <2>2. made \in Nat
    BY DEF LimiterTypeOK, Object
  <2>3. LimiterTypeOK'
    BY <2>1 DEF LimiterTypeOK, CallRecord
  <2>4. ShapeInv'
    BY <2>1, <2>2 DEF ShapeInv
  <2> QED BY <2>3, <2>4
<1> QED BY <1>1, <1>2, <1>3, <1>4, <1>5, <1>6 DEF LimiterStep

LEMMA CacheTypes ==
  ASSUME LimiterTypeOK, ShapeInv, CacheStep
  PROVE  LimiterTypeOK' /\ ShapeInv'
<1>1. UNCHANGED << current, made, users, hub, online, ips, rate, stale, call, update, report >>
  BY DEF CacheStep, OtherNode, Expire
<1>2. shared' \in [Key -> SUBSET Ip]
  BY LimiterAssumption DEF CacheStep, OtherNode, Expire, LimiterTypeOK
<1> QED BY <1>1, <1>2 DEF LimiterTypeOK, ShapeInv

(***************************************************************************)
(* The global cache: what is in it, and what is about to be pushed.        *)
(***************************************************************************)

LEMMA NotOver ==
  ASSUME LimiterTypeOK, NEW k \in Key, ~OverGlobal(k), k[2] > 0, NEW i \in Ip
  PROVE  Cardinality(shared[k] \cup {i}) <= k[2] + 1
<1>1. shared[k] \in SUBSET Ip /\ k[2] \in Nat
  BY KeyType DEF LimiterTypeOK
<1>2. Cardinality(shared[k]) \in Nat /\ Cardinality(shared[k]) <= k[2]
  BY <1>1, Devices DEF OverGlobal
<1>3. Cardinality(shared[k] \cup {i}) <= Cardinality(shared[k]) + 1 /\ Cardinality(shared[k] \cup {i}) \in Nat
  BY <1>1, OneMoreDevice, Devices
<1> QED BY <1>1, <1>2, <1>3

LEMMA GlobalStep ==
  ASSUME LimiterInv, LimiterNext
  PROVE  GlobalWithinOneMore' /\ PushInv'
<1>0. LimiterTypeOK /\ ShapeInv /\ GlobalWithinOneMore /\ PushInv
  BY DEF LimiterInv
<1>1. CASE LimiterCall \/ LimiterWork
  <2>1. UNCHANGED << shared, call >>
    BY <1>1 DEF LimiterCall, LimiterWork, AddInboundLimiter, DeleteInboundLimiter, UpdateUser, GetOnlineDevice,
                UpdateBucket, ClearBucket, ResetOnline
  <2> QED BY <1>0, <2>1 DEF GlobalWithinOneMore, PushInv
<1>2. CASE CacheStep
  <2>1. PICK k \in Key : Expire(k) \/ \E i \in Others : OtherNode(k, i)
    BY <1>2 DEF CacheStep
  <2>2. PushInv'
    BY <1>0, <2>1 DEF PushInv, Expire, OtherNode
  <2>3. \A l \in Key : l # k => shared'[l] = shared[l]
    BY <1>0, <2>1 DEF Expire, OtherNode, LimiterTypeOK
  <2>4. k[2] > 0 => Cardinality(shared'[k]) <= k[2] + 1
    <3>1. CASE Expire(k)
      BY <1>0, <3>1, FS_EmptySet, KeyType DEF Expire, LimiterTypeOK
    <3>2. ASSUME NEW i \in Others, OtherNode(k, i)
          PROVE  k[2] > 0 => Cardinality(shared'[k]) <= k[2] + 1
      <4>1. shared'[k] = shared[k] \cup {i} /\ ~OverGlobal(k) /\ i \in Ip
        BY <1>0, <3>2, LimiterAssumption DEF OtherNode, LimiterTypeOK
      <4> QED BY <1>0, <4>1, NotOver
    <3> QED BY <2>1, <3>1, <3>2
  <2> QED BY <1>0, <2>2, <2>3, <2>4 DEF GlobalWithinOneMore
<1>3. ASSUME NEW c \in Conn, NEW e \in Email, NEW i \in Ip, GetUserBucket(c, e, i)
      PROVE  GlobalWithinOneMore' /\ PushInv'
  <2>1. UNCHANGED shared /\ call'[c].push = {} /\ \A d \in Conn : d # c => call'[d] = call[d]
    BY <1>0, <1>3, AskEffect
  <2> QED BY <1>0, <2>1 DEF GlobalWithinOneMore, PushInv
<1>4. ASSUME NEW c \in Conn, JoinOnline(c) \/ AddIp(c) \/ CountIps(c) \/ SpeedLimit(c)
      PROVE  GlobalWithinOneMore' /\ PushInv'
  <2>1. UNCHANGED shared /\ call'[c].push = call[c].push /\ Moves(c)
    BY <1>0, <1>4, JoinEffect, AddEffect, CountEffect, SpeedEffect
  <2> QED BY <1>0, <2>1 DEF GlobalWithinOneMore, PushInv, Moves
<1>5. ASSUME NEW c \in Conn, globalLimit(c)
      PROVE  GlobalWithinOneMore' /\ PushInv'
  <2>1. /\ UNCHANGED shared /\ Moves(c) /\ KeyOf(c) \in Key /\ call[c].ip \in Ip
        /\ \/ call'[c].push = call[c].push
           \/ call'[c].push = {}
           \/ ~OverGlobal(KeyOf(c)) /\ call'[c].push = shared[KeyOf(c)] \cup {call[c].ip}
    BY <1>0, <1>5, GlobalEffect
  <2>2. KeyOf(c)[2] = call[c].setting.devices
    BY DEF KeyOf
  <2>3. call'[c].push # {} /\ call'[c].setting.devices > 0 =>
          Cardinality(call'[c].push) <= call'[c].setting.devices + 1
    <3>1. CASE call'[c].push \in {call[c].push, {}}
      BY <1>0, <2>1, <3>1 DEF PushInv, Moves
    <3>2. CASE ~OverGlobal(KeyOf(c)) /\ call'[c].push = shared[KeyOf(c)] \cup {call[c].ip}
      BY <1>0, <2>1, <2>2, <3>2, NotOver DEF Moves
    <3> QED BY <2>1, <3>1, <3>2
  <2> QED BY <1>0, <2>1, <2>3 DEF GlobalWithinOneMore, PushInv, Moves
<1>6. ASSUME NEW c \in Conn, pushIP(c)
      PROVE  GlobalWithinOneMore' /\ PushInv'
  <2>1. /\ Moves(c) /\ call[c].push # {} /\ call'[c].push = {} /\ KeyOf(c) \in Key
        /\ shared' = [shared EXCEPT ![KeyOf(c)] = call[c].push] \/ UNCHANGED shared
    BY <1>0, <1>6, PushEffect
  <2>2. PushInv'
    BY <1>0, <2>1 DEF PushInv, Moves
  <2>3. KeyOf(c)[2] > 0 => Cardinality(call[c].push) <= KeyOf(c)[2] + 1
    BY <1>0, <2>1 DEF PushInv, KeyOf
  <2>4. GlobalWithinOneMore'
    <3>1. \A k \in Key : shared'[k] = shared[k] \/ (k = KeyOf(c) /\ shared'[k] = call[c].push)
      BY <1>0, <2>1 DEF LimiterTypeOK
    <3> QED BY <1>0, <2>3, <3>1 DEF GlobalWithinOneMore
  <2> QED BY <2>2, <2>4
<1> QED BY <1>1, <1>2, <1>3, <1>4, <1>5, <1>6 DEF LimiterNext, LimiterStep

(***************************************************************************)
(* The local maps of devices.                                              *)
(***************************************************************************)

LEMMA LocalStep ==
  ASSUME LimiterInv, LimiterNext
  PROVE  DevicesWithinLimit'
<1>0. LimiterTypeOK /\ ShapeInv /\ DevicesWithinLimit /\ ips \in [Conn -> SUBSET Ip]
  BY DEF LimiterInv, LimiterTypeOK
<1>s. \A c \in Conn : call[c].setting \in Settings /\ call[c].setting.devices \in Nat
  BY <1>0, SettingType DEF LimiterTypeOK
<1>1. CASE LimiterCall \/ LimiterWork \/ CacheStep
  <2>1. UNCHANGED << ips, call >>
    BY <1>1 DEF LimiterCall, LimiterWork, AddInboundLimiter, DeleteInboundLimiter, UpdateUser, GetOnlineDevice,
                UpdateBucket, ClearBucket, ResetOnline, CacheStep, Expire, OtherNode
  <2> QED BY <1>0, <2>1 DEF DevicesWithinLimit, Settled
\* A step of c after which no counted device is in a map that was not there, or counted, before.
<1>2. ASSUME NEW c \in Conn,
             \A d \in Conn : d # c => call'[d] = call[d],
             call[c].map \in Conn => call'[c].map = call[c].map /\ call'[c].setting = call[c].setting,
             \A m \in Conn : Settled(m)' \subseteq Settled(m) /\ (ips'[m] # {} => ips[m] # {}) /\ Settled(m) \in SUBSET Ip
      PROVE  DevicesWithinLimit'
  <2> SUFFICES ASSUME NEW m \in Conn, ips'[m] # {}
               PROVE  \E d \in Conn : /\ call'[d].map = m
                                      /\ \/ call'[d].setting.devices = 0
                                         \/ Cardinality(Settled(m)') <= call'[d].setting.devices
    BY DEF DevicesWithinLimit
  <2>1. PICK d \in Conn : /\ call[d].map = m
                          /\ \/ call[d].setting.devices = 0
                             \/ Cardinality(Settled(m)) <= call[d].setting.devices
    BY <1>0, <1>2 DEF DevicesWithinLimit
  <2>2. call'[d].map = m /\ call'[d].setting = call[d].setting
    BY <1>2, <2>1
  <2>3. Settled(m)' \in SUBSET Settled(m) /\ Settled(m) \in SUBSET Ip
    BY <1>2
  <2>4. /\ Cardinality(Settled(m)') <= Cardinality(Settled(m))
        /\ Cardinality(Settled(m)') \in Nat /\ Cardinality(Settled(m)) \in Nat
    <3> HIDE DEF Settled
    <3>1. Settled(m)' \in SUBSET Ip
      BY <2>3
    <3> QED BY <2>3, <3>1, FewerDevices, Devices
  <2> QED BY <1>s, <2>1, <2>2, <2>4
<1>3. \A m \in Conn : Settled(m) \in SUBSET Ip
  BY <1>0 DEF Settled
<1>4. ASSUME NEW c \in Conn, NEW e \in Email, NEW i \in Ip, GetUserBucket(c, e, i)
      PROVE  DevicesWithinLimit'
  <2>1. /\ UNCHANGED ips /\ call[c].at = "idle" /\ call'[c].map = None
        /\ \A d \in Conn : d # c => call'[d] = call[d]
    BY <1>0, <1>4, AskEffect
  <2>2. call[c].map = None
    BY <1>0, <2>1 DEF ShapeInv
  <2>3. \A m \in Conn : Settled(m)' = Settled(m)
    BY <2>1, <2>2, ConnAssumption DEF Settled
  <2> QED BY <1>2, <1>3, <2>1, <2>2, <2>3, ConnAssumption
<1>5. ASSUME NEW c \in Conn, JoinOnline(c)
      PROVE  DevicesWithinLimit'
  <2>1. /\ Moves(c) /\ call[c].at = "join" /\ call[c].map = None
        /\ call'[c].at \in {"global", "add"} /\ call'[c].map \in Conn
    BY <1>0, <1>5, JoinEffect DEF ShapeInv
  <2>2. \A m \in Conn : ips'[m] = ips[m] => Settled(m)' = Settled(m)
    BY <2>1, ConnAssumption DEF Settled, Moves
  <2>3. CASE UNCHANGED ips
    BY <1>2, <1>3, <2>1, <2>2, <2>3, ConnAssumption DEF Moves
  <2>4. CASE call'[c].map = c /\ ips' = [ips EXCEPT ![c] = {call[c].ip}]
    <3> SUFFICES ASSUME NEW m \in Conn, ips'[m] # {}
                 PROVE  \E d \in Conn : /\ call'[d].map = m
                                        /\ \/ call'[d].setting.devices = 0
                                           \/ Cardinality(Settled(m)') <= call'[d].setting.devices
      BY DEF DevicesWithinLimit
    <3>1. CASE m # c
      <4>1. ips'[m] = ips[m]
        BY <1>0, <2>4, <3>1
      <4>2. PICK d \in Conn : /\ call[d].map = m
                              /\ \/ call[d].setting.devices = 0
                                 \/ Cardinality(Settled(m)) <= call[d].setting.devices
        BY <1>0, <4>1 DEF DevicesWithinLimit
      <4>3. d # c
        BY <2>1, <4>2, ConnAssumption
      <4>4. call'[d] = call[d] /\ Settled(m)' = Settled(m)
        BY <2>1, <2>2, <4>1, <4>3 DEF Moves
      <4> QED BY <4>2, <4>4
    <3>2. CASE m = c
      <4>1. Settled(m)' \in SUBSET {call[c].ip} /\ call[c].ip \in Ip
        BY <1>0, <2>1, <2>4, <3>2 DEF Settled, ShapeInv
      <4>2. {call[c].ip} \in SUBSET Ip /\ Cardinality({call[c].ip}) = 1
        BY <4>1, FS_Singleton
      <4>3. Cardinality(Settled(m)') <= 1
        <5> HIDE DEF Settled
        <5> QED BY <4>1, <4>2, FewerDevices
      <4>4. Cardinality(Settled(m)') \in Nat
        <5>1. Settled(m)' \in SUBSET Ip
          BY <4>1
        <5> HIDE DEF Settled
        <5> QED BY <5>1, Devices
      <4>5. call'[c].setting.devices \in Nat
        BY <1>s, <2>1 DEF Moves
      <4> QED BY <2>4, <3>2, <4>3, <4>4, <4>5
    <3> QED BY <3>1, <3>2
  <2> QED BY <1>0, <1>5, <2>3, <2>4, JoinEffect
<1>6. ASSUME NEW c \in Conn, AddIp(c)
      PROVE  DevicesWithinLimit'
  <2> DEFINE n == call[c].map
  <2>1. /\ Moves(c) /\ call[c].at = "add" /\ call'[c].map = n /\ n \in Conn /\ call[c].ip \in Ip
        /\ \/ call'[c].at = "global" /\ UNCHANGED ips
           \/ call'[c].at = "count" /\ ips' = [ips EXCEPT ![n] = @ \cup {call[c].ip}]
    BY <1>0, <1>6, AddEffect
  <2>2. CASE call'[c].at = "global" /\ UNCHANGED ips
    <3>1. \A m \in Conn : Settled(m)' = Settled(m)
      BY <2>1, <2>2 DEF Settled, Moves
    <3> QED BY <1>2, <1>3, <2>1, <2>2, <3>1 DEF Moves
  <2>3. CASE call'[c].at = "count" /\ ips' = [ips EXCEPT ![n] = @ \cup {call[c].ip}]
    <3>1. \A m \in Conn : m # n => ips'[m] = ips[m]
      BY <1>0, <2>3
    <3>2. ips'[n] = ips[n] \cup {call[c].ip}
      BY <1>0, <2>1, <2>3
    <3>3. \A m \in Conn : Settled(m)' \subseteq Settled(m)
      <4> TAKE m \in Conn
      <4>1. CASE m # n
        BY <2>1, <2>3, <3>1, <4>1 DEF Settled, Moves
      <4>2. CASE m = n
        BY <2>1, <2>3, <3>2, <4>2 DEF Settled, Moves
      <4> QED BY <4>1, <4>2
    <3>4. CASE ips[n] # {}
      <4>1. \A m \in Conn : ips'[m] # {} => ips[m] # {}
        BY <3>1, <3>4
      <4>2. call'[c].map = call[c].map /\ call'[c].setting = call[c].setting
        BY <2>1 DEF Moves
      <4> QED BY <1>2, <1>3, <2>1, <3>3, <4>1, <4>2 DEF Moves
    <3>5. CASE ips[n] = {}
      <4> HIDE DEF n
      <4> SUFFICES ASSUME NEW m \in Conn, ips'[m] # {}
                   PROVE  \E d \in Conn : /\ call'[d].map = m
                                          /\ \/ call'[d].setting.devices = 0
                                             \/ Cardinality(Settled(m)') <= call'[d].setting.devices
        BY DEF DevicesWithinLimit
      <4>1. CASE m = n
        <5>1. Settled(m)' = {}
          BY <3>3, <3>5, <4>1 DEF Settled
        <5>2. Cardinality(Settled(m)') = 0 /\ call'[c].setting.devices \in Nat
          BY <1>s, <2>1, <5>1, FS_EmptySet DEF Moves
        <5> QED BY <2>1, <4>1, <5>2
      <4>2. CASE m # n
        <5>1. ips[m] # {}
          BY <3>1, <4>2
        <5>2. Settled(m)' = Settled(m)
          BY <2>1, <2>3, <3>1, <4>2 DEF Settled, Moves, n
        <5>3. PICK d \in Conn : /\ call[d].map = m
                                /\ \/ call[d].setting.devices = 0
                                   \/ Cardinality(Settled(m)) <= call[d].setting.devices
          BY <1>0, <5>1 DEF DevicesWithinLimit
        <5>4. call'[d].map = m /\ call'[d].setting = call[d].setting
          BY <2>1, <5>3 DEF Moves, n
        <5> QED BY <5>2, <5>3, <5>4
      <4> QED BY <4>1, <4>2
    <3> QED BY <3>4, <3>5
  <2> QED BY <2>1, <2>2, <2>3
<1>7. ASSUME NEW c \in Conn, CountIps(c)
      PROVE  DevicesWithinLimit'
  <2> DEFINE n == call[c].map
  <2>1. /\ Moves(c) /\ call[c].at = "count" /\ call'[c].map = n /\ n \in Conn /\ call[c].ip \in Ip
        /\ \/ /\ call'[c].at = "global" /\ UNCHANGED ips
              /\ Cardinality(ips[n]) <= call[c].setting.devices \/ call[c].setting.devices = 0
           \/ call'[c].at = "rejected" /\ ips' = [ips EXCEPT ![n] = @ \ {call[c].ip}]
    BY <1>0, <1>7, CountEffect
  <2>2. CASE /\ call'[c].at = "global" /\ UNCHANGED ips
             /\ Cardinality(ips[n]) <= call[c].setting.devices \/ call[c].setting.devices = 0
    <3> HIDE DEF n
    <3> SUFFICES ASSUME NEW m \in Conn, ips'[m] # {}
                 PROVE  \E d \in Conn : /\ call'[d].map = m
                                        /\ \/ call'[d].setting.devices = 0
                                           \/ Cardinality(Settled(m)') <= call'[d].setting.devices
      BY DEF DevicesWithinLimit
    <3>1. CASE m = n
      <4>1. Settled(m)' \in SUBSET ips[n] /\ ips[n] \in SUBSET Ip /\ Settled(m)' \in SUBSET Ip
        BY <1>0, <2>1, <2>2, <3>1 DEF Settled
      <4>2. /\ Cardinality(Settled(m)') <= Cardinality(ips[n])
            /\ Cardinality(Settled(m)') \in Nat /\ Cardinality(ips[n]) \in Nat
        <5> HIDE DEF Settled
        <5> QED BY <4>1, FewerDevices, Devices
      <4>3. call'[c].map = m /\ call'[c].setting = call[c].setting
        BY <2>1, <3>1 DEF Moves
      <4> QED BY <1>s, <2>2, <4>2, <4>3
    <3>2. CASE m # n
      <4>1. Settled(m)' = Settled(m)
        BY <2>1, <2>2, <3>2 DEF Settled, Moves, n
      <4>2. PICK d \in Conn : /\ call[d].map = m
                              /\ \/ call[d].setting.devices = 0
                                 \/ Cardinality(Settled(m)) <= call[d].setting.devices
        BY <1>0, <2>2 DEF DevicesWithinLimit
      <4>3. call'[d].map = m /\ call'[d].setting = call[d].setting
        BY <2>1, <4>2 DEF Moves, n
      <4> QED BY <4>1, <4>2, <4>3
    <3> QED BY <3>1, <3>2
  <2>3. CASE call'[c].at = "rejected" /\ ips' = [ips EXCEPT ![n] = @ \ {call[c].ip}]
    <3>1. \A m \in Conn : ips'[m] = IF m = n THEN ips[n] \ {call[c].ip} ELSE ips[m]
      BY <1>0, <2>3
    <3>2. \A m \in Conn : Settled(m)' \subseteq Settled(m) /\ (ips'[m] # {} => ips[m] # {})
      <4> TAKE m \in Conn
      <4>1. CASE m # n
        BY <2>1, <2>3, <3>1, <4>1 DEF Settled, Moves
      <4>2. CASE m = n
        BY <2>1, <2>3, <3>1, <4>2 DEF Settled, Moves
      <4> QED BY <4>1, <4>2
    <3>3. call'[c].map = call[c].map /\ call'[c].setting = call[c].setting
      BY <2>1 DEF Moves
    <3> QED BY <1>2, <1>3, <2>1, <3>2, <3>3 DEF Moves
  <2> QED BY <2>1, <2>2, <2>3
<1>8. ASSUME NEW c \in Conn, globalLimit(c) \/ SpeedLimit(c) \/ pushIP(c)
      PROVE  DevicesWithinLimit'
  <2>1. /\ Moves(c) /\ UNCHANGED ips /\ call'[c].map = call[c].map
        /\ call'[c].at = "count" <=> call[c].at = "count"
    BY <1>0, <1>8, GlobalEffect, SpeedEffect, PushEffect
  <2>2. \A m \in Conn : Settled(m)' = Settled(m)
    BY <2>1 DEF Settled, Moves
  <2>3. call'[c].setting = call[c].setting
    BY <2>1 DEF Moves
  <2> QED BY <1>2, <1>3, <2>1, <2>2, <2>3 DEF Moves
<1> QED BY <1>1, <1>4, <1>5, <1>6, <1>7, <1>8 DEF LimiterNext, LimiterStep

(***************************************************************************)
(* The token buckets.                                                      *)
(***************************************************************************)

Pending(o, e) == \E w \in Updater : << update[w].info, update[w].email >> = << o, e >>

\* The bucket of one user has the right rate, or an excuse.
BucketRight(o, e) ==
  hub[o][e] # None /\ hub[o][e] \notin stale /\ ~Pending(o, e) => rate[hub[o][e]] = RateOf(users[o][e])

LEMMA BucketsRight == BucketFollowsPanel <=> \A o \in Object, e \in Email : BucketRight(o, e)
BY DEF BucketFollowsPanel, BucketRight, Pending

\* No other user shares a bucket.
LEMMA OwnBucket ==
  ASSUME HubInv, NEW o \in Object, NEW e \in Email, NEW p \in Object, NEW d \in Email,
         hub[o][e] # None, hub[p][d] = hub[o][e]
  PROVE  p = o /\ d = e
BY DEF HubInv

LEMMA BucketStep ==
  ASSUME LimiterInv, LimiterNext
  PROVE  HubInv' /\ BucketFollowsPanel'
<1>0. /\ LimiterTypeOK /\ ShapeInv /\ HubInv /\ \A o \in Object, e \in Email : BucketRight(o, e)
      /\ hub \in [Object -> [Email -> Conn \cup {None}]]
      /\ users \in [Object -> [Email -> Settings]]
      /\ rate \in [Conn -> Nat] /\ stale \subseteq Conn
  BY BucketsRight DEF LimiterInv, LimiterTypeOK
<1>1. CASE AddInboundLimiter
  <2>1. /\ UNCHANGED << hub, rate, stale, call, update >> /\ made' = made + 1 /\ made \in Nat
        /\ \A o \in Object : o # made' => users'[o] = users[o]
    BY <1>0, <1>1 DEF AddInboundLimiter, LimiterTypeOK, Object
  <2>2. \A e \in Email : made' \in Object => hub[made'][e] = None
    <3> SUFFICES ASSUME NEW e \in Email, made' \in Object, hub[made'][e] # None PROVE FALSE
      OBVIOUS
    <3>1. call[hub[made'][e]].info = made' /\ hub[made'][e] \in Conn
      BY <1>0 DEF HubInv
    <3>2. call[hub[made'][e]].info <= made
      BY <1>0, <3>1 DEF ShapeInv
    <3> QED BY <2>1, <3>1, <3>2
  <2>3. HubInv'
    BY <1>0, <2>1 DEF HubInv
  <2>4. ASSUME NEW o \in Object, NEW e \in Email
        PROVE  BucketRight(o, e)'
    <3>1. CASE o = made'
      BY <2>1, <2>2, <3>1 DEF BucketRight
    <3>2. CASE o # made'
      BY <1>0, <2>1, <3>2 DEF BucketRight, Pending
    <3> QED BY <3>1, <3>2
  <2> QED BY <2>3, <2>4 DEF BucketFollowsPanel, BucketRight, Pending
<1>2. ASSUME UNCHANGED << hub, rate, stale, users, update >>,
             \A c \in Conn : call[c].at = "admitted" =>
               call'[c].at = "admitted" /\ call'[c].info = call[c].info /\ call'[c].email = call[c].email
      PROVE  HubInv' /\ BucketFollowsPanel'
  <2>1. HubInv'
    <3> SUFFICES ASSUME NEW o \in Object, NEW e \in Email, hub[o][e] # None
                 PROVE  LET b == hub[o][e]
                        IN  call'[b].at = "admitted" /\ call'[b].info = o /\ call'[b].email = e
      BY <1>2 DEF HubInv
    <3>1. hub[o][e] \in Conn
      BY <1>0
    <3> QED BY <1>0, <1>2, <3>1 DEF HubInv
  <2>2. BucketFollowsPanel'
    BY <1>0, <1>2 DEF BucketFollowsPanel, LimiterInv
  <2> QED BY <2>1, <2>2
<1>3. CASE DeleteInboundLimiter \/ GetOnlineDevice \/ CacheStep \/ \E e \in Email : ResetOnline(e)
  <2>1. UNCHANGED << hub, rate, stale, users, update, call >>
    BY <1>3 DEF DeleteInboundLimiter, GetOnlineDevice, CacheStep, Expire, OtherNode, ResetOnline
  <2> QED BY <1>2, <2>1
<1>4. ASSUME NEW w \in Updater, NEW e \in Email, NEW s \in Setting, UpdateUser(w, e, s)
      PROVE  HubInv' /\ BucketFollowsPanel'
  <2>1. /\ UNCHANGED << hub, rate, stale, call >> /\ update[w].info = 0
        /\ current \in Object
        /\ users' = [users EXCEPT ![current][e] = s]
    BY <1>0, <1>4 DEF UpdateUser, LimiterTypeOK, Object
  <2>2. /\ update'[w].info = current /\ update'[w].email = e
        /\ \A v \in Updater : v # w => update'[v] = update[v]
    <3>1. update' = [update EXCEPT ![w] = [info |-> current, email |-> e, setting |-> s]]
      BY <1>4 DEF UpdateUser
    <3> QED BY <1>0, <3>1 DEF LimiterTypeOK
  <2>3. HubInv'
    BY <1>0, <2>1 DEF HubInv
  <2>4. ASSUME NEW o \in Object, NEW d \in Email
        PROVE  BucketRight(o, d)'
    <3>1. CASE o = current /\ d = e
      BY <2>2, <3>1 DEF BucketRight, Pending
    <3>2. CASE ~(o = current /\ d = e)
      <4>1. users'[o][d] = users[o][d]
        <5>1. s \in Settings
          BY DEF Settings
        <5> QED BY <1>0, <2>1, <3>2, <5>1, SetEntry
      <4>2. Pending(o, d)' <=> Pending(o, d)
        <5>1. o # 0
          BY DEF Object
        <5> QED BY <2>1, <2>2, <3>2, <5>1 DEF Pending
      <4> QED BY <1>0, <2>1, <4>1, <4>2 DEF BucketRight
    <3> QED BY <3>1, <3>2
  <2> QED BY <2>3, <2>4 DEF BucketFollowsPanel, BucketRight, Pending
<1>5. ASSUME NEW o \in Object, NEW e \in Email,
             hub' \in {hub, [hub EXCEPT ![o][e] = None]},
             UNCHANGED << rate, stale, users, call >>,
             \A p \in Object, d \in Email : Pending(p, d) => Pending(p, d)' \/ (p = o /\ d = e /\ hub'[o][e] = None)
      PROVE  HubInv' /\ BucketFollowsPanel'
  <2>1. \A p \in Object, d \in Email : hub'[p][d] \in {hub[p][d], None}
    <3>1. None \in Conn \cup {None}
      OBVIOUS
    <3>2. hub' = hub \/ hub' = [hub EXCEPT ![o][e] = None]
      BY <1>5
    <3>3. \A p \in Object, d \in Email :
            [hub EXCEPT ![o][e] = None][p][d] = IF p = o /\ d = e THEN None ELSE hub[p][d]
      BY <1>0, <3>1, SetEntry
    <3> QED BY <3>2, <3>3
  <2>2. HubInv'
    BY <1>0, <1>5, <2>1 DEF HubInv
  <2>3. ASSUME NEW p \in Object, NEW d \in Email
        PROVE  BucketRight(p, d)'
    <3>1. hub'[p][d] # None => hub'[p][d] = hub[p][d] /\ (Pending(p, d) => Pending(p, d)')
      BY <1>5, <2>1
    <3> QED BY <1>0, <1>5, <3>1 DEF BucketRight
  <2> QED BY <2>2, <2>3 DEF BucketFollowsPanel, BucketRight, Pending
<1>6. ASSUME NEW e \in Email, ClearBucket(e)
      PROVE  HubInv' /\ BucketFollowsPanel'
  <2>1. /\ report.info \in Object /\ hub' \in {hub, [hub EXCEPT ![report.info][e] = None]}
        /\ UNCHANGED << rate, stale, users, call, update >>
    BY <1>0, <1>6 DEF ClearBucket, ShapeInv
  <2>2. \A p \in Object, d \in Email : Pending(p, d) => Pending(p, d)'
    BY <2>1 DEF Pending
  <2> QED BY <1>5, <2>1, <2>2
<1>7. ASSUME NEW o \in Object, NEW e \in Email, NEW s \in Settings, NEW b \in Conn,
             hub'[o][e] = b, \A p \in Object, d \in Email : ~(p = o /\ d = e) => hub'[p][d] = hub[p][d] /\ hub[p][d] # b,
             SetRate(b, s, o, e), UNCHANGED users,
             \A p \in Object, d \in Email : Pending(p, d) => Pending(p, d)' \/ (p = o /\ d = e)
      PROVE  BucketFollowsPanel'
  <2>1. rate'[b] = RateOf(s) /\ \A c \in Conn : c # b => rate'[c] = rate[c]
    BY <1>0, <1>7 DEF SetRate
  <2>2. (s # users[o][e] => b \in stale') /\ \A c \in Conn : c # b => (c \in stale' <=> c \in stale)
    BY <1>7 DEF SetRate
  <2>3. ASSUME NEW p \in Object, NEW d \in Email
        PROVE  BucketRight(p, d)'
    <3>1. CASE p = o /\ d = e
      BY <1>7, <2>1, <2>2, <3>1 DEF BucketRight
    <3>2. CASE ~(p = o /\ d = e)
      <4>1. hub'[p][d] = hub[p][d] /\ hub[p][d] # b /\ (Pending(p, d) => Pending(p, d)')
        BY <1>7, <3>2
      <4>2. hub[p][d] # None => hub[p][d] \in Conn
        BY <1>0
      <4>3. BucketRight(p, d)
        BY <1>0
      <4> QED BY <1>7, <2>1, <2>2, <4>1, <4>2, <4>3 DEF BucketRight
    <3> QED BY <3>1, <3>2
  <2> QED BY <2>3 DEF BucketFollowsPanel, BucketRight, Pending
<1>8. ASSUME NEW w \in Updater, UpdateBucket(w)
      PROVE  HubInv' /\ BucketFollowsPanel'
  <2> DEFINE o == update[w].info
             e == update[w].email
             s == update[w].setting
             b == hub[o][e]
  <2>1. o \in Object /\ e \in Email /\ s \in Settings /\ b \in Conn \cup {None} /\ RateOf(s) \in Nat
    <3>1. o \in Object /\ e \in Email /\ s \in Settings
      BY <1>0, <1>8 DEF UpdateBucket, LimiterTypeOK, ShapeInv, Object
    <3> QED BY <1>0, <3>1, RateType
  <2>2. UNCHANGED << users, call >>
    BY <1>8 DEF UpdateBucket
  <2>3. \A p \in Object, d \in Email : Pending(p, d) => Pending(p, d)' \/ (p = o /\ d = e)
    <3>1. \A v \in Updater : v # w => update'[v] = update[v]
      BY <1>8 DEF UpdateBucket, LimiterTypeOK
    <3> QED BY <3>1 DEF Pending
  <2>4. CASE RateOf(s) > 0 /\ b # None
    <3>1. UNCHANGED hub /\ SetRate(b, s, o, e)
      BY <1>8, <2>1, <2>4 DEF UpdateBucket
    <3>2. HubInv'
      BY <1>0, <2>2, <3>1 DEF HubInv
    <3>3. \A p \in Object, d \in Email : ~(p = o /\ d = e) => hub'[p][d] = hub[p][d] /\ hub[p][d] # b
      <4>1. \A p \in Object, d \in Email : hub[p][d] = b => p = o /\ d = e
        BY <1>0, <2>1, <2>4, OwnBucket
      <4> QED BY <3>1, <4>1
    <3>4. b \in Conn /\ hub'[o][e] = b
      BY <2>1, <2>4, <3>1
    <3> HIDE DEF o, e, s, b
    <3> QED BY <1>7, <2>1, <2>2, <2>3, <3>1, <3>2, <3>3, <3>4
  <2>5. CASE ~(RateOf(s) > 0 /\ b # None)
    <3>1. UNCHANGED << rate, stale >> /\ hub' \in {hub, [hub EXCEPT ![o][e] = None]}
      BY <1>8, <2>5 DEF UpdateBucket
    <3>2. hub'[o][e] = None
      <4>1. \/ RateOf(s) = 0 /\ hub' = [hub EXCEPT ![o][e] = None]
            \/ RateOf(s) # 0 /\ hub' = hub
        BY <1>8 DEF UpdateBucket
      <4>2. RateOf(s) # 0 => b = None
        BY <2>1, <2>5
      <4>3. [hub EXCEPT ![o][e] = None][o][e] = None
        <5> HIDE DEF o, e
        <5> QED BY <1>0, <2>1, SetEntry
      <4> QED BY <4>1, <4>2, <4>3
    <3> HIDE DEF o, e, s, b
    <3> QED BY <1>5, <2>1, <2>2, <2>3, <3>1, <3>2
  <2> QED BY <2>4, <2>5
<1>9. ASSUME NEW c \in Conn, SpeedLimit(c)
      PROVE  HubInv' /\ BucketFollowsPanel'
  <2> DEFINE o == call[c].info
             e == call[c].email
             s == call[c].setting
  <2>1. /\ Moves(c) /\ call[c].at = "speed" /\ call'[c].at = "admitted"
        /\ o \in Object /\ e \in Email /\ s \in Settings
        /\ UNCHANGED << users, update >>
        /\ \/ UNCHANGED << hub, rate, stale >>
           \/ hub' = [hub EXCEPT ![o][e] = c] /\ SetRate(c, s, o, e)
    BY <1>0, <1>9, SpeedEffect
  <2>2. CASE UNCHANGED << hub, rate, stale >>
    <3>1. \A d \in Conn : call[d].at = "admitted" =>
            call'[d].at = "admitted" /\ call'[d].info = call[d].info /\ call'[d].email = call[d].email
      BY <2>1 DEF Moves
    <3> QED BY <1>2, <2>1, <2>2, <3>1
  <2>3. CASE hub' = [hub EXCEPT ![o][e] = c] /\ SetRate(c, s, o, e)
    <3>1. \A p \in Object, d \in Email : hub[p][d] # c
      BY <1>0, <2>1, ConnAssumption DEF HubInv
    <3>2. call'[c].info = o /\ call'[c].email = e
      BY <2>1 DEF Moves
    <3> HIDE DEF o, e, s
    <3>3. \A p \in Object, d \in Email : hub'[p][d] = IF p = o /\ d = e THEN c ELSE hub[p][d]
      BY <1>0, <2>1, <2>3, SetEntry
    <3>4. HubInv'
      <4> SUFFICES ASSUME NEW p \in Object, NEW d \in Email, hub'[p][d] # None
                   PROVE  LET b == hub'[p][d]
                          IN  call'[b].at = "admitted" /\ call'[b].info = p /\ call'[b].email = d
        BY DEF HubInv
      <4>1. CASE p = o /\ d = e
        BY <2>1, <3>2, <3>3, <4>1
      <4>2. CASE ~(p = o /\ d = e)
        <5>1. hub'[p][d] = hub[p][d] /\ hub[p][d] # c /\ hub[p][d] \in Conn
          BY <1>0, <3>1, <3>3, <4>2
        <5>2. call'[hub[p][d]] = call[hub[p][d]]
          BY <2>1, <5>1 DEF Moves
        <5> QED BY <1>0, <5>1, <5>2 DEF HubInv
      <4> QED BY <4>1, <4>2
    <3>5. \A p \in Object, d \in Email : Pending(p, d) => Pending(p, d)'
      BY <2>1 DEF Pending
    <3>6. \A p \in Object, d \in Email : ~(p = o /\ d = e) => hub'[p][d] = hub[p][d] /\ hub[p][d] # c
      BY <3>1, <3>3
    <3>7. hub'[o][e] = c
      BY <2>1, <3>3
    <3> QED BY <1>7, <2>1, <2>3, <3>4, <3>5, <3>6, <3>7
  <2> QED BY <2>1, <2>2, <2>3
<1>10. ASSUME NEW c \in Conn, JoinOnline(c) \/ AddIp(c) \/ CountIps(c) \/ globalLimit(c) \/ pushIP(c)
       PROVE  HubInv' /\ BucketFollowsPanel'
  <2>1. /\ Moves(c) /\ UNCHANGED << hub, rate, stale, users, update >>
        /\ call[c].at = "admitted" => call'[c].at = "admitted"
    BY <1>0, <1>10, JoinEffect, AddEffect, CountEffect, GlobalEffect, PushEffect
  <2>2. \A d \in Conn : call[d].at = "admitted" =>
          call'[d].at = "admitted" /\ call'[d].info = call[d].info /\ call'[d].email = call[d].email
    BY <2>1 DEF Moves
  <2> QED BY <1>2, <2>1, <2>2
<1>11. ASSUME NEW c \in Conn, NEW e \in Email, NEW i \in Ip, GetUserBucket(c, e, i)
       PROVE  HubInv' /\ BucketFollowsPanel'
  <2>1. /\ UNCHANGED << hub, rate, stale, users, update >> /\ call[c].at = "idle"
        /\ \A d \in Conn : d # c => call'[d] = call[d]
    BY <1>0, <1>11, AskEffect
  <2>2. \A d \in Conn : call[d].at = "admitted" =>
          call'[d].at = "admitted" /\ call'[d].info = call[d].info /\ call'[d].email = call[d].email
    BY <2>1
  <2> QED BY <1>2, <2>1, <2>2
<1> QED BY <1>1, <1>3, <1>4, <1>6, <1>8, <1>9, <1>10, <1>11
        DEF LimiterNext, LimiterCall, LimiterWork, LimiterStep

(***************************************************************************)
(* Every step, and the theorems.                                           *)
(***************************************************************************)

LEMMA LimiterStepKeepsInv == LimiterInv /\ [LimiterNext]_limiterVars => LimiterInv'
<1> SUFFICES ASSUME LimiterInv, [LimiterNext]_limiterVars PROVE LimiterInv'
  OBVIOUS
<1>1. CASE LimiterNext
  <2>1. LimiterTypeOK' /\ ShapeInv'
    <3>1. LimiterTypeOK /\ ShapeInv
      BY DEF LimiterInv
    <3>2. \/ LimiterCall \/ LimiterWork
          \/ CacheStep
          \/ \E c \in Conn : LimiterStep(c) \/ \E e \in Email, i \in Ip : GetUserBucket(c, e, i)
      BY <1>1 DEF LimiterNext
    <3> QED BY <3>1, <3>2, ControllerTypes, CacheTypes, CallTypes
  <2>2. HubInv' /\ BucketFollowsPanel'
    BY <1>1, BucketStep
  <2>3. DevicesWithinLimit'
    BY <1>1, LocalStep
  <2>4. GlobalWithinOneMore' /\ PushInv'
    BY <1>1, GlobalStep
  <2> QED BY <2>1, <2>2, <2>3, <2>4 DEF LimiterInv
<1>2. CASE UNCHANGED limiterVars
  <2>1. UNCHANGED << current, made, users, hub, online, ips, rate, stale, shared, call, update, report >>
    BY <1>2 DEF limiterVars
  <2>2. LimiterTypeOK' /\ ShapeInv' /\ PushInv'
    BY <2>1 DEF LimiterInv, LimiterTypeOK, ShapeInv, PushInv
  <2>3. HubInv' /\ BucketFollowsPanel'
    BY <2>1 DEF LimiterInv, HubInv, BucketFollowsPanel
  <2>4. DevicesWithinLimit' /\ GlobalWithinOneMore'
    BY <2>1 DEF LimiterInv, DevicesWithinLimit, Settled, GlobalWithinOneMore
  <2> QED BY <2>2, <2>3, <2>4 DEF LimiterInv
<1> QED BY <1>1, <1>2

LEMMA LimiterInvHolds == LimiterSpec => []LimiterInv
<1>1. LimiterInit => LimiterInv
  BY InitLimiterInv
<1>2. LimiterInv /\ [LimiterNext]_limiterVars => LimiterInv'
  BY LimiterStepKeepsInv
<1> QED BY <1>1, <1>2, PTL DEF LimiterSpec

=============================================================================
