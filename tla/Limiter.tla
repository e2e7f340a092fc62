------------------------------ MODULE Limiter ------------------------------
(***************************************************************************)
(* The limiter of one tag (common/limiter): every connection asks          *)
(* GetUserBucket whether its device is admitted and which token bucket it  *)
(* shares, while the controller's two monitors change the users, replace   *)
(* the inbound and collect the online devices.  All of it is sync.Map      *)
(* without a lock, so every operation on a map is a step.  A token bucket  *)
(* and a map of IPs have the name of the connection that made them.        *)
(***************************************************************************)
EXTENDS Connections, Integers, FiniteSets

CONSTANTS
  Ip,          \* devices
  Setting,     \* the settings of a user: [speed |-> ..., devices |-> ...]
  NodeSpeed,   \* the node's speed limit; 0 is none
  Global,      \* whether GlobalDeviceLimitConfig is enabled
  CacheFails,  \* whether the global cache may fail or be too slow
  Updater,     \* goroutines that call UpdateInboundLimiter
  Others,      \* devices of other nodes, which the global cache has at first
  MaxInbounds  \* bound: InboundInfos of the tag, the first one included

\* A user the limiter does not know has no limits.
Unknown == [speed |-> 0, devices |-> 0]

Settings == Setting \cup {Unknown}

ASSUME LimiterAssumption ==
  /\ \A s \in Setting : s \in [speed : Nat, devices : Nat]
  /\ NodeSpeed \in Nat /\ MaxInbounds \in Nat \ {0}
  /\ Global \in BOOLEAN /\ CacheFails \in BOOLEAN
  /\ IsFiniteSet(Ip) /\ Others \subseteq Ip
  /\ \A s \in Setting : s.devices > 0 => Cardinality(Others) <= s.devices + 1

VARIABLES
  current,  \* which InboundInfo the tag has; 0 is none
  made,     \* how many InboundInfos there have been
  users,    \* UserInfo of each InboundInfo
  hub,      \* BucketHub of each InboundInfo
  online,   \* UserOnlineIP of each InboundInfo
  ips,      \* the maps of IPs
  rate,     \* the rates of the token buckets
  stale,    \* history: buckets whose rate was set from an outdated UserInfo
  shared,   \* the global cache: IPs by user and device limit
  call,     \* GetUserBucket and pushIP, for each connection
  update,   \* UpdateInboundLimiter, for each goroutine
  report    \* GetOnlineDevice

limiterVars == << current, made, users, hub, online, ips, rate, stale, shared,
                  call, update, report >>

Object == 1 .. MaxInbounds

Key == Email \X {s.devices : s \in Settings}

\* The smaller one of two rates, of which 0 is none.
determineRate(n, u) == IF n = 0 \/ (u # 0 /\ u < n) THEN u ELSE n

RateOf(s) == determineRate(NodeSpeed, s.speed)

(***************************************************************************)
(* The controller: inbounds, users and online devices.                     *)
(***************************************************************************)

\* Replaces the InboundInfo; connections may still hold the old one.
AddInboundLimiter ==
  /\ made < MaxInbounds
  /\ made' = made + 1
  /\ current' = made'
  /\ \E list \in [Email -> Settings] : users' = [users EXCEPT ![made'] = list]
  /\ UNCHANGED << hub, online, ips, rate, stale, shared, call, update, report >>

DeleteInboundLimiter ==
  /\ current # 0
  /\ current' = 0
  /\ UNCHANGED << made, users, hub, online, ips, rate, stale, shared, call, update, report >>

\* One user of UpdateInboundLimiter: first his settings ...
UpdateUser(w, e, s) ==
  /\ update[w].info = 0
  /\ current # 0
  /\ users' = [users EXCEPT ![current][e] = s]
  /\ update' = [update EXCEPT ![w] = [info |-> current, email |-> e, setting |-> s]]
  /\ UNCHANGED << current, made, hub, online, ips, rate, stale, shared, call, report >>

\* The rate of bucket b is set from the settings s of a user in an object.
SetRate(b, s, o, e) ==
  /\ rate' = [rate EXCEPT ![b] = RateOf(s)]
  /\ stale' = IF s = users[o][e] THEN stale \ {b} ELSE stale \cup {b}

Rested == [info |-> 0, email |-> None, setting |-> Unknown]

\* Faulty: a bucket that exists already is left as it is.
UpdateBucket_new(w) ==
  LET o == update[w].info
      e == update[w].email
      s == update[w].setting
  IN  /\ o # 0
      /\ hub' = IF RateOf(s) = 0 THEN [hub EXCEPT ![o][e] = None] ELSE hub
      /\ update' = [update EXCEPT ![w] = Rested]
      /\ UNCHANGED << rate, stale, current, made, users, online, ips, shared, call, report >>

\* ... and then his bucket, which is forgotten when he has no limit any more.
UpdateBucket(w) ==
  LET o == update[w].info
      e == update[w].email
      s == update[w].setting
      b == hub[o][e]
  IN  /\ o # 0
      /\ hub' = IF RateOf(s) = 0 THEN [hub EXCEPT ![o][e] = None] ELSE hub
      /\ IF RateOf(s) > 0 /\ b # None THEN SetRate(b, s, o, e) ELSE UNCHANGED << rate, stale >>
      /\ update' = [update EXCEPT ![w] = Rested]
      /\ UNCHANGED << current, made, users, online, ips, shared, call, report >>

Reporting(step, o, todo) == report' = [at |-> step, info |-> o, todo |-> todo]

GetOnlineDevice ==
  /\ report.at = "idle"
  /\ current # 0
  /\ Reporting("clear", current, Email)
  /\ UNCHANGED << current, made, users, hub, online, ips, rate, stale, shared, call, update >>

\* The bucket of a user who is not online is forgotten.
ClearBucket(e) ==
  /\ report.at = "clear"
  /\ e \in report.todo
  /\ hub' = IF online[report.info][e] = None THEN [hub EXCEPT ![report.info][e] = None] ELSE hub
  /\ IF report.todo = {e}
     THEN Reporting("reset", report.info, Email)
     ELSE Reporting("clear", report.info, report.todo \ {e})
  /\ UNCHANGED << current, made, users, online, ips, rate, stale, shared, call, update >>

\* The user's devices are listed for the panel, and his map is forgotten.
ResetOnline(e) ==
  /\ report.at = "reset"
  /\ e \in report.todo
  /\ online' = [online EXCEPT ![report.info][e] = None]
  /\ IF report.todo = {e}
     THEN Reporting("idle", 0, {})
     ELSE Reporting("reset", report.info, report.todo \ {e})
  /\ UNCHANGED << current, made, users, hub, ips, rate, stale, shared, call, update >>

\* The calls of the controller, and the steps that such a call goes on with.
LimiterCall ==
  \/ AddInboundLimiter
  \/ DeleteInboundLimiter
  \/ \E w \in Updater, e \in Email, s \in Setting : UpdateUser(w, e, s)
  \/ GetOnlineDevice

LimiterWork ==
  \/ \E w \in Updater : UpdateBucket(w)
  \/ \E e \in Email : ClearBucket(e) \/ ResetOnline(e)

(***************************************************************************)
(* GetUserBucket.                                                          *)
(***************************************************************************)

\* A call of e's device i, with what has been read.
Asked(step, e, i, o, s) ==
  [at |-> step, email |-> e, ip |-> i, info |-> o, setting |-> s,
   map |-> None, bucket |-> None, push |-> {}]

Idle == Asked("idle", None, None, 0, Unknown)

Goto(c, step) == call' = [call EXCEPT ![c].at = step]

\* The InboundInfo and the UserInfo are read, and will not be read again.
GetUserBucket(c, e, i) ==
  /\ call[c].at = "idle"
  /\ call' = [call EXCEPT ![c] =
       IF current = 0
       THEN Asked("admitted", e, i, 0, Unknown)
       ELSE Asked("join", e, i, current, users[current][e])]
  /\ UNCHANGED << current, made, users, hub, online, ips, rate, stale, shared, update, report >>

\* UserOnlineIP.LoadOrStore: the first device of a user makes his map.
JoinOnline(c) ==
  LET m == online[call[c].info][call[c].email]
  IN  /\ call[c].at = "join"
      /\ IF m = None
         THEN /\ online' = [online EXCEPT ![call[c].info][call[c].email] = c]
              /\ ips' = [ips EXCEPT ![c] = {call[c].ip}]
              /\ call' = [call EXCEPT ![c].at = "global", ![c].map = c]
         ELSE /\ call' = [call EXCEPT ![c].at = "add", ![c].map = m]
              /\ UNCHANGED << online, ips >>
      /\ UNCHANGED << current, made, users, hub, rate, stale, shared, update, report >>

AddIp(c) ==
  /\ call[c].at = "add"
  /\ IF call[c].ip \in ips[call[c].map]
     THEN Goto(c, "global") /\ UNCHANGED ips
     ELSE /\ ips' = [ips EXCEPT ![call[c].map] = @ \cup {call[c].ip}]
          /\ Goto(c, "count")
  /\ UNCHANGED << current, made, users, hub, online, rate, stale, shared, update, report >>

\* Faulty: one device more.
CountIps_more(c) ==
  /\ call[c].at = "count"
  /\ IF Cardinality(ips[call[c].map]) > call[c].setting.devices + 1 /\ call[c].setting.devices > 0
     THEN ips' = [ips EXCEPT ![call[c].map] = @ \ {call[c].ip}] /\ Goto(c, "rejected")
     ELSE Goto(c, "global") /\ UNCHANGED ips
  /\ UNCHANGED << current, made, users, hub, online, rate, stale, shared, update, report >>

\* A new device counts all devices in the map and leaves if they are too many.
CountIps(c) ==
  /\ call[c].at = "count"
  /\ IF Cardinality(ips[call[c].map]) > call[c].setting.devices /\ call[c].setting.devices > 0
     THEN ips' = [ips EXCEPT ![call[c].map] = @ \ {call[c].ip}] /\ Goto(c, "rejected")
     ELSE Goto(c, "global") /\ UNCHANGED ips
  /\ UNCHANGED << current, made, users, hub, online, rate, stale, shared, update, report >>

KeyOf(c) == << call[c].email, call[c].setting.devices >>

\* Faulty: a user whose devices are one too many is not refused yet.
OverGlobal_more(k) == k[2] > 0 /\ Cardinality(shared[k]) > k[2] + 1

\* The user has more devices than he may have.  One more is let in.
OverGlobal(k) == k[2] > 0 /\ Cardinality(shared[k]) > k[2]

\* globalLimit: a device that is new to the cache is pushed by a goroutine,
\* together with what the cache had.  A device that is refused here stays in
\* the local map.  If the cache fails, the device is admitted.
globalLimit(c) ==
  LET k == KeyOf(c)
  IN  /\ call[c].at = "global"
      /\ \/ (~Global \/ CacheFails) /\ Goto(c, "speed")
         \/ Global /\ OverGlobal(k) /\ Goto(c, "rejected")
         \/ /\ Global /\ ~OverGlobal(k)
            /\ call' = [call EXCEPT
                 ![c].at   = "speed",
                 ![c].push = IF call[c].ip \in shared[k] THEN {} ELSE shared[k] \cup {call[c].ip}]
      /\ UNCHANGED << current, made, users, hub, online, ips, rate, stale, shared, update, report >>

\* BucketHub.LoadOrStore, with the settings read at the beginning.
SpeedLimit(c) ==
  LET o == call[c].info
      e == call[c].email
      s == call[c].setting
  IN  /\ call[c].at = "speed"
      /\ IF RateOf(s) > 0 /\ hub[o][e] = None
         THEN hub' = [hub EXCEPT ![o][e] = c] /\ SetRate(c, s, o, e)
         ELSE UNCHANGED << hub, rate, stale >>
      /\ call' = [call EXCEPT
           ![c].at     = "admitted",
           ![c].bucket = IF RateOf(s) > 0 THEN hub'[o][e] ELSE None]
      /\ UNCHANGED << current, made, users, online, ips, shared, update, report >>

\* What another push has stored since the Get is overwritten.
pushIP(c) ==
  /\ call[c].push # {}
  /\ call' = [call EXCEPT ![c].push = {}]
  /\ shared' = [shared EXCEPT ![KeyOf(c)] = call[c].push] \/ (CacheFails /\ UNCHANGED shared)
  /\ UNCHANGED << current, made, users, hub, online, ips, rate, stale, update, report >>

LimiterStep(c) ==
  \/ JoinOnline(c)
  \/ AddIp(c)
  \/ CountIps(c)
  \/ globalLimit(c)
  \/ SpeedLimit(c)
  \/ pushIP(c)

\* Another node with the same cache admits a device, and entries expire.
OtherNode(k, i) ==
  /\ Global
  /\ ~OverGlobal(k)
  /\ shared' = [shared EXCEPT ![k] = @ \cup {i}]
  /\ UNCHANGED << current, made, users, hub, online, ips, rate, stale, call, update, report >>

Expire(k) ==
  /\ shared[k] # {}
  /\ shared' = [shared EXCEPT ![k] = {}]
  /\ UNCHANGED << current, made, users, hub, online, ips, rate, stale, call, update, report >>

CacheStep == \E k \in Key : Expire(k) \/ \E i \in Others : OtherNode(k, i)

LimiterInit ==
  /\ current = 1
  /\ made = 1
  /\ users \in {[o \in Object |-> IF o = 1 THEN list ELSE [e \in Email |-> Unknown]] :
                  list \in [Email -> Setting]}
  /\ hub = [o \in Object |-> [e \in Email |-> None]]
  /\ online = [o \in Object |-> [e \in Email |-> None]]
  /\ ips = [c \in Conn |-> {}]
  /\ rate = [c \in Conn |-> 0]
  /\ stale = {}
  /\ shared = [k \in Key |-> IF k[2] > 0 THEN Others ELSE {}]
  /\ call = [c \in Conn |-> Idle]
  /\ update = [w \in Updater |-> Rested]
  /\ report = [at |-> "idle", info |-> 0, todo |-> {}]

LimiterNext ==
  \/ LimiterCall
  \/ LimiterWork
  \/ CacheStep
  \/ \E c \in Conn : LimiterStep(c) \/ \E e \in Email, i \in Ip : GetUserBucket(c, e, i)

LimiterSpec == LimiterInit /\ [][LimiterNext]_limiterVars

(***************************************************************************)
(* Properties.                                                             *)
(***************************************************************************)

LimiterTypeOK ==
  /\ current \in 0 .. MaxInbounds /\ made \in Object
  /\ users \in [Object -> [Email -> Settings]]
  /\ hub \in [Object -> [Email -> Conn \cup {None}]]
  /\ online \in [Object -> [Email -> Conn \cup {None}]]
  /\ ips \in [Conn -> SUBSET Ip]
  /\ rate \in [Conn -> Nat]
  /\ stale \subseteq Conn
  /\ shared \in [Key -> SUBSET Ip]
  /\ call \in [Conn -> [at : {"idle", "join", "add", "count", "global", "speed", "admitted", "rejected"},
                        email : Email \cup {None}, ip : Ip \cup {None}, info : 0 .. MaxInbounds,
                        setting : Settings, map : Conn \cup {None},
                        bucket : Conn \cup {None}, push : SUBSET Ip]]
  /\ update \in [Updater -> [info : 0 .. MaxInbounds, email : Email \cup {None}, setting : Settings]]
  /\ report \in [at : {"idle", "clear", "reset"}, info : 0 .. MaxInbounds, todo : SUBSET Email]

\* The devices of a map that have been counted, or need not be.
Settled(m) == ips[m] \ {call[c].ip : c \in {x \in Conn : call[x].map = m /\ call[x].at = "count"}}

\* However many connections join at once, a map of online devices keeps
\* within the device limit that one of its connections was given.
DevicesWithinLimit ==
  \A m \in Conn : ips[m] # {} =>
    \E c \in Conn : /\ call[c].map = m
                    /\ \/ call[c].setting.devices = 0
                       \/ Cardinality(Settled(m)) <= call[c].setting.devices

\* However pushes and other nodes overtake each other, the cache never holds
\* more than one device above the limit.
GlobalWithinOneMore ==
  \A k \in Key : k[2] > 0 => Cardinality(shared[k]) <= k[2] + 1

\* The bucket that new connections of a user share has the rate of his
\* settings, unless it was set last from settings that had been replaced in
\* the meantime.
BucketFollowsPanel ==
  \A o \in Object, e \in Email :
    LET b == hub[o][e]
    IN  /\ b # None
        /\ b \notin stale
        /\ \A w \in Updater : << update[w].info, update[w].email >> # << o, e >>
        => rate[b] = RateOf(users[o][e])

=============================================================================
