-------------------------- MODULE ControllerProofs --------------------------
(***************************************************************************)
(* Proofs about Controller, for any nodes, users, lists and faults: what   *)
(* core and limiter serve is what the controller remembers, whatever fails *)
(* and whichever way the two monitors interleave.                          *)
(***************************************************************************)
EXTENDS Controller, FiniteSetTheorems, TLAPS

USE DEF None, Stale, Down, Partial

(***************************************************************************)
(* The inductive invariant.                                                *)
(***************************************************************************)

Steps == {"idle", "users", "remove", "add", "unlimit", "fill", "limit",
          "drop", "join", "update", "dead"}

Shape ==
  /\ panel \in [node : Node, users : UserList]
  /\ etag \in [node : Node, users : UserList]
  /\ mem \in [node : Node, users : UserList]
  /\ mon \in [at : Steps, node : Node \cup {"none"}, users : UserList,
              oldTag : Tag \cup {"none"}, current : BOOLEAN]
  /\ mon.at # "idle" => mon.node \in Node
  /\ core \in [DOMAIN core -> SUBSET User]
  /\ limiter \in [DOMAIN limiter -> [Uid -> Entry]]
  /\ limited \subseteq User /\ usr.slow \subseteq limited
  /\ usr.at # "read" => usr.slow = {}
  /\ damage \in None .. Partial

\* The one inbound is that of the Tag, except while it is replaced; without
\* one, nothing is ever replaced.
InboundInv ==
  /\ DOMAIN core \subseteq {tag}
  /\ mon.at = "add" => DOMAIN core = {}
  /\ damage = Down => DOMAIN core = {} /\ mon.at \notin {"add", "unlimit", "fill", "limit"}
  /\ damage <= Stale /\ mon.at # "add" => tag \in DOMAIN core

\* The users it serves at each step.
Served ==
  CASE mon.at \in {"unlimit", "fill"} -> {}
    [] mon.at \in {"limit", "update"} -> mon.users
    [] mon.at = "join"                -> mem.users \cap mon.users
    [] OTHER                          -> mem.users

ServedInv == damage <= Stale /\ mon.at # "add" => core[tag] = Served

\* The limiter's inbounds at each step, and its users if none is limited.
Limiters ==
  CASE mon.at = "unlimit"           -> {mon.oldTag}
    [] mon.at \in {"fill", "limit"} -> {}
    [] OTHER                        -> {tag}

Settled ==
  CASE mon.at \in {"join", "update"}            -> mem.users \cap mon.users
    [] mon.at \in {"unlimit", "fill", "limit"} -> {}
    [] OTHER                                    -> mem.users

LimiterInv ==
  /\ damage <= Stale => DOMAIN limiter = Limiters
  /\ AutoLimit = 0 => limited = {}
  /\ damage <= Stale /\ AutoLimit = 0 => \A u \in Settled : limiter[tag][UidOf[u]] = u

\* What the client was answered is what the controller works with.
ETagInv ==
  /\ mon.at \in {"unlimit", "fill", "limit", "drop", "join", "update"} => mem.node = mon.node
  /\ mon.at \in {"remove", "add", "unlimit", "fill", "limit", "drop", "join", "update"} /\ damage = None =>
       /\ etag.node = mon.node /\ etag.users = mon.users
       /\ mon.current => panel = etag
  /\ mon.at = "users" /\ damage = None =>
       /\ etag.node = mon.node /\ etag.users = mem.users
       /\ mon.current => panel.node = etag.node
  /\ mon.at = "idle" /\ damage = None =>
       /\ etag = mem
       /\ mon.current => panel = etag

Inv == Shape /\ InboundInv /\ ServedInv /\ LimiterInv /\ ETagInv /\ SlowIsReleased

(***************************************************************************)
(* The operators the actions are made of.                                  *)
(***************************************************************************)

\* Set keeps the type of the function's values.
LEMMA SetType ==
  ASSUME NEW f, NEW x, NEW S, f \in [DOMAIN f -> S], NEW v \in S
  PROVE  Set(f, x, v) \in [DOMAIN Set(f, x, v) -> S]
BY DEF Set

\* AddInboundLimiter gives every user of the list his record, and nobody the
\* punishment's speed.
LEMMA LimitsOfFacts ==
  ASSUME NEW users \in UserList
  PROVE  /\ LimitsOf(users) \in [Uid -> Entry]
         /\ \A i \in Uid : LimitsOf(users)[i] # "slow"
         /\ \A u \in users : LimitsOf(users)[UidOf[u]] = u
<1> DEFINE His(i) == CHOOSE u \in users : UidOf[u] = i
<1>1. users \subseteq User /\ \A u, v \in users : UidOf[u] = UidOf[v] => u = v
  BY DEF UserList
<1>2. \A i \in Uid : (\E u \in users : UidOf[u] = i) => His(i) \in users /\ UidOf[His(i)] = i
  OBVIOUS
<1>3. \A i \in Uid : LimitsOf(users)[i] = IF \E u \in users : UidOf[u] = i THEN His(i) ELSE "none"
  BY DEF LimitsOf
<1>4. \A u \in users : UidOf[u] \in Uid
  BY <1>1 DEF Uid
<1>5. LimitsOf(users) = [i \in Uid |-> LimitsOf(users)[i]]
  BY DEF LimitsOf
<1> HIDE DEF His
<1>6. \A i \in Uid : LimitsOf(users)[i] \in User \cup {"none"}
  BY <1>1, <1>2, <1>3
<1>7. LimitsOf(users) \in [Uid -> Entry]
  BY <1>5, <1>6 DEF Entry
<1>8. \A i \in Uid : LimitsOf(users)[i] # "slow"
  BY <1>6, UserAssumption
<1>9. ASSUME NEW u \in users PROVE LimitsOf(users)[UidOf[u]] = u
  BY <1>1, <1>2, <1>3, <1>4, <1>9
<1> QED BY <1>7, <1>8, <1>9

\* UpdateInboundLimiter adds and removes no inbound, and of the inbound it is
\* given it changes exactly the users it is given.
LEMMA UpdateFacts ==
  ASSUME limiter \in [DOMAIN limiter -> [Uid -> Entry]],
         NEW t, NEW f, UpdateInboundLimiter(t, f)
  PROVE  /\ DOMAIN limiter' = DOMAIN limiter
         /\ limiter' \in [DOMAIN limiter' -> [Uid -> Entry]]
         /\ \A s \in DOMAIN limiter : s # t => limiter'[s] = limiter[s]
         /\ t \in DOMAIN limiter => \A i \in Uid :
              \/ (\A u \in DOMAIN f : UidOf[u] # i) /\ limiter'[t][i] = limiter[t][i]
              \/ \E u \in DOMAIN f : UidOf[u] = i /\ limiter'[t][i] = f[u]
<1>1. CASE t \notin DOMAIN limiter
  BY <1>1 DEF UpdateInboundLimiter
<1>2. CASE t \in DOMAIN limiter
  <2>1. PICK e \in [Uid -> Entry] :
          /\ \A i \in Uid :
               LET his == {u \in DOMAIN f : UidOf[u] = i}
               IN  IF his = {} THEN e[i] = limiter[t][i] ELSE \E u \in his : e[i] = f[u]
          /\ limiter' = Set(limiter, t, e)
    BY <1>2 DEF UpdateInboundLimiter
  <2>2. DOMAIN limiter' = DOMAIN limiter
    BY <1>2, <2>1 DEF Set
  <2>3. limiter' \in [DOMAIN limiter' -> [Uid -> Entry]]
    BY <2>1, SetType
  <2>4. limiter'[t] = e /\ \A s \in DOMAIN limiter : s # t => limiter'[s] = limiter[s]
    BY <2>1 DEF Set
  <2>5. ASSUME NEW i \in Uid
        PROVE  \/ (\A u \in DOMAIN f : UidOf[u] # i) /\ e[i] = limiter[t][i]
               \/ \E u \in DOMAIN f : UidOf[u] = i /\ e[i] = f[u]
    BY <2>1
  <2> QED BY <2>2, <2>3, <2>4, <2>5
<1> QED BY <1>1, <1>2

\* After an update with no users the limiter is as before.
LEMMA UpdateNobody ==
  ASSUME limiter \in [DOMAIN limiter -> [Uid -> Entry]],
         NEW t, NEW f, DOMAIN f = {}, UpdateInboundLimiter(t, f)
  PROVE  \A s \in DOMAIN limiter : \A i \in Uid : limiter'[s][i] = limiter[s][i]
BY UpdateFacts

\* addUsers adds all the users, if they can be added, or damages the inbound.
LEMMA AddFacts ==
  ASSUME core \in [DOMAIN core -> SUBSET User], damage \in None .. Partial,
         NEW users \in SUBSET User, NEW done, addUsers(users, done)
  PROVE  /\ core' \in [DOMAIN core' -> SUBSET User]
         /\ DOMAIN core' = DOMAIN core
         /\ damage' = damage \/ damage' = Partial
         /\ tag \in DOMAIN core /\ (\A u \in users : ~Present(u)) =>
              \/ done = users /\ core'[tag] = core[tag] \cup users
              \/ damage' = Partial
<1>1. done \in SUBSET User
  BY DEF addUsers
<1>2. damage' = damage \/ damage' = Partial
  BY DEF addUsers, NoHarm, Does, None, Partial
<1>3. CASE tag \notin DOMAIN core
  BY <1>2, <1>3 DEF addUsers
<1>4. CASE tag \in DOMAIN core
  <2>1. core' = Set(core, tag, core[tag] \cup done)
    BY <1>4 DEF addUsers
  <2>2. core[tag] \cup done \in SUBSET User
    BY <1>1, <1>4
  <2>3. DOMAIN core' = DOMAIN core /\ core'[tag] = core[tag] \cup done
    BY <1>4, <2>1 DEF Set
  <2>4. core' \in [DOMAIN core' -> SUBSET User]
    BY <2>1, <2>2, SetType
  <2>5. (\A u \in users : ~Present(u)) => done = users \/ damage' = Partial
    BY <1>4 DEF addUsers, Does, Partial, None
  <2> QED BY <1>2, <2>3, <2>4, <2>5
<1> QED BY <1>3, <1>4

\* removeUsers removes all the users, if they are there.
LEMMA RemoveFacts ==
  ASSUME core \in [DOMAIN core -> SUBSET User],
         NEW users, NEW done, removeUsers(users, done)
  PROVE  /\ core' \in [DOMAIN core' -> SUBSET User]
         /\ DOMAIN core' = DOMAIN core
         /\ tag \in DOMAIN core /\ (\A u \in users : Present(u)) =>
              core'[tag] = {v \in core[tag] : \A u \in users : UidOf[u] # UidOf[v]}
<1>1. CASE tag \notin DOMAIN core
  BY <1>1 DEF removeUsers
<1>2. CASE tag \in DOMAIN core
  <2> DEFINE rest == {v \in core[tag] : \A u \in done : UidOf[u] # UidOf[v]}
  <2>1. core' = Set(core, tag, rest)
    BY <1>2 DEF removeUsers
  <2>2. rest \in SUBSET User
    BY <1>2
  <2>3. (\A u \in users : Present(u)) => done = users
    BY DEF removeUsers
  <2>4. core' \in [DOMAIN core' -> SUBSET User]
    BY <2>1, <2>2, SetType
  <2>5. DOMAIN core' = DOMAIN core /\ core'[tag] = rest
    BY <1>2, <2>1 DEF Set
  <2> QED BY <2>3, <2>4, <2>5
<1> QED BY <1>1, <1>2

(***************************************************************************)
(* The invariant holds at the start, and the steps of userInfoMonitor and  *)
(* of the panel keep it.                                                   *)
(***************************************************************************)

LEMMA InitInv == Init => Inv
<1> SUFFICES ASSUME Init PROVE Inv
  OBVIOUS
<1>1. /\ panel \in [node : Node, users : UserList]
      /\ etag = panel /\ mem = panel /\ damage = None
      /\ limited = {} /\ usr.slow = {} /\ usr.at = "idle"
  BY UserAssumption DEF Init, Rest
<1>2. mon = [at |-> "idle", node |-> "none", users |-> {}, oldTag |-> "none", current |-> FALSE]
  BY DEF Init, AtRest
<1>3. mem.users \in UserList /\ mem.users \in SUBSET User /\ {} \in UserList
  BY <1>1 DEF UserList
<1>4. core = [x \in {tag} |-> mem.users] /\ limiter = [x \in {tag} |-> LimitsOf(mem.users)]
  BY <1>1 DEF Init, One
<1>5. LimitsOf(mem.users) \in [Uid -> Entry]
  BY <1>3, LimitsOfFacts
<1>6. DOMAIN core = {tag} /\ core[tag] = mem.users /\ DOMAIN limiter = {tag}
      /\ limiter[tag] = LimitsOf(mem.users)
  BY <1>4
<1>7. Shape
  BY <1>1, <1>2, <1>3, <1>4, <1>5 DEF Shape, Steps
<1>8. InboundInv /\ ServedInv /\ LimiterInv
  BY <1>1, <1>2, <1>3, <1>6, LimitsOfFacts
     DEF InboundInv, ServedInv, Served, LimiterInv, Limiters, Settled
<1>9. ETagInv
  BY <1>1, <1>2 DEF ETagInv
<1>10. SlowIsReleased
  BY <1>3, <1>6, LimitsOfFacts DEF SlowIsReleased
<1> QED BY <1>7, <1>8, <1>9, <1>10 DEF Inv

\* Steps that leave core and limiter alone and release nobody.
LEMMA UserDataKeepsInv ==
  ASSUME Inv, UNCHANGED << nodeVars, limiter, damage >>,
         limited \subseteq limited', limited' \subseteq User, usr.slow' \subseteq limited',
         usr.at' # "read" => usr.slow' = {},
         AutoLimit = 0 => limited' = {}
  PROVE  Inv'
<1>1. UNCHANGED << panel, etag, mem, core, mon, limiter, damage >>
  BY DEF nodeVars
<1>2. Shape'
  BY <1>1 DEF Inv, Shape
<1>3. InboundInv' /\ ServedInv' /\ ETagInv'
  BY <1>1 DEF Inv, InboundInv, ServedInv, Served, ETagInv, tag
<1>4. LimiterInv'
  BY <1>1 DEF Inv, LimiterInv, Limiters, Settled, tag
<1>5. SlowIsReleased'
  BY <1>1 DEF Inv, SlowIsReleased, tag
<1> QED BY <1>2, <1>3, <1>4, <1>5 DEF Inv

LEMMA PanelKeepsInv ==
  ASSUME Inv, NEW new, new \in [node : Node, users : UserList], PanelChanges(new)
  PROVE  Inv'
<1>1. /\ panel' = new
      /\ mon' = [mon EXCEPT !.current = FALSE]
      /\ UNCHANGED << etag, mem, core, usr, limited, limiter, damage >>
  BY DEF PanelChanges, userVars
<1>2. mon' \in [at : Steps, node : Node \cup {"none"}, users : UserList,
                oldTag : Tag \cup {"none"}, current : BOOLEAN]
      /\ mon'.at = mon.at /\ mon'.node = mon.node /\ mon'.users = mon.users
      /\ mon'.oldTag = mon.oldTag /\ mon'.current = FALSE
  BY <1>1 DEF Inv, Shape
<1>3. Shape'
  BY <1>1, <1>2 DEF Inv, Shape
<1>4. InboundInv' /\ ServedInv'
  BY <1>1, <1>2 DEF Inv, InboundInv, ServedInv, Served, tag
<1>5. LimiterInv' /\ SlowIsReleased'
  BY <1>1, <1>2 DEF Inv, LimiterInv, Limiters, Settled, SlowIsReleased, tag
<1>6. ETagInv'
  BY <1>1, <1>2 DEF Inv, ETagInv
<1> QED BY <1>3, <1>4, <1>5, <1>6 DEF Inv

\* UpdateInboundLimiter, called by userInfoMonitor with users who are limited
\* from now on or who are not any more.
LEMMA LimitsKeepInv ==
  ASSUME Inv, UNCHANGED << nodeVars, damage >>,
         NEW f, UpdateInboundLimiter(tag, f), DOMAIN f \subseteq limited,
         limited' \subseteq limited, usr'.slow = {},
         \A u \in limited : u \in limited' \/ (u \in DOMAIN f /\ f[u] # "slow"),
         \A u \in DOMAIN f : f[u] = "slow" => u \in limited'
  PROVE  Inv'
<1>1. UNCHANGED << panel, etag, mem, core, mon, damage >>
  BY DEF nodeVars
<1>2. limiter \in [DOMAIN limiter -> [Uid -> Entry]] /\ limited \subseteq User
  BY DEF Inv, Shape
<1>3. /\ DOMAIN limiter' = DOMAIN limiter
      /\ limiter' \in [DOMAIN limiter' -> [Uid -> Entry]]
      /\ tag \in DOMAIN limiter => \A i \in Uid :
           \/ (\A u \in DOMAIN f : UidOf[u] # i) /\ limiter'[tag][i] = limiter[tag][i]
           \/ \E u \in DOMAIN f : UidOf[u] = i /\ limiter'[tag][i] = f[u]
  BY <1>2, UpdateFacts
<1>4. Shape'
  BY <1>1, <1>2, <1>3 DEF Inv, Shape
<1>5. InboundInv' /\ ServedInv' /\ ETagInv'
  BY <1>1 DEF Inv, InboundInv, ServedInv, Served, ETagInv, tag
<1>6. LimiterInv'
  <2>1. (damage <= Stale => DOMAIN limiter = Limiters)'
    BY <1>1, <1>3 DEF Inv, LimiterInv, Limiters, tag
  <2>2. (AutoLimit = 0 => limited = {})'
    BY DEF Inv, LimiterInv
  <2>3. ASSUME damage <= Stale, AutoLimit = 0, NEW u \in Settled
        PROVE  limiter'[tag][UidOf[u]] = u
    <3>1. DOMAIN f = {}
      BY <2>3 DEF Inv, LimiterInv
    <3>2. u \in User /\ UidOf[u] \in Uid
      BY DEF Inv, Shape, UserList, Settled, Uid
    <3>3. tag \in DOMAIN limiter
      BY <2>3 DEF Inv, LimiterInv, Limiters, Settled
    <3>4. limiter'[tag][UidOf[u]] = limiter[tag][UidOf[u]]
      BY <1>3, <3>1, <3>2, <3>3
    <3> QED BY <2>3, <3>4 DEF Inv, LimiterInv
  <2>4. Settled' = Settled /\ tag' = tag
    BY <1>1 DEF Settled, tag
  <2> QED BY <1>1, <2>1, <2>2, <2>3, <2>4 DEF LimiterInv
<1>7. SlowIsReleased'
  <2>1. tag' = tag /\ damage' = damage
    BY <1>1 DEF tag
  <2>2. ASSUME damage <= Down, tag \in DOMAIN limiter, NEW i \in Uid, limiter'[tag][i] = "slow"
        PROVE  \E u \in limited' : UidOf[u] = i
    <3>1. CASE (\A u \in DOMAIN f : UidOf[u] # i) /\ limiter'[tag][i] = limiter[tag][i]
      BY <2>2, <3>1 DEF Inv, SlowIsReleased
    <3>2. CASE \E u \in DOMAIN f : UidOf[u] = i /\ limiter'[tag][i] = f[u]
      BY <2>2, <3>2
    <3> QED BY <1>3, <2>2, <3>1, <3>2
  <2> QED BY <1>3, <2>1, <2>2 DEF SlowIsReleased
<1> QED BY <1>4, <1>5, <1>6, <1>7 DEF Inv

LEMMA UserMonitorKeepsInv ==
  ASSUME Inv, userInfoMonitor
  PROVE  Inv'
<1>0. limited \subseteq User /\ usr.slow \subseteq limited
      /\ (usr.at # "read" => usr.slow = {}) /\ (AutoLimit = 0 => limited = {})
  BY DEF Inv, Shape, LimiterInv
<1>1. CASE UserTick
  <2>1. PICK up \in SUBSET limited :
          limited' = limited \ up /\ UpdateInboundLimiter(tag, [u \in up |-> u])
    BY <1>1 DEF UserTick
  <2>2. usr'.slow = {} /\ UNCHANGED << nodeVars, damage >>
    BY <1>0, <1>1 DEF UserTick
  <2> DEFINE f == [u \in up |-> u]
  <2>3. \A u \in up : f[u] # "slow"
    BY <1>0, UserAssumption
  <2>4. DOMAIN f = up /\ UpdateInboundLimiter(tag, f)
    BY <2>1
  <2> HIDE DEF f
  <2>5. DOMAIN f \subseteq limited /\ limited' \subseteq limited
    BY <2>1, <2>4
  <2>6. \A u \in limited : u \in limited' \/ (u \in DOMAIN f /\ f[u] # "slow")
    BY <2>1, <2>3, <2>4
  <2>7. \A u \in DOMAIN f : f[u] = "slow" => u \in limited'
    BY <2>3, <2>4
  <2> QED BY <2>2, <2>4, <2>5, <2>6, <2>7, LimitsKeepInv
<1>2. CASE RangeUsers
  <2>1. usr'.at = "read" /\ usr'.slow = usr.slow /\ UNCHANGED << nodeVars, limited, limiter, damage >>
    BY <1>2 DEF RangeUsers
  <2> QED BY <1>0, <2>1, UserDataKeepsInv
<1>3. ASSUME NEW u \in User, getTraffic(u) PROVE Inv'
  <2> DEFINE over   == Overspeed(u, Bytes(<< tag, UidOf[u] >>))
             punish == over /\ LastWarning(u)
  <2>1. /\ usr.at = "read"
        /\ limited' = IF punish THEN limited \cup {u} ELSE limited
        /\ usr'.at = "read"
        /\ usr'.slow = IF punish THEN usr.slow \cup {u} ELSE usr.slow
        /\ UNCHANGED << nodeVars, limiter, damage >>
    BY <1>3 DEF getTraffic
  <2>2. AutoLimit = 0 => ~punish
    BY DEF Overspeed
  <2> HIDE DEF punish
  <2> QED BY <1>0, <2>1, <2>2, UserDataKeepsInv
<1>4. CASE LimitUsers
  <2> DEFINE f == [u \in usr.slow |-> "slow"]
  <2>1. /\ DOMAIN f = usr.slow /\ UpdateInboundLimiter(tag, f)
        /\ usr'.slow = {} /\ UNCHANGED << nodeVars, limited, damage >>
    BY <1>4 DEF LimitUsers
  <2> HIDE DEF f
  <2>2. /\ DOMAIN f \subseteq limited /\ limited' \subseteq limited
        /\ \A u \in limited : u \in limited' \/ (u \in DOMAIN f /\ f[u] # "slow")
        /\ \A u \in DOMAIN f : f[u] = "slow" => u \in limited'
    BY <1>0, <2>1
  <2> QED BY <2>1, <2>2, LimitsKeepInv
<1>5. CASE ReportUserTraffic
  <2>0. usr.slow = {} /\ UNCHANGED << nodeVars, limited, limiter, damage >>
    BY <1>0, <1>5 DEF ReportUserTraffic
  <2>1. usr' = Rest \/ usr' = [usr EXCEPT !.at = "reset"]
    BY <1>5 DEF ReportUserTraffic
  <2>2. CASE usr' = Rest
    BY <1>0, <2>0, <2>2, UserDataKeepsInv DEF Rest
  <2>3. CASE usr' = [usr EXCEPT !.at = "reset"]
    <3>1. usr'.slow = {}
      BY <2>0, <2>3
    <3> QED BY <1>0, <2>0, <3>1, UserDataKeepsInv
  <2> QED BY <2>1, <2>2, <2>3
<1>6. ASSUME NEW k, resetTraffic(k) PROVE Inv'
  <2>1. usr.slow = {} /\ UNCHANGED << nodeVars, limited, limiter, damage >>
    BY <1>0, <1>6 DEF resetTraffic
  <2>2. usr' = Rest \/ usr' = [usr EXCEPT !.read = Restrict(@, DOMAIN usr.read \ {k})]
    BY <1>6 DEF resetTraffic
  <2>3. CASE usr' = Rest
    BY <1>0, <2>1, <2>3, UserDataKeepsInv DEF Rest
  <2>4. CASE usr' = [usr EXCEPT !.read = Restrict(@, DOMAIN usr.read \ {k})]
    <3>1. usr'.slow = {}
      BY <2>1, <2>4
    <3> QED BY <1>0, <2>1, <3>1, UserDataKeepsInv
  <2> QED BY <2>2, <2>3, <2>4
<1> QED BY <1>1, <1>2, <1>3, <1>4, <1>5, <1>6 DEF userInfoMonitor

(***************************************************************************)
(* So do the steps of nodeInfoMonitor.                                     *)
(***************************************************************************)

LEMMA GetNodeInfoKeepsInv ==
  ASSUME Inv, GetNodeInfo
  PROVE  Inv'
<1>1. mon.at = "idle" /\ UNCHANGED << panel, mem, core, usr, limited, limiter, damage >>
  BY DEF GetNodeInfo, userVars
<1>2. CASE GiveUp /\ UNCHANGED etag
  <2>1. mon' = [at |-> "idle", node |-> "none", users |-> {}, oldTag |-> "none", current |-> FALSE]
    BY <1>2 DEF GiveUp, AtRest
  <2>2. Shape'
    BY <1>1, <1>2, <2>1 DEF Inv, Shape, Steps, UserList
  <2>3. InboundInv' /\ ServedInv' /\ LimiterInv' /\ SlowIsReleased'
    BY <1>1, <2>1 DEF Inv, InboundInv, ServedInv, Served, LimiterInv, Limiters, Settled, SlowIsReleased, tag
  <2>4. ETagInv'
    BY <1>1, <1>2, <2>1 DEF Inv, ETagInv
  <2> QED BY <2>2, <2>3, <2>4 DEF Inv
<1>3. ASSUME NEW n, n = IF etag.node = panel.node THEN mem.node ELSE panel.node,
             etag' = [etag EXCEPT !.node = panel.node], TakeNode(n)
      PROVE  Inv'
  <2>1. n \in Node /\ mon'.at \in {"users", "dead"} /\ mon'.node = n /\ mon'.current = TRUE
        /\ mon' \in [at : Steps, node : Node \cup {"none"}, users : UserList,
                     oldTag : Tag \cup {"none"}, current : BOOLEAN]
    BY <1>3 DEF Inv, Shape, TakeNode, Steps
  <2>2. etag' \in [node : Node, users : UserList] /\ etag'.node = panel.node /\ etag'.users = etag.users
    BY <1>3 DEF Inv, Shape
  <2>3. Shape'
    BY <1>1, <2>1, <2>2 DEF Inv, Shape
  <2>4. InboundInv' /\ ServedInv' /\ LimiterInv' /\ SlowIsReleased'
    BY <1>1, <2>1 DEF Inv, InboundInv, ServedInv, Served, LimiterInv, Limiters, Settled, SlowIsReleased, tag
  <2>5. ETagInv'
    BY <1>1, <1>3, <2>1, <2>2 DEF Inv, ETagInv
  <2> QED BY <2>3, <2>4, <2>5 DEF Inv
<1> QED BY <1>2, <1>3 DEF GetNodeInfo

LEMMA GetUserListKeepsInv ==
  ASSUME Inv, GetUserList
  PROVE  Inv'
<1>1. mon.at = "users" /\ UNCHANGED << panel, mem, core, usr, limited, limiter >>
  BY DEF GetUserList, userVars
<1>2. CASE GiveUp /\ Does(IF mon.node # mem.node THEN Stale ELSE None) /\ UNCHANGED etag
  <2>1. mon' = [at |-> "idle", node |-> "none", users |-> {}, oldTag |-> "none", current |-> FALSE]
    BY <1>2 DEF GiveUp, AtRest
  <2>2. /\ damage' \in None .. Partial
        /\ damage' <= Stale <=> damage <= Stale
        /\ damage' = Down <=> damage = Down
        /\ damage' <= Down <=> damage <= Down
        /\ damage' = None => damage = None /\ mon.node = mem.node
    BY <1>2 DEF Does, Inv, Shape
  <2>3. Shape'
    BY <1>1, <1>2, <2>1, <2>2 DEF Inv, Shape, Steps, UserList
  <2>4. InboundInv' /\ ServedInv' /\ LimiterInv' /\ SlowIsReleased'
    BY <1>1, <2>1, <2>2
       DEF Inv, InboundInv, ServedInv, Served, LimiterInv, Limiters, Settled, SlowIsReleased, tag
  <2>5. ETagInv'
    BY <1>1, <1>2, <2>1, <2>2 DEF Inv, Shape, ETagInv
  <2> QED BY <2>3, <2>4, <2>5 DEF Inv
<1>3. ASSUME NoHarm, etag' = [etag EXCEPT !.users = panel.users],
             mon' = [mon EXCEPT
               !.at    = IF mon.node = mem.node THEN "drop" ELSE "remove",
               !.users = IF etag.users = panel.users THEN mem.users ELSE panel.users]
      PROVE  Inv'
  <2>1. /\ mon' \in [at : Steps, node : Node \cup {"none"}, users : UserList,
                     oldTag : Tag \cup {"none"}, current : BOOLEAN]
        /\ mon'.at = (IF mon.node = mem.node THEN "drop" ELSE "remove")
        /\ mon'.node = mon.node /\ mon'.current = mon.current
        /\ mon'.users = IF etag.users = panel.users THEN mem.users ELSE panel.users
    BY <1>3 DEF Inv, Shape, Steps
  <2>2. etag' \in [node : Node, users : UserList] /\ etag'.users = panel.users /\ etag'.node = etag.node
    BY <1>3 DEF Inv, Shape
  <2>3. damage' = damage
    BY <1>3 DEF NoHarm
  <2>4. Shape'
    BY <1>1, <2>1, <2>2, <2>3 DEF Inv, Shape
  <2>5. InboundInv' /\ ServedInv' /\ LimiterInv' /\ SlowIsReleased'
    BY <1>1, <2>1, <2>3
       DEF Inv, InboundInv, ServedInv, Served, LimiterInv, Limiters, Settled, SlowIsReleased, tag
  <2>6. ETagInv'
    BY <1>1, <2>1, <2>2, <2>3 DEF Inv, Shape, ETagInv
  <2> QED BY <2>4, <2>5, <2>6 DEF Inv
<1> QED BY <1>2, <1>3 DEF GetUserList

LEMMA RemoveOldTagKeepsInv ==
  ASSUME Inv, removeOldTag
  PROVE  Inv'
<1>1. mon.at = "remove" /\ UNCHANGED << panel, etag, mem, usr, limited, limiter, damage >>
  BY DEF removeOldTag, userVars
<1>2. CASE tag \in DOMAIN core
  <2>1. core' = Restrict(core, DOMAIN core \ {tag}) /\ mon' = [mon EXCEPT !.at = "add"]
    BY <1>2 DEF removeOldTag, MonGoto
  <2>2. DOMAIN core' = {} /\ core' \in [DOMAIN core' -> SUBSET User]
    BY <2>1 DEF Restrict, Inv, Shape, InboundInv
  <2>3. Shape'
    BY <1>1, <2>1, <2>2 DEF Inv, Shape, Steps
  <2>4. mon'.at = "add" /\ mon'.node = mon.node /\ mon'.users = mon.users /\ mon'.current = mon.current
    BY <2>1 DEF Inv, Shape
  <2>5. damage # Down
    BY <1>2 DEF Inv, InboundInv
  <2>6. InboundInv' /\ ServedInv' /\ LimiterInv' /\ SlowIsReleased'
    BY <1>1, <2>2, <2>4, <2>5
       DEF Inv, InboundInv, ServedInv, Served, LimiterInv, Limiters, Settled, SlowIsReleased, tag
  <2>7. ETagInv'
    BY <1>1, <2>4 DEF Inv, ETagInv
  <2> QED BY <2>3, <2>6, <2>7 DEF Inv
<1>3. CASE tag \notin DOMAIN core
  <2>1. mon' = [at |-> "idle", node |-> "none", users |-> {}, oldTag |-> "none", current |-> FALSE]
        /\ core' = core
    BY <1>3 DEF removeOldTag, GiveUp, AtRest
  <2>2. ~(damage <= Stale)
    BY <1>1, <1>3 DEF Inv, InboundInv
  <2>3. Shape'
    BY <1>1, <2>1 DEF Inv, Shape, Steps, UserList
  <2>4. InboundInv' /\ ServedInv' /\ LimiterInv' /\ SlowIsReleased'
    BY <1>1, <2>1, <2>2 DEF Inv, InboundInv, ServedInv, LimiterInv, SlowIsReleased, tag
  <2>5. ETagInv'
    BY <1>1, <2>1, <2>2 DEF Inv, ETagInv
  <2> QED BY <2>3, <2>4, <2>5 DEF Inv
<1> QED BY <1>2, <1>3

LEMMA AddNewTagKeepsInv ==
  ASSUME Inv, addNewTag
  PROVE  Inv'
<1>1. mon.at = "add" /\ UNCHANGED << panel, etag, usr, limited, limiter >>
      /\ mem' = [mem EXCEPT !.node = mon.node]
  BY DEF addNewTag, userVars
<1>2. mem' \in [node : Node, users : UserList] /\ mem'.node = mon.node /\ mem'.users = mem.users
      /\ tag' = TagOf[mon.node] /\ TagOf[mon.node] \in Tag
  BY <1>1 DEF Inv, Shape, tag, Tag
<1>3. DOMAIN core = {} /\ damage # Down /\ damage \in None .. Partial
  BY <1>1 DEF Inv, InboundInv, Shape
<1>4. /\ damage <= Stale => DOMAIN limiter = {tag}
      /\ AutoLimit = 0 => limited = {}
  BY <1>1 DEF Inv, LimiterInv, Limiters
<1>5. CASE Does(Down) /\ GiveUp /\ UNCHANGED core
  <2>1. mon' = [at |-> "idle", node |-> "none", users |-> {}, oldTag |-> "none", current |-> FALSE]
    BY <1>5 DEF GiveUp, AtRest
  <2>2. damage' \in None .. Partial /\ ~(damage' <= Stale) /\ (damage' = Down => damage <= Stale)
        /\ (damage' <= Down => damage <= Down)
    BY <1>3, <1>5 DEF Does
  <2>3. Shape'
    BY <1>1, <1>2, <1>5, <2>1, <2>2 DEF Inv, Shape, Steps, UserList
  <2>4. InboundInv' /\ ServedInv' /\ LimiterInv'
    BY <1>1, <1>2, <1>3, <1>4, <1>5, <2>1, <2>2 DEF InboundInv, ServedInv, LimiterInv
  <2>5. ETagInv'
    BY <2>1, <2>2 DEF ETagInv
  <2>6. SlowIsReleased'
    <3>1. ASSUME damage' <= Down, tag' \in DOMAIN limiter PROVE tag' = tag
      BY <1>3, <1>4, <2>2, <3>1
    <3> QED BY <1>1, <2>2, <3>1 DEF Inv, SlowIsReleased
  <2> QED BY <2>3, <2>4, <2>5, <2>6 DEF Inv
<1>6. CASE core' = Set(core, TagOf[mon.node], {})
  <2>1. DOMAIN core' = {tag'} /\ core'[tag'] = {} /\ core' \in [DOMAIN core' -> SUBSET User]
    BY <1>2, <1>3, <1>6 DEF Set
  <2>2. CASE Does(Partial) /\ GiveUp
    <3>1. mon' = [at |-> "idle", node |-> "none", users |-> {}, oldTag |-> "none", current |-> FALSE]
      BY <2>2 DEF GiveUp, AtRest
    <3>2. damage' = Partial
      BY <1>3, <2>2 DEF Does
    <3>3. Shape'
      BY <1>1, <1>2, <2>1, <3>1, <3>2 DEF Inv, Shape, Steps, UserList
    <3>4. InboundInv' /\ ServedInv' /\ LimiterInv' /\ SlowIsReleased'
      BY <1>1, <1>4, <2>1, <3>1, <3>2 DEF InboundInv, ServedInv, LimiterInv, SlowIsReleased
    <3>5. ETagInv'
      BY <3>1, <3>2 DEF ETagInv
    <3> QED BY <3>3, <3>4, <3>5 DEF Inv
  <2>3. CASE NoHarm /\ mon' = [mon EXCEPT !.at = "unlimit", !.oldTag = tag]
    <3>0. tag \in Tag
      BY DEF Inv, Shape, tag, Tag
    <3>1. /\ mon' \in [at : Steps, node : Node \cup {"none"}, users : UserList,
                       oldTag : Tag \cup {"none"}, current : BOOLEAN]
          /\ mon'.at = "unlimit" /\ mon'.oldTag = tag /\ mon'.node = mon.node
          /\ mon'.users = mon.users /\ mon'.current = mon.current
      BY <2>3, <3>0 DEF Inv, Shape, Steps
    <3>2. damage' = damage
      BY <2>3 DEF NoHarm
    <3>3. Shape'
      BY <1>1, <1>2, <2>1, <3>1, <3>2 DEF Inv, Shape
    <3>4. InboundInv' /\ ServedInv'
      BY <1>3, <2>1, <3>1, <3>2 DEF InboundInv, ServedInv, Served
    <3>5. LimiterInv'
      BY <1>1, <1>4, <3>1, <3>2 DEF LimiterInv, Limiters, Settled
    <3>6. ETagInv'
      BY <1>1, <1>2, <3>1, <3>2 DEF Inv, ETagInv
    <3>7. SlowIsReleased'
      <4>1. ASSUME damage <= Down, tag' \in DOMAIN limiter PROVE tag' = tag
        BY <1>3, <1>4, <4>1
      <4> QED BY <1>1, <3>2, <4>1 DEF Inv, SlowIsReleased
    <3> QED BY <3>3, <3>4, <3>5, <3>6, <3>7 DEF Inv
  <2> QED BY <1>6, <2>2, <2>3, <1>5 DEF addNewTag
<1> QED BY <1>5, <1>6 DEF addNewTag

LEMMA DeleteLimiterKeepsInv ==
  ASSUME Inv, DeleteInboundLimiter
  PROVE  Inv'
<1>1. mon.at = "unlimit" /\ UNCHANGED << panel, etag, mem, core, usr, limited, damage >>
      /\ limiter' = Restrict(limiter, DOMAIN limiter \ {mon.oldTag})
      /\ mon' = [mon EXCEPT !.at = "fill", !.oldTag = "none"]
  BY DEF DeleteInboundLimiter, userVars
<1>2. /\ mon' \in [at : Steps, node : Node \cup {"none"}, users : UserList,
                   oldTag : Tag \cup {"none"}, current : BOOLEAN]
      /\ mon'.at = "fill" /\ mon'.node = mon.node
      /\ mon'.users = mon.users /\ mon'.current = mon.current
  BY <1>1 DEF Inv, Shape, Steps
<1>3. /\ DOMAIN limiter' = DOMAIN limiter \ {mon.oldTag}
      /\ limiter' \in [DOMAIN limiter' -> [Uid -> Entry]]
      /\ \A t \in DOMAIN limiter' : limiter'[t] = limiter[t]
  BY <1>1 DEF Restrict, Inv, Shape
<1>4. Shape'
  BY <1>1, <1>2, <1>3 DEF Inv, Shape
<1>5. InboundInv' /\ ServedInv'
  BY <1>1, <1>2 DEF Inv, InboundInv, ServedInv, Served, tag
<1>6. LimiterInv'
  BY <1>1, <1>2, <1>3 DEF Inv, LimiterInv, Limiters, Settled, tag
<1>7. ETagInv'
  BY <1>1, <1>2 DEF Inv, ETagInv
<1>8. SlowIsReleased'
  BY <1>1, <1>3 DEF Inv, SlowIsReleased, tag
<1> QED BY <1>4, <1>5, <1>6, <1>7, <1>8 DEF Inv

LEMMA FillInboundKeepsInv ==
  ASSUME Inv, FillInbound
  PROVE  Inv'
<1>1. mon.at = "fill" /\ UNCHANGED << panel, etag, mem, usr, limited, limiter >>
  BY DEF FillInbound, userVars
<1>2. PICK done : /\ addUsers(mon.users, done)
                  /\ IF done = mon.users THEN MonGoto("limit") ELSE GiveUp
  BY DEF FillInbound
<1>3. /\ core \in [DOMAIN core -> SUBSET User] /\ damage \in None .. Partial
      /\ mon.users \in SUBSET User /\ DOMAIN core \subseteq {tag} /\ damage # Down
      /\ damage <= Stale => tag \in DOMAIN core /\ core[tag] = {} /\ DOMAIN limiter = {}
  BY <1>1 DEF Inv, Shape, UserList, InboundInv, ServedInv, Served, LimiterInv, Limiters
<1>4. /\ core' \in [DOMAIN core' -> SUBSET User]
      /\ DOMAIN core' = DOMAIN core
      /\ damage' = damage \/ damage' = Partial
      /\ tag \in DOMAIN core /\ (\A u \in mon.users : ~Present(u)) =>
           \/ done = mon.users /\ core'[tag] = core[tag] \cup mon.users
           \/ damage' = Partial
  BY <1>2, <1>3, AddFacts
<1>5. ASSUME damage' <= Stale PROVE done = mon.users /\ core'[tag] = mon.users
  <2>1. damage <= Stale /\ damage' # Partial
    BY <1>3, <1>4, <1>5
  <2>2. tag \in DOMAIN core /\ core[tag] = {}
    BY <1>3, <2>1
  <2>3. \A u \in mon.users : ~Present(u)
    BY <2>2 DEF Present
  <2> QED BY <1>4, <2>1, <2>2, <2>3
<1>6. tag' = tag
  BY <1>1 DEF tag
<1>7. CASE done = mon.users
  <2>1. mon' = [mon EXCEPT !.at = "limit"]
    BY <1>2, <1>7 DEF MonGoto
  <2>2. /\ mon' \in [at : Steps, node : Node \cup {"none"}, users : UserList,
                     oldTag : Tag \cup {"none"}, current : BOOLEAN]
        /\ mon'.at = "limit" /\ mon'.node = mon.node
        /\ mon'.users = mon.users /\ mon'.current = mon.current
    BY <2>1 DEF Inv, Shape, Steps
  <2>3. Shape'
    BY <1>1, <1>3, <1>4, <2>2 DEF Inv, Shape
  <2>4. InboundInv' /\ ServedInv'
    BY <1>3, <1>4, <1>5, <1>6, <2>2 DEF InboundInv, ServedInv, Served
  <2>5. LimiterInv'
    BY <1>1, <1>3, <1>4, <1>6, <2>2 DEF Inv, LimiterInv, Limiters, Settled
  <2>6. ETagInv'
    BY <1>1, <1>3, <1>4, <2>2 DEF Inv, ETagInv
  <2>7. SlowIsReleased'
    BY <1>1, <1>4, <1>6 DEF Inv, SlowIsReleased
  <2> QED BY <2>3, <2>4, <2>5, <2>6, <2>7 DEF Inv
<1>8. CASE done # mon.users
  <2>1. mon' = [at |-> "idle", node |-> "none", users |-> {}, oldTag |-> "none", current |-> FALSE]
    BY <1>2, <1>8 DEF GiveUp, AtRest
  <2>2. damage' \in None .. Partial /\ ~(damage' <= Stale) /\ damage' # Down
    BY <1>3, <1>4, <1>5, <1>8
  <2>3. Shape'
    BY <1>1, <1>4, <2>1, <2>2 DEF Inv, Shape, Steps, UserList
  <2>4. InboundInv' /\ ServedInv' /\ LimiterInv' /\ SlowIsReleased'
    BY <1>1, <1>3, <1>4, <1>6, <2>1, <2>2 DEF Inv, InboundInv, ServedInv, LimiterInv, SlowIsReleased
  <2>5. ETagInv'
    BY <2>1, <2>2 DEF ETagInv
  <2> QED BY <2>3, <2>4, <2>5 DEF Inv
<1> QED BY <1>7, <1>8

\* A run that is complete: the controller remembers the users, and both the
\* core and the limiter have them.
LEMMA FinishKeepsInv ==
  ASSUME Inv, Finish, UNCHANGED << panel, etag, usr, limited, damage >>,
         mon.at \in {"limit", "drop", "update"},
         core' \in [DOMAIN core' -> SUBSET User], DOMAIN core' = DOMAIN core,
         damage <= Stale => core'[tag] = mon.users,
         limiter' \in [DOMAIN limiter' -> [Uid -> Entry]],
         damage <= Stale => DOMAIN limiter' = {tag},
         damage <= Stale /\ AutoLimit = 0 => \A u \in mon.users : limiter'[tag][UidOf[u]] = u,
         damage <= Down /\ tag \in DOMAIN limiter' =>
           \A i \in Uid : limiter'[tag][i] = "slow" => \E u \in limited : UidOf[u] = i
  PROVE  Inv'
<1>1. mem' = [mem EXCEPT !.users = mon.users]
      /\ mon' = [at |-> "idle", node |-> "none", users |-> {}, oldTag |-> "none", current |-> mon.current]
  BY DEF Finish, AtRest
<1>2. mem' \in [node : Node, users : UserList] /\ mem'.node = mem.node /\ mem'.users = mon.users
      /\ mon.users \in UserList
  BY <1>1 DEF Inv, Shape
<1>3. tag' = tag
  BY <1>2 DEF tag
<1>4. mon' \in [at : Steps, node : Node \cup {"none"}, users : UserList,
                oldTag : Tag \cup {"none"}, current : BOOLEAN]
  BY <1>1 DEF Inv, Shape, Steps, UserList
<1>5. Shape'
  BY <1>1, <1>2, <1>4 DEF Inv, Shape
<1>6. InboundInv' /\ ServedInv'
  BY <1>1, <1>2, <1>3 DEF Inv, InboundInv, ServedInv, Served
<1>7. LimiterInv'
  BY <1>1, <1>2, <1>3 DEF Inv, LimiterInv, Limiters, Settled
<1>8. ETagInv'
  BY <1>1, <1>2 DEF Inv, Shape, ETagInv
<1>9. SlowIsReleased'
  BY <1>3 DEF SlowIsReleased
<1> QED BY <1>5, <1>6, <1>7, <1>8, <1>9 DEF Inv

LEMMA AddLimiterKeepsInv ==
  ASSUME Inv, AddInboundLimiter
  PROVE  Inv'
<1>1. mon.at = "limit" /\ UNCHANGED << panel, etag, core, usr, limited, damage >> /\ Finish
      /\ limiter' = Set(limiter, tag, LimitsOf(mon.users))
  BY DEF AddInboundLimiter, userVars
<1>2. mon.users \in UserList /\ mon.users \in SUBSET User
  BY DEF Inv, Shape, UserList
<1>3. /\ LimitsOf(mon.users) \in [Uid -> Entry]
      /\ \A i \in Uid : LimitsOf(mon.users)[i] # "slow"
      /\ \A u \in mon.users : LimitsOf(mon.users)[UidOf[u]] = u
  BY <1>2, LimitsOfFacts
<1>4. /\ limiter' \in [DOMAIN limiter' -> [Uid -> Entry]]
      /\ DOMAIN limiter' = DOMAIN limiter \cup {tag}
      /\ limiter'[tag] = LimitsOf(mon.users)
  BY <1>1, <1>3 DEF Set, Inv, Shape
<1>5. damage <= Stale => DOMAIN limiter' = {tag} /\ core'[tag] = mon.users
  BY <1>1, <1>4 DEF Inv, LimiterInv, Limiters, ServedInv, Served
<1>6. core' \in [DOMAIN core' -> SUBSET User] /\ DOMAIN core' = DOMAIN core
  BY <1>1 DEF Inv, Shape
<1> QED BY <1>1, <1>3, <1>4, <1>5, <1>6, FinishKeepsInv

LEMMA DropUsersKeepsInv ==
  ASSUME Inv, DropUsers
  PROVE  Inv'
<1>1. mon.at = "drop" /\ UNCHANGED << panel, etag, usr, limited, limiter, damage >>
      /\ IF added = {} THEN Finish ELSE MonGoto("join") /\ UNCHANGED mem
  BY DEF DropUsers, userVars
<1>2. PICK done : removeUsers(deleted, done)
  BY DEF DropUsers
<1>3. /\ core \in [DOMAIN core -> SUBSET User] /\ limiter \in [DOMAIN limiter -> [Uid -> Entry]]
      /\ mem.users \in UserList /\ mem.users \in SUBSET User
      /\ mon.users \in UserList
      /\ damage <= Stale => tag \in DOMAIN core /\ core[tag] = mem.users /\ DOMAIN limiter = {tag}
      /\ damage <= Stale /\ AutoLimit = 0 => \A u \in mem.users : limiter[tag][UidOf[u]] = u
  BY <1>1 DEF Inv, Shape, UserList, InboundInv, ServedInv, Served, LimiterInv, Limiters, Settled
<1>4. /\ core' \in [DOMAIN core' -> SUBSET User]
      /\ DOMAIN core' = DOMAIN core
      /\ tag \in DOMAIN core /\ (\A u \in deleted : Present(u)) =>
           core'[tag] = {v \in core[tag] : \A u \in deleted : UidOf[u] # UidOf[v]}
  BY <1>2, <1>3, RemoveFacts
<1>5. ASSUME damage <= Stale PROVE core'[tag] = mem.users \cap mon.users
  <2>1. \A u \in deleted : Present(u)
    BY <1>3, <1>5 DEF deleted, Present
  <2>2. core'[tag] = {v \in mem.users : \A u \in deleted : UidOf[u] # UidOf[v]}
    BY <1>3, <1>4, <1>5, <2>1
  <2>3. \A v \in mem.users : (\A u \in deleted : UidOf[u] # UidOf[v]) <=> v \in mon.users
    BY <1>3 DEF deleted, UserList
  <2> QED BY <2>2, <2>3
<1>6. CASE added = {}
  <2>1. mon.users \subseteq mem.users /\ Finish
    BY <1>1, <1>6 DEF added
  <2>2. damage <= Stale => core'[tag] = mon.users
    BY <1>5, <2>1
  <2>3. limiter' = limiter /\ (damage <= Stale => DOMAIN limiter' = {tag})
    BY <1>1, <1>3
  <2>4. damage <= Stale /\ AutoLimit = 0 => \A u \in mon.users : limiter'[tag][UidOf[u]] = u
    BY <1>3, <2>1, <2>3
  <2>5. damage <= Down /\ tag \in DOMAIN limiter' =>
          \A i \in Uid : limiter'[tag][i] = "slow" => \E u \in limited : UidOf[u] = i
    BY <2>3 DEF Inv, SlowIsReleased
  <2>6. limiter' \in [DOMAIN limiter' -> [Uid -> Entry]]
    BY <1>3, <2>3
  <2> QED BY <1>1, <1>4, <2>1, <2>2, <2>3, <2>4, <2>5, <2>6, FinishKeepsInv
<1>7. CASE added # {}
  <2>1. mon' = [mon EXCEPT !.at = "join"] /\ mem' = mem
    BY <1>1, <1>7 DEF MonGoto
  <2>2. /\ mon' \in [at : Steps, node : Node \cup {"none"}, users : UserList,
                     oldTag : Tag \cup {"none"}, current : BOOLEAN]
        /\ mon'.at = "join" /\ mon'.node = mon.node
        /\ mon'.users = mon.users /\ mon'.current = mon.current
    BY <2>1 DEF Inv, Shape, Steps
  <2>3. Shape'
    BY <1>1, <1>4, <2>1, <2>2 DEF Inv, Shape
  <2>4. InboundInv' /\ ServedInv'
    BY <1>1, <1>4, <1>5, <2>1, <2>2 DEF Inv, InboundInv, ServedInv, Served, tag
  <2>5. LimiterInv' /\ SlowIsReleased'
    BY <1>1, <2>1, <2>2 DEF Inv, LimiterInv, Limiters, Settled, SlowIsReleased, tag
  <2>6. ETagInv'
    BY <1>1, <2>1, <2>2 DEF Inv, ETagInv
  <2> QED BY <2>3, <2>4, <2>5, <2>6 DEF Inv
<1> QED BY <1>6, <1>7

LEMMA JoinUsersKeepsInv ==
  ASSUME Inv, JoinUsers
  PROVE  Inv'
<1>1. mon.at = "join" /\ UNCHANGED << panel, etag, mem, usr, limited, limiter >>
      /\ mon' = [mon EXCEPT !.at = "update"]
  BY DEF JoinUsers, MonGoto, userVars
<1>2. PICK done : addUsers(added, done)
  BY DEF JoinUsers
<1>3. /\ core \in [DOMAIN core -> SUBSET User] /\ damage \in None .. Partial
      /\ mon.users \in UserList /\ added \in SUBSET User
      /\ damage <= Stale => tag \in DOMAIN core /\ core[tag] = mem.users \cap mon.users
  BY <1>1 DEF Inv, Shape, UserList, InboundInv, ServedInv, Served, added
<1>4. /\ core' \in [DOMAIN core' -> SUBSET User]
      /\ DOMAIN core' = DOMAIN core
      /\ damage' = damage \/ damage' = Partial
      /\ tag \in DOMAIN core /\ (\A u \in added : ~Present(u)) =>
           \/ done = added /\ core'[tag] = core[tag] \cup added
           \/ damage' = Partial
  BY <1>2, <1>3, AddFacts
<1>5. ASSUME damage' <= Stale PROVE core'[tag] = mon.users
  <2>1. damage <= Stale /\ damage' # Partial
    BY <1>3, <1>4, <1>5
  <2>2. \A u \in added : ~Present(u)
    BY <1>3, <2>1 DEF added, Present, UserList
  <2>3. core'[tag] = (mem.users \cap mon.users) \cup added
    BY <1>3, <1>4, <2>1, <2>2
  <2> QED BY <2>3 DEF added
<1>6. /\ mon' \in [at : Steps, node : Node \cup {"none"}, users : UserList,
                   oldTag : Tag \cup {"none"}, current : BOOLEAN]
      /\ mon'.at = "update" /\ mon'.node = mon.node
      /\ mon'.users = mon.users /\ mon'.current = mon.current
  BY <1>1 DEF Inv, Shape, Steps
<1>7. tag' = tag /\ damage' \in None .. Partial
  BY <1>1, <1>3, <1>4 DEF tag
<1>8. Shape'
  BY <1>1, <1>4, <1>6, <1>7 DEF Inv, Shape
<1>9. InboundInv' /\ ServedInv'
  BY <1>1, <1>3, <1>4, <1>5, <1>6, <1>7 DEF Inv, InboundInv, ServedInv, Served
<1>10. LimiterInv' /\ SlowIsReleased'
  BY <1>1, <1>3, <1>4, <1>6, <1>7 DEF Inv, LimiterInv, Limiters, Settled, SlowIsReleased
<1>11. ETagInv'
  BY <1>1, <1>3, <1>4, <1>6 DEF Inv, ETagInv
<1> QED BY <1>8, <1>9, <1>10, <1>11 DEF Inv

LEMMA LimitJoinedKeepsInv ==
  ASSUME Inv, LimitJoined
  PROVE  Inv'
<1> DEFINE f == [u \in added |-> u]
<1>1. mon.at = "update" /\ UNCHANGED << panel, etag, core, usr, limited, damage >> /\ Finish
      /\ UpdateInboundLimiter(tag, f)
  BY DEF LimitJoined, userVars
<1>2. DOMAIN f = added /\ \A u \in added : f[u] = u
  OBVIOUS
<1> HIDE DEF f
<1>3. /\ core \in [DOMAIN core -> SUBSET User] /\ limiter \in [DOMAIN limiter -> [Uid -> Entry]]
      /\ mon.users \in UserList /\ added \subseteq User /\ mon.users \subseteq User
      /\ damage <= Stale => core[tag] = mon.users /\ DOMAIN limiter = {tag}
      /\ damage <= Stale /\ AutoLimit = 0 =>
           \A u \in mem.users \cap mon.users : limiter[tag][UidOf[u]] = u
  BY <1>1 DEF Inv, Shape, UserList, ServedInv, Served, LimiterInv, Limiters, Settled, added
<1>4. /\ DOMAIN limiter' = DOMAIN limiter
      /\ limiter' \in [DOMAIN limiter' -> [Uid -> Entry]]
      /\ tag \in DOMAIN limiter => \A i \in Uid :
           \/ (\A u \in DOMAIN f : UidOf[u] # i) /\ limiter'[tag][i] = limiter[tag][i]
           \/ \E u \in DOMAIN f : UidOf[u] = i /\ limiter'[tag][i] = f[u]
  BY <1>1, <1>3, UpdateFacts
<1>5. ASSUME damage <= Stale, AutoLimit = 0, NEW u \in mon.users
      PROVE  limiter'[tag][UidOf[u]] = u
  <2>1. UidOf[u] \in Uid /\ tag \in DOMAIN limiter
    BY <1>3, <1>5 DEF Uid
  <2>2. CASE u \in added
    BY <1>2, <1>3, <1>4, <2>1, <2>2 DEF added, UserList
  <2>3. CASE u \notin added
    <3>1. \A v \in DOMAIN f : UidOf[v] # UidOf[u]
      BY <1>2, <1>3, <2>3 DEF added, UserList
    <3>2. limiter'[tag][UidOf[u]] = limiter[tag][UidOf[u]]
      BY <1>4, <2>1, <3>1
    <3> QED BY <1>3, <1>5, <2>3, <3>2 DEF added
  <2> QED BY <2>2, <2>3
<1>6. ASSUME damage <= Down, tag \in DOMAIN limiter', NEW i \in Uid, limiter'[tag][i] = "slow"
      PROVE  \E u \in limited : UidOf[u] = i
  <2>1. \A u \in DOMAIN f : f[u] # "slow"
    BY <1>2, <1>3, UserAssumption
  <2>2. limiter'[tag][i] = limiter[tag][i]
    BY <1>4, <1>6, <2>1
  <2> QED BY <1>4, <1>6, <2>2 DEF Inv, SlowIsReleased
<1>7. core' \in [DOMAIN core' -> SUBSET User] /\ DOMAIN core' = DOMAIN core
      /\ (damage <= Stale => core'[tag] = mon.users /\ DOMAIN limiter' = {tag})
  BY <1>1, <1>3, <1>4
<1> QED BY <1>1, <1>4, <1>5, <1>6, <1>7, FinishKeepsInv

(***************************************************************************)
(* The theorems.                                                           *)
(***************************************************************************)

LEMMA StepKeepsInv == Inv /\ [Next]_vars => Inv'
<1> SUFFICES ASSUME Inv, [Next]_vars PROVE Inv'
  OBVIOUS
<1>0. limited \subseteq User /\ usr.slow \subseteq limited
      /\ (usr.at # "read" => usr.slow = {}) /\ (AutoLimit = 0 => limited = {})
  BY DEF Inv, Shape, LimiterInv
<1>1. CASE PanelStep
  <2>1. PICK new : PanelChanges(new) /\ new \in [node : Node, users : UserList]
    <3>1. CASE \E n \in Node : PanelChanges([panel EXCEPT !.node = n])
      BY <3>1 DEF Inv, Shape
    <3>2. CASE \E l \in Lists : PanelChanges([panel EXCEPT !.users = l])
      BY <3>2, UserAssumption DEF Inv, Shape
    <3> QED BY <1>1, <3>1, <3>2 DEF PanelStep
  <2> QED BY <2>1, PanelKeepsInv
<1>2. CASE nodeInfoMonitor
  BY <1>2, GetNodeInfoKeepsInv, GetUserListKeepsInv, RemoveOldTagKeepsInv, AddNewTagKeepsInv,
     DeleteLimiterKeepsInv, FillInboundKeepsInv, AddLimiterKeepsInv, DropUsersKeepsInv,
     JoinUsersKeepsInv, LimitJoinedKeepsInv DEF nodeInfoMonitor
<1>3. CASE userInfoMonitor
  BY <1>3, UserMonitorKeepsInv
<1>4. CASE \E t \in Tag, i \in Uid : Transfer(t, i)
  <2>1. UNCHANGED << nodeVars, usr, limited, limiter, damage >>
    BY <1>4 DEF Transfer
  <2> QED BY <1>0, <2>1, UserDataKeepsInv
<1>5. CASE UNCHANGED vars
  <2>1. UNCHANGED << nodeVars, usr, limited, limiter, damage >>
    BY <1>5 DEF vars, userVars
  <2> QED BY <1>0, <2>1, UserDataKeepsInv
<1> QED BY <1>1, <1>2, <1>3, <1>4, <1>5 DEF Next

THEOREM InvHolds == Spec => []Inv
BY InitInv, StepKeepsInv, PTL DEF Spec

\* No inbound of an older node is left behind, whatever calls fail: addNewTag
\* is reached only when the old one is gone (nodeInfoMonitor).
THEOREM NoInboundIsLeft == Spec => []OneInbound
<1>1. Inv => OneInbound
  BY DEF Inv, InboundInv, OneInbound
<1> QED BY <1>1, InvHolds, PTL

\* When nodeInfoMonitor rests and no call to the core has failed, the core
\* serves the remembered users under the Tag, and the limiter has them.
THEOREM CoreIsInStep == Spec => []CoreFollowsMemory
<1>1. Inv => CoreFollowsMemory
  <2> SUFFICES ASSUME Inv, MonitorRests, damage <= Stale
               PROVE  /\ core = One(tag, mem.users)
                      /\ DOMAIN limiter = {tag}
                      /\ AutoLimit = 0 => \A u \in mem.users : limiter[tag][UidOf[u]] = u
    BY DEF CoreFollowsMemory
  <2>1. core = [t \in DOMAIN core |-> core[t]] /\ DOMAIN core = {tag} /\ core[tag] = mem.users
    BY DEF Inv, Shape, MonitorRests, InboundInv, ServedInv, Served
  <2>2. core = One(tag, mem.users)
    BY <2>1 DEF One
  <2> QED BY <2>2 DEF Inv, MonitorRests, LimiterInv, Limiters, Settled
<1> QED BY <1>1, InvHolds, PTL

\* When nodeInfoMonitor rests, nobody is served whom the panel's last list did
\* not have, unless an addUsers has failed.
THEOREM NobodyIsLeft == Spec => []NobodyElseIsServed
<1>1. Inv => NobodyElseIsServed
  <2> SUFFICES ASSUME Inv, MonitorRests, damage <= Down, NEW t \in DOMAIN core
               PROVE  core[t] \subseteq mem.users
    BY DEF NobodyElseIsServed
  <2>1. t = tag /\ damage # Down /\ damage \in None .. Partial
    BY DEF Inv, InboundInv, Shape
  <2> QED BY <2>1 DEF Inv, MonitorRests, ServedInv, Served
<1> QED BY <1>1, InvHolds, PTL

\* A complete run of nodeInfoMonitor that the panel did not change under has
\* brought node and users up to date: the client's ETags never run ahead of
\* what the controller remembers.
THEOREM MonitorCatchesUp == Spec => []PanelIsFollowed
<1>1. Inv => PanelIsFollowed
  BY DEF Inv, ETagInv, PanelIsFollowed
<1> QED BY <1>1, InvHolds, PTL

\* Whoever has the punishment's speed in the limiter is on the list of users
\* that a later userInfoMonitor releases, however the two monitors interleave.
THEOREM PunishmentEnds == Spec => []SlowIsReleased
<1>1. Inv => SlowIsReleased
  BY DEF Inv
<1> QED BY <1>1, InvHolds, PTL

(***************************************************************************)
(* Sums over finite sets.  SumFunctionOnSet is defined by a recursion, and *)
(* what a recursion computes needs an induction: here one over sets of     *)
(* numbers, which follows from the facts about finite sets.                *)
(***************************************************************************)

\* A set of numbers with 0 and the successor of each of its members is Nat: a
\* smallest number outside would make the numbers below it more than they are.
LEMMA NatSets ==
  ASSUME NEW S \in SUBSET Nat, 0 \in S, \A n \in S : n + 1 \in S
  PROVE  S = Nat
<1>1. SUFFICES ASSUME NEW n \in Nat, n \notin S
               PROVE  FALSE
  OBVIOUS
<1> DEFINE T == {m \in S : m < n}
           f == [m \in T |-> m + 1]
<1>2. IsFiniteSet(T)
  BY FS_BoundedSetOfNaturals
<1>3. 0 \in T
  BY <1>1
<1>4. \A m \in T : m + 1 \in T \ {0}
  BY <1>1
<1>5. f \in Injection(T, T \ {0})
  <2>1. f \in [T -> T \ {0}]
    BY <1>4
  <2>2. IsInjective(f)
    BY DEF IsInjective
  <2>3. QED BY <2>1, <2>2 DEF Injection
<1>6. IsFiniteSet(T \ {0}) /\ Cardinality(T \ {0}) = Cardinality(T) - 1 /\ Cardinality(T) \in Nat
  BY <1>2, <1>3, FS_RemoveElement, FS_CardinalityType
<1>7. Cardinality(T) <= Cardinality(T \ {0})
  BY <1>5, <1>6, FS_Injection
<1>8. QED BY <1>6, <1>7

\* The recursion by which SumFunctionOnSet is defined.
Picked(s) == CHOOSE x \in s : TRUE

Folding(f, S, h) ==
  h = [s \in SUBSET S |-> IF s = {} THEN 0 ELSE f[Picked(s)] + h[s \ {Picked(s)}]]

LEMMA SumIsFold ==
  ASSUME NEW f, NEW S
  PROVE  SumFunctionOnSet(f, S) = (CHOOSE h : Folding(f, S, h))[S]
  BY DEF SumFunctionOnSet, FoldFunctionOnSet, MapThenFoldSet, Folding, Picked

Small(S, n) == {s \in SUBSET S : Cardinality(s) <= n}

\* What the sets of up to n elements are made of.
LEMMA SmallFacts ==
  ASSUME NEW S, IsFiniteSet(S)
  PROVE  /\ \A s \in SUBSET S : IsFiniteSet(s) /\ Cardinality(s) \in Nat
         /\ \A n \in Nat : {} \in Small(S, n)
         /\ Small(S, 0) = {{}} /\ \A s \in Small(S, 0) : s = {}
         /\ \A n \in Nat : \A s \in Small(S, n + 1) : \A x \in s : s \ {x} \in Small(S, n)
         /\ \A n \in Nat : \A s \in Small(S, n) : \A x \in s : s \ {x} \in Small(S, n)
         /\ \A n \in Nat : Small(S, n) \subseteq Small(S, n + 1)
         /\ Cardinality(S) \in Nat /\ Small(S, Cardinality(S)) = SUBSET S
<1>1. \A s \in SUBSET S : IsFiniteSet(s) /\ Cardinality(s) \in Nat /\ Cardinality(s) <= Cardinality(S)
  BY FS_Subset, FS_CardinalityType
<1>2. Cardinality(S) \in Nat /\ Small(S, Cardinality(S)) = SUBSET S
  BY <1>1, FS_CardinalityType DEF Small
<1>3. \A n \in Nat : {} \in Small(S, n)
  BY FS_EmptySet DEF Small
<1>4. Small(S, 0) = {{}}
  BY <1>1, FS_EmptySet DEF Small
<1>5. ASSUME NEW s \in SUBSET S, NEW x \in s
      PROVE  Cardinality(s \ {x}) = Cardinality(s) - 1
  BY <1>1, FS_RemoveElement
<1>6. QED BY <1>1, <1>2, <1>3, <1>4, <1>5 DEF Small

LEMMA PickedIsElement ==
  ASSUME NEW s, s # {}
  PROVE  Picked(s) \in s
  BY DEF Picked

\* The recursion that the sum is defined by has a solution.
Solves(f, S, h, n) ==
  \A s \in Small(S, n) : h[s] = IF s = {} THEN 0 ELSE f[Picked(s)] + h[s \ {Picked(s)}]

LEMMA FoldExists ==
  ASSUME NEW f, NEW S, IsFiniteSet(S), \A x \in S : f[x] \in Int
  PROVE  \E h : Folding(f, S, h)
<1> DEFINE Good == {n \in Nat : \E h \in [Small(S, n) -> Int] : Solves(f, S, h, n)}
<1>1. 0 \in Good
  <2> DEFINE h == [s \in Small(S, 0) |-> 0]
  <2>1. h \in [Small(S, 0) -> Int] /\ Solves(f, S, h, 0)
    BY SmallFacts DEF Solves
  <2>2. QED BY <2>1
<1>2. ASSUME NEW n \in Good
      PROVE  n + 1 \in Good
  <2>1. PICK h \in [Small(S, n) -> Int] : Solves(f, S, h, n)
    BY <1>2
  <2> DEFINE k == [s \in Small(S, n + 1) |-> IF s = {} THEN 0 ELSE f[Picked(s)] + h[s \ {Picked(s)}]]
  <2>2. ASSUME NEW s \in Small(S, n + 1), s # {}
        PROVE  Picked(s) \in S /\ s \ {Picked(s)} \in Small(S, n)
    BY <2>2, PickedIsElement, SmallFacts DEF Small
  <2>3. k \in [Small(S, n + 1) -> Int]
    BY <2>2
  <2>4. \A s \in Small(S, n) : k[s] = h[s]
    BY <2>1, SmallFacts DEF Solves
  <2>5. Solves(f, S, k, n + 1)
    BY <2>2, <2>4 DEF Solves
  <2>6. \E j \in [Small(S, n + 1) -> Int] : Solves(f, S, j, n + 1)
    BY <2>3, <2>5, Zenon
  <2>7. QED BY <2>6
<1> HIDE DEF Good
<1>3. Good = Nat
  BY <1>1, <1>2, NatSets DEF Good
<1>4. PICK h \in [SUBSET S -> Int] : Solves(f, S, h, Cardinality(S))
  <2>1. Cardinality(S) \in Good
    BY <1>3, SmallFacts
  <2>2. \E h \in [Small(S, Cardinality(S)) -> Int] : Solves(f, S, h, Cardinality(S))
    BY <2>1 DEF Good
  <2>3. QED BY <2>2, SmallFacts
<1>5. h = [s \in SUBSET S |-> IF s = {} THEN 0 ELSE f[Picked(s)] + h[s \ {Picked(s)}]]
  BY <1>4, SmallFacts DEF Solves
<1>6. QED BY <1>5 DEF Folding

\* It is a sum: whichever element is taken first.
Adds(f, h, s) == h[s] \in Int /\ \A x \in s : h[s] = f[x] + h[s \ {x}]

LEMMA FoldAdds ==
  ASSUME NEW f, NEW S, IsFiniteSet(S), \A x \in S : f[x] \in Int, NEW h, Folding(f, S, h)
  PROVE  \A s \in SUBSET S : Adds(f, h, s)
<1> DEFINE Good == {n \in Nat : \A s \in Small(S, n) : Adds(f, h, s)}
<1>1. \A s \in SUBSET S : h[s] = IF s = {} THEN 0 ELSE f[Picked(s)] + h[s \ {Picked(s)}]
  BY DEF Folding
<1>2. Adds(f, h, {})
  <2>1. h[{}] = 0
    BY <1>1
  <2>2. QED BY <2>1 DEF Adds
<1>3. ASSUME NEW n \in Good
      PROVE  n + 1 \in Good
  <2>1. SUFFICES ASSUME NEW s \in Small(S, n + 1), s # {}
                 PROVE  Adds(f, h, s)
    BY <1>2
  <2> DEFINE c == Picked(s)
  <2>2. c \in s /\ s \in SUBSET S /\ c \in S /\ s \ {c} \in Small(S, n)
    BY <2>1, PickedIsElement, SmallFacts DEF Small
  <2>3. h[s] = f[c] + h[s \ {c}] /\ h[s \ {c}] \in Int
    BY <1>1, <2>1, <2>2 DEF Adds
  <2>4. ASSUME NEW x \in s, x # c
        PROVE  h[s] = f[x] + h[s \ {x}]
    <3>1. x \in S /\ s \ {x} \in Small(S, n) /\ s \ {x} \in SUBSET S
      BY <2>2, SmallFacts
    <3>2. h[s \ {x}] = f[c] + h[(s \ {x}) \ {c}]
      BY <2>2, <2>4, <3>1 DEF Adds
    <3>3. h[s \ {c}] = f[x] + h[(s \ {c}) \ {x}]
      BY <2>2, <2>4 DEF Adds
    <3>4. (s \ {x}) \ {c} = (s \ {c}) \ {x} /\ (s \ {x}) \ {c} \in Small(S, n)
      BY <2>2, <2>4, <3>1, SmallFacts
    <3>5. h[(s \ {x}) \ {c}] \in Int
      BY <3>4 DEF Adds
    <3>6. f[x] \in Int /\ f[c] \in Int
      BY <2>2, <3>1
    <3>7. h[s] = f[c] + (f[x] + h[(s \ {x}) \ {c}])
      BY <2>3, <3>3, <3>4
    <3>8. h[s] = f[x] + (f[c] + h[(s \ {x}) \ {c}])
      BY <3>5, <3>6, <3>7
    <3>9. QED BY <3>2, <3>8
  <2>5. h[s] \in Int
    BY <2>2, <2>3
  <2>6. QED BY <2>3, <2>4, <2>5 DEF Adds
<1> HIDE DEF Good
<1>4. 0 \in Good
  <2>1. \A s \in Small(S, 0) : s = {}
    BY SmallFacts
  <2>2. QED BY <1>2, <2>1 DEF Good
<1>5. Good = Nat
  BY <1>3, <1>4, NatSets DEF Good
<1>6. Cardinality(S) \in Good
  BY <1>5, SmallFacts
<1>7. QED BY <1>6, SmallFacts DEF Good

\* Of two functions that agree, the sums are the same.
LEMMA FoldAgrees ==
  ASSUME NEW f, NEW g, NEW S, NEW R, IsFiniteSet(S), S \subseteq R,
         \A x \in S : f[x] = g[x], NEW h, NEW k, Folding(f, S, h), Folding(g, R, k)
  PROVE  h[S] = k[S]
<1> DEFINE Good == {n \in Nat : \A s \in Small(S, n) : h[s] = k[s]}
<1>1. /\ \A s \in SUBSET S : h[s] = IF s = {} THEN 0 ELSE f[Picked(s)] + h[s \ {Picked(s)}]
      /\ \A s \in SUBSET S : k[s] = IF s = {} THEN 0 ELSE g[Picked(s)] + k[s \ {Picked(s)}]
  BY DEF Folding
<1>2. h[{}] = k[{}]
  BY <1>1
<1>3. ASSUME NEW n \in Good
      PROVE  n + 1 \in Good
  <2>1. SUFFICES ASSUME NEW s \in Small(S, n + 1), s # {}
                 PROVE  h[s] = k[s]
    BY <1>2
  <2>2. Picked(s) \in S /\ s \in SUBSET S /\ s \ {Picked(s)} \in Small(S, n)
    BY <2>1, PickedIsElement, SmallFacts DEF Small
  <2>3. h[s \ {Picked(s)}] = k[s \ {Picked(s)}]
    BY <2>2
  <2>4. QED BY <1>1, <2>1, <2>2, <2>3
<1> HIDE DEF Good
<1>4. 0 \in Good
  <2>1. \A s \in Small(S, 0) : s = {}
    BY SmallFacts
  <2>2. QED BY <1>2, <2>1 DEF Good
<1>5. Good = Nat
  BY <1>3, <1>4, NatSets DEF Good
<1>6. Cardinality(S) \in Good
  BY <1>5, SmallFacts
<1>7. QED BY <1>6, SmallFacts DEF Good

\* What SumFunctionOnSet is, without its recursion.
LEMMA SumOfNone ==
  ASSUME NEW f
  PROVE  SumFunctionOnSet(f, {}) = 0
<1>1. PICK h : Folding(f, {}, h)
  BY FoldExists, FS_EmptySet
<1>2. Folding(f, {}, CHOOSE h1 : Folding(f, {}, h1))
  BY <1>1
<1>3. QED BY <1>2, SumIsFold DEF Folding

LEMMA SumAdds ==
  ASSUME NEW f, NEW S, IsFiniteSet(S), NEW x \in S, \A y \in S : f[y] \in Int
  PROVE  /\ SumFunctionOnSet(f, S) = f[x] + SumFunctionOnSet(f, S \ {x})
         /\ SumFunctionOnSet(f, S) \in Int /\ SumFunctionOnSet(f, S \ {x}) \in Int
<1>1. PICK R : R = S \ {x}
  OBVIOUS
<1>2. IsFiniteSet(R) /\ R \subseteq S /\ \A y \in R : f[y] \in Int /\ f[y] = f[y]
  BY <1>1, FS_RemoveElement
<1>3. PICK h : h = CHOOSE h1 : Folding(f, S, h1)
  OBVIOUS
<1>4. PICK k : k = CHOOSE h1 : Folding(f, R, h1)
  OBVIOUS
<1>5. Folding(f, S, h)
  BY <1>3, FoldExists
<1>6. Folding(f, R, k)
  BY <1>2, <1>4, FoldExists
<1>7. h[S] = f[x] + h[R] /\ h[S] \in Int
  <2>1. S \in SUBSET S
    OBVIOUS
  <2>2. Adds(f, h, S)
    BY <1>5, <2>1, FoldAdds
  <2>3. QED BY <1>1, <2>2 DEF Adds
<1>8. h[R] \in Int
  BY <1>2, <1>5, FoldAdds DEF Adds
<1>9. k[R] = h[R]
  BY <1>2, <1>5, <1>6, FoldAgrees
<1>10. SumFunctionOnSet(f, S) = h[S] /\ SumFunctionOnSet(f, R) = k[R]
  BY <1>3, <1>4, SumIsFold
<1>11. QED BY <1>1, <1>7, <1>8, <1>9, <1>10

LEMMA SumAgrees ==
  ASSUME NEW f, NEW g, NEW S, IsFiniteSet(S), \A x \in S : f[x] \in Int /\ f[x] = g[x]
  PROVE  SumFunctionOnSet(f, S) = SumFunctionOnSet(g, S)
<1>1. PICK h : h = CHOOSE h1 : Folding(f, S, h1)
  OBVIOUS
<1>2. PICK k : k = CHOOSE h1 : Folding(g, S, h1)
  OBVIOUS
<1>3. Folding(f, S, h) /\ Folding(g, S, k)
  BY <1>1, <1>2, FoldExists
<1>4. h[S] = k[S]
  <2>1. PICK R : R = S
    OBVIOUS
  <2>2. S \subseteq R /\ Folding(g, R, k) /\ \A x \in S : f[x] = g[x]
    BY <1>3, <2>1
  <2>3. h[S] = k[S]
    BY <1>3, <2>2, FoldAgrees
  <2>4. QED BY <2>3
<1>5. QED BY <1>1, <1>2, <1>4, SumIsFold

LEMMA SumType ==
  ASSUME NEW f, NEW S, IsFiniteSet(S), \A x \in S : f[x] \in Int
  PROVE  SumFunctionOnSet(f, S) \in Int
<1>1. CASE S = {}
  BY <1>1, SumOfNone
<1>2. ASSUME NEW x \in S
      PROVE  SumFunctionOnSet(f, S) \in Int
  BY SumAdds
<1>3. QED BY <1>1, <1>2

\* A sum of fewer and smaller numbers is not greater.
SumBound(f, g, s, t) ==
  /\ SumFunctionOnSet(f, s) \in Nat /\ SumFunctionOnSet(g, t) \in Nat
  /\ SumFunctionOnSet(f, s) <= SumFunctionOnSet(g, t)

LEMMA SumBounds ==
  ASSUME NEW f, NEW g, NEW T, IsFiniteSet(T), NEW S \in SUBSET T,
         \A x \in T : g[x] \in Nat, \A x \in S : f[x] \in Nat /\ f[x] <= g[x]
  PROVE  SumBound(f, g, S, T)
<1> DEFINE Good == {n \in Nat : \A t \in Small(T, n) : SumBound(f, g, t \cap S, t)}
<1>1. SumBound(f, g, {} \cap S, {})
  <2>1. {} \cap S = {}
    OBVIOUS
  <2>2. QED BY <2>1, SumOfNone DEF SumBound
<1>2. ASSUME NEW n \in Good
      PROVE  n + 1 \in Good
  <2>1. SUFFICES ASSUME NEW t \in Small(T, n + 1), t # {}
                 PROVE  SumBound(f, g, t \cap S, t)
    BY <1>1
  <2> PICK x \in t : TRUE
    BY <2>1
  <2>2. t \in SUBSET T /\ IsFiniteSet(t) /\ t \ {x} \in Small(T, n) /\ IsFiniteSet(t \cap S)
    BY SmallFacts, FS_Subset DEF Small
  <2>3. (\A y \in t \cap S : f[y] \in Int) /\ (\A y \in t : g[y] \in Int)
    BY <2>2
  <2>4. SumFunctionOnSet(g, t) = g[x] + SumFunctionOnSet(g, t \ {x})
    BY <2>2, <2>3, SumAdds
  <2>5. SumBound(f, g, (t \ {x}) \cap S, t \ {x}) /\ g[x] \in Nat
    BY <2>2
  <2>6. CASE x \in S
    <3>1. (t \ {x}) \cap S = (t \cap S) \ {x} /\ x \in t \cap S
      BY <2>6
    <3>2. SumFunctionOnSet(f, t \cap S) = f[x] + SumFunctionOnSet(f, (t \ {x}) \cap S)
      BY <2>2, <2>3, <3>1, SumAdds
    <3>3. f[x] \in Nat /\ f[x] <= g[x]
      BY <2>6
    <3>4. QED BY <2>4, <2>5, <3>2, <3>3 DEF SumBound
  <2>7. CASE x \notin S
    <3>1. (t \ {x}) \cap S = t \cap S
      BY <2>7
    <3>2. SumBound(f, g, t \cap S, t \ {x})
      BY <2>5, <3>1
    <3>3. QED BY <2>4, <2>5, <3>2 DEF SumBound
  <2>8. QED BY <2>6, <2>7
<1> HIDE DEF Good
<1>3. 0 \in Good
  <2>1. \A s \in Small(T, 0) : s = {}
    BY SmallFacts
  <2>2. QED BY <1>1, <2>1 DEF Good
<1>4. Good = Nat
  BY <1>2, <1>3, NatSets DEF Good
<1>5. Cardinality(T) \in Good /\ T \in Small(T, Cardinality(T))
  BY <1>4, SmallFacts
<1>6. SumBound(f, g, T \cap S, T)
  BY <1>5 DEF Good
<1>7. T \cap S = S
  OBVIOUS
<1>8. QED BY <1>6, <1>7

\* When one number is changed, added or dropped, the rest of the sum stays.
LEMMA SumChanges ==
  ASSUME NEW f, NEW g, NEW S, NEW T, NEW x, NEW a \in Int, NEW b \in Int,
         IsFiniteSet(S), IsFiniteSet(T), S \ {x} = T \ {x},
         \A y \in S : f[y] \in Int, \A y \in T : g[y] \in Int, \A y \in S \ {x} : f[y] = g[y],
         a = IF x \in S THEN f[x] ELSE 0, b = IF x \in T THEN g[x] ELSE 0
  PROVE  SumFunctionOnSet(g, T) = SumFunctionOnSet(f, S) - a + b
<1>1. PICK R : R = S \ {x}
  OBVIOUS
<1>2. /\ IsFiniteSet(R) /\ R = T \ {x}
      /\ \A y \in R : f[y] \in Int /\ g[y] \in Int /\ f[y] = g[y]
  BY <1>1, FS_RemoveElement
<1>3. SumFunctionOnSet(f, S) = a + SumFunctionOnSet(f, R)
  <2>1. CASE x \in S
    BY <1>1, <2>1, SumAdds
  <2>2. CASE x \notin S
    <3>1. R = S
      BY <1>1, <2>2
    <3>2. SumFunctionOnSet(f, R) \in Int
      BY <1>2, SumType
    <3>3. QED BY <2>2, <3>1, <3>2
  <2>3. QED BY <2>1, <2>2
<1>4. SumFunctionOnSet(g, T) = b + SumFunctionOnSet(g, R)
  <2>1. CASE x \in T
    BY <1>2, <2>1, SumAdds
  <2>2. CASE x \notin T
    <3>1. R = T
      BY <1>2, <2>2
    <3>2. SumFunctionOnSet(g, R) \in Int
      BY <1>2, SumType
    <3>3. QED BY <2>2, <3>1, <3>2
  <2>3. QED BY <2>1, <2>2
<1>5. SumFunctionOnSet(f, R) = SumFunctionOnSet(g, R)
  BY <1>2, SumAgrees
<1>6. SumFunctionOnSet(f, R) \in Int
  BY <1>2, SumType
<1>7. QED BY <1>3, <1>4, <1>5, <1>6

(***************************************************************************)
(* The counters of the users.                                              *)
(***************************************************************************)

\* Numbers of bytes by tag and user, those of counter and of usr.read.
Account(f) ==
  f \in [DOMAIN f -> Nat] /\ DOMAIN f \subseteq Tag \X Uid /\ IsFiniteSet(DOMAIN f)

Of(f, i) == {k \in DOMAIN f : k[2] = i}

Total(f, i) == SumFunctionOnSet(f, Of(f, i))

LEMMA OfFacts ==
  ASSUME NEW f, Account(f), NEW i
  PROVE  Of(f, i) \subseteq DOMAIN f /\ IsFiniteSet(Of(f, i)) /\ \A k \in Of(f, i) : f[k] \in Nat /\ f[k] \in Int
  BY FS_Subset DEF Account, Of

LEMMA TotalBounds ==
  ASSUME NEW f, Account(f), NEW g, Account(g), NEW i,
         DOMAIN f \subseteq DOMAIN g, \A k \in DOMAIN f : f[k] <= g[k]
  PROVE  Total(f, i) \in Nat /\ Total(g, i) \in Nat /\ Total(f, i) <= Total(g, i)
<1>1. Of(f, i) \in SUBSET Of(g, i) /\ IsFiniteSet(Of(g, i))
  BY OfFacts DEF Of
<1>2. \A k \in Of(g, i) : g[k] \in Nat
  BY OfFacts
<1>3. \A k \in Of(f, i) : f[k] \in Nat /\ f[k] <= g[k]
  BY OfFacts
<1>4. SumBound(f, g, Of(f, i), Of(g, i))
  BY <1>1, <1>2, <1>3, SumBounds
<1>5. QED BY <1>4 DEF SumBound, Total

LEMMA TotalType ==
  ASSUME NEW f, Account(f), NEW i
  PROVE  Total(f, i) \in Nat
<1>1. PICK g : g = f
  OBVIOUS
<1>2. Account(g) /\ DOMAIN f \subseteq DOMAIN g /\ \A k \in DOMAIN f : f[k] <= g[k]
  BY <1>1 DEF Account
<1>3. QED BY <1>2, TotalBounds

\* No number is greater than the total.
LEMMA TotalIncludes ==
  ASSUME NEW f, Account(f), NEW k \in DOMAIN f
  PROVE  f[k] <= Total(f, k[2])
<1>1. PICK S : S = Of(f, k[2])
  OBVIOUS
<1>2. k \in S /\ IsFiniteSet(S) /\ \A j \in S : f[j] \in Nat /\ f[j] \in Int /\ f[j] <= f[j]
  <2>1. IsFiniteSet(S) /\ \A j \in S : f[j] \in Nat
    BY <1>1, OfFacts
  <2>2. QED BY <1>1, <2>1 DEF Of
<1>3. SumFunctionOnSet(f, S) = f[k] + SumFunctionOnSet(f, S \ {k})
  BY <1>2, SumAdds
<1>4. S \ {k} \in SUBSET S
  OBVIOUS
<1>5. \A j \in S \ {k} : f[j] \in Nat /\ f[j] <= f[j]
  BY <1>2
<1>6. SumBound(f, f, S \ {k}, S)
  BY <1>2, <1>4, <1>5, SumBounds
<1>7. QED BY <1>1, <1>2, <1>3, <1>6 DEF SumBound, Total

\* One number is set, or added.
Number(f, k) == IF k \in DOMAIN f THEN f[k] ELSE 0

OneSet(f, g, k, b) ==
  /\ Account(g) /\ DOMAIN g = DOMAIN f \cup {k}
  /\ Total(g, k[2]) = Total(f, k[2]) - Number(f, k) + b
  /\ \A i \in Uid \ {k[2]} : Total(g, i) = Total(f, i)

LEMMA TotalOfSet ==
  ASSUME NEW f, Account(f), NEW k \in Tag \X Uid, NEW b \in Nat, NEW g, g = Set(f, k, b)
  PROVE  OneSet(f, g, k, b)
<1> PICK a \in Nat : a = Number(f, k)
  BY DEF Number, Account
<1>1. /\ DOMAIN g = DOMAIN f \cup {k} /\ g[k] = b /\ \A j \in DOMAIN f \ {k} : g[j] = f[j]
      /\ g \in [DOMAIN g -> Nat]
  BY DEF Set, Account
<1>2. Account(g)
  BY <1>1, FS_AddElement DEF Account
<1>3. Total(g, k[2]) = Total(f, k[2]) - a + b
  <2>1. PICK S, T : S = Of(f, k[2]) /\ T = Of(g, k[2])
    OBVIOUS
  <2>2. k \in T /\ S \ {k} = T \ {k} /\ (k \in S <=> k \in DOMAIN f)
    BY <1>1, <2>1 DEF Of
  <2>3. IsFiniteSet(S) /\ \A j \in S : f[j] \in Int
    BY <2>1, OfFacts
  <2>4. IsFiniteSet(T) /\ \A j \in T : g[j] \in Int
    BY <1>2, <2>1, OfFacts
  <2>5. \A j \in S \ {k} : f[j] = g[j]
    BY <1>1, <2>1 DEF Of
  <2>6. a = IF k \in S THEN f[k] ELSE 0
    BY <2>2 DEF Number
  <2>7. b = IF k \in T THEN g[k] ELSE 0
    BY <1>1, <2>2
  <2>8. SumFunctionOnSet(g, T) = SumFunctionOnSet(f, S) - a + b
    BY <2>2, <2>3, <2>4, <2>5, <2>6, <2>7, SumChanges
  <2>9. QED BY <2>1, <2>8 DEF Total
<1>4. ASSUME NEW i \in Uid, i # k[2]
      PROVE  Total(g, i) = Total(f, i)
  <2>1. PICK S : S = Of(f, i)
    OBVIOUS
  <2>2. S = Of(g, i) /\ \A j \in S : g[j] = f[j]
    BY <1>1, <1>4, <2>1 DEF Of
  <2>3. IsFiniteSet(S) /\ \A j \in S : g[j] \in Int /\ g[j] = f[j]
    BY <2>1, <2>2, OfFacts
  <2>4. SumFunctionOnSet(g, S) = SumFunctionOnSet(f, S)
    BY <2>3, SumAgrees
  <2>5. QED BY <2>1, <2>2, <2>4 DEF Total
<1>5. QED BY <1>1, <1>2, <1>3, <1>4 DEF OneSet

\* One number is dropped.
LEMMA TotalOfRest ==
  ASSUME NEW f, Account(f), NEW k \in DOMAIN f, NEW g, g = Restrict(f, DOMAIN f \ {k})
  PROVE  /\ Account(g) /\ DOMAIN g = DOMAIN f \ {k} /\ \A j \in DOMAIN g : g[j] = f[j]
         /\ Total(g, k[2]) = Total(f, k[2]) - f[k]
         /\ \A i \in Uid \ {k[2]} : Total(g, i) = Total(f, i)
<1>1. /\ DOMAIN g = DOMAIN f \ {k} /\ \A j \in DOMAIN g : g[j] = f[j]
      /\ g \in [DOMAIN g -> Nat]
  BY DEF Restrict, Account
<1>2. Account(g)
  BY <1>1, FS_RemoveElement DEF Account
<1>3. Total(g, k[2]) = Total(f, k[2]) - f[k]
  <2>1. PICK S, T : S = Of(f, k[2]) /\ T = Of(g, k[2])
    OBVIOUS
  <2>2. k \in S /\ T = S \ {k}
    BY <1>1, <2>1 DEF Of
  <2>3. IsFiniteSet(S) /\ \A j \in S : f[j] \in Int
    BY <2>1, OfFacts
  <2>4. /\ SumFunctionOnSet(f, S) = f[k] + SumFunctionOnSet(f, T)
        /\ SumFunctionOnSet(f, T) \in Int
    BY <2>2, <2>3, SumAdds
  <2>5. IsFiniteSet(T) /\ \A j \in T : g[j] \in Int /\ g[j] = f[j]
    BY <1>1, <1>2, <2>1, OfFacts DEF Of
  <2>6. SumFunctionOnSet(g, T) = SumFunctionOnSet(f, T)
    BY <2>5, SumAgrees
  <2>7. f[k] \in Int
    BY <2>2, <2>3
  <2>8. QED BY <2>1, <2>4, <2>6, <2>7 DEF Total
<1>4. ASSUME NEW i \in Uid, i # k[2]
      PROVE  Total(g, i) = Total(f, i)
  <2>1. PICK S : S = Of(f, i)
    OBVIOUS
  <2>2. S = Of(g, i) /\ \A j \in S : g[j] = f[j]
    BY <1>1, <1>4, <2>1 DEF Of
  <2>3. IsFiniteSet(S) /\ \A j \in S : g[j] \in Int /\ g[j] = f[j]
    BY <2>1, <2>2, OfFacts
  <2>4. SumFunctionOnSet(g, S) = SumFunctionOnSet(f, S)
    BY <2>3, SumAgrees
  <2>5. QED BY <2>1, <2>2, <2>4 DEF Total
<1>5. QED BY <1>1, <1>2, <1>3, <1>4

(***************************************************************************)
(* The traffic.                                                            *)
(***************************************************************************)

UserTypes ==
  /\ usr \in [at : {"idle", "list", "read", "report", "reset"}, todo : UserList,
              slow : SUBSET User, read : {usr.read}]
  /\ ledger \in [Uid -> [used : 0 .. MaxBytes, reported : Nat, repeated : 0 .. MaxBytes, lost : Nat]]
  /\ mem.users \in UserList /\ tag \in Tag

\* What userInfoMonitor has read of the counters, they still hold: it resets
\* none before it has taken its number from what was read.
ReadInv ==
  /\ Account(counter) /\ Account(usr.read) /\ DOMAIN usr.read \subseteq DOMAIN counter
  /\ \A k \in DOMAIN usr.read : 0 < usr.read[k] /\ usr.read[k] <= counter[k]
  /\ usr.at \in {"idle", "list"} => DOMAIN usr.read = {}

\* TrafficIsConserved; and what has been reported includes what is going to be
\* reset, so no number is greater than the bytes used.
LedgerInv ==
  \A i \in Uid :
    /\ ledger[i].used = ledger[i].reported + ledger[i].lost + Total(counter, i)
                        - (IF usr.at = "reset" THEN Total(usr.read, i) ELSE 0)
    /\ usr.at = "reset" => Total(usr.read, i) <= ledger[i].reported

TrafficInv == UserTypes /\ ReadInv /\ LedgerInv

LEMMA TotalOfNone ==
  ASSUME NEW f, DOMAIN f = {}, NEW i
  PROVE  Total(f, i) = 0
<1>1. Of(f, i) = {}
  BY DEF Of
<1>2. QED BY <1>1, SumOfNone DEF Total

LEMMA TrafficInit == Init => TrafficInv
<1> SUFFICES ASSUME Init PROVE TrafficInv
  OBVIOUS
<1>1. DOMAIN counter = {} /\ usr = Rest /\ DOMAIN usr.read = {}
  BY DEF Init, Rest
<1>2. Account(counter) /\ Account(usr.read)
  BY <1>1, FS_EmptySet DEF Account, Init, Rest
<1>3. UserTypes
  BY <1>1, UserAssumption, NodeAssumption, LimitAssumption DEF UserTypes, Init, Rest, UserList, tag, Tag
<1>4. ReadInv
  BY <1>1, <1>2 DEF ReadInv
<1>5. LedgerInv
  BY <1>1, TotalOfNone DEF LedgerInv, Init, Rest
<1>6. QED BY <1>3, <1>4, <1>5 DEF TrafficInv

LEMMA TrafficKept ==
  ASSUME TrafficInv, UNCHANGED << counter, ledger >>, UNCHANGED usr.read,
         usr'.at # "reset", usr.at # "reset", UserTypes',
         usr'.at \in {"idle", "list"} => usr.at \in {"idle", "list"}
  PROVE  TrafficInv'
<1>1. ReadInv'
  BY DEF TrafficInv, ReadInv, Account
<1>2. LedgerInv'
  BY DEF TrafficInv, LedgerInv, Total, Of
<1>3. QED BY <1>1, <1>2 DEF TrafficInv

LEMMA TrafficTransfer ==
  ASSUME TrafficInv, NEW t \in Tag, NEW i \in Uid, Transfer(t, i)
  PROVE  TrafficInv'
<1>1. PICK k \in Tag \X Uid : k = << t, i >> /\ k[2] = i
  <2>1. << t, i >> \in Tag \X Uid /\ << t, i >>[2] = i
    OBVIOUS
  <2>2. QED BY <2>1
<1>2. PICK f, g : f = counter /\ g = counter'
  OBVIOUS
<1>3. PICK a \in Nat : a = IF k \in DOMAIN f THEN f[k] ELSE 0
  BY <1>2 DEF TrafficInv, ReadInv, Account
<1>4. PICK b \in Nat : b = a + 1
  OBVIOUS
<1>5. /\ Account(g) /\ DOMAIN g = DOMAIN f \cup {k} /\ g = Set(f, k, b)
      /\ Total(g, i) = Total(f, i) - a + b
      /\ \A j \in Uid \ {i} : Total(g, j) = Total(f, j)
  <2>1. Account(f) /\ g = Set(f, k, b)
    BY <1>1, <1>2, <1>3, <1>4 DEF TrafficInv, ReadInv, Transfer, Bytes
  <2>2. OneSet(f, g, k, b)
    BY <2>1, TotalOfSet
  <2>3. QED BY <1>1, <1>3, <2>1, <2>2 DEF OneSet, Number
<1>6. Total(f, i) \in Nat
  BY <1>2, TotalType DEF TrafficInv, ReadInv
<1>7. \A x \in DOMAIN f : f[x] <= g[x] /\ f[x] \in Nat
  BY <1>2, <1>3, <1>4, <1>5 DEF Set, Account, TrafficInv, ReadInv
<1>8. UserTypes'
  <2>1. ledger[i].used + 1 \in 0 .. MaxBytes
    BY LimitAssumption DEF Transfer, TrafficInv, UserTypes
  <2>2. ledger' \in [Uid -> [used : 0 .. MaxBytes, reported : Nat, repeated : 0 .. MaxBytes, lost : Nat]]
    BY <2>1 DEF Transfer, TrafficInv, UserTypes
  <2>3. QED BY <2>2 DEF TrafficInv, UserTypes, Transfer, nodeVars, tag
<1>9. ReadInv'
  <2>1. UNCHANGED usr
    BY DEF Transfer
  <2>2. QED BY <1>2, <1>5, <1>7, <2>1 DEF TrafficInv, ReadInv, Account
<1>10. LedgerInv'
  <2>1. UNCHANGED usr /\ ledger' = [ledger EXCEPT ![i].used = @ + 1]
    BY DEF Transfer
  <2>2. ASSUME NEW j \in Uid
        PROVE  /\ ledger'[j].reported = ledger[j].reported /\ ledger'[j].lost = ledger[j].lost
               /\ ledger'[j].used = IF j = i THEN ledger[j].used + 1 ELSE ledger[j].used
               /\ ledger[j].used \in Nat /\ ledger[j].reported \in Nat /\ ledger[j].lost \in Nat
    BY <2>1 DEF TrafficInv, UserTypes
  <2>3. ASSUME NEW j \in Uid
        PROVE  Total(counter', j) = IF j = i THEN Total(counter, j) + 1 ELSE Total(counter, j)
    BY <1>2, <1>4, <1>5, <1>6
  <2>4. ASSUME NEW j \in Uid
        PROVE  Total(counter, j) \in Nat /\ Total(usr.read, j) \in Nat
    BY TotalType DEF TrafficInv, ReadInv
  <2>5. QED BY <2>1, <2>2, <2>3, <2>4 DEF TrafficInv, LedgerInv
<1>11. QED BY <1>8, <1>9, <1>10 DEF TrafficInv

LEMMA TrafficGet ==
  ASSUME TrafficInv, NEW u \in User, getTraffic(u)
  PROVE  TrafficInv'
<1> DEFINE k == << tag, UidOf[u] >>
<1>1. k \in Tag \X Uid /\ k[2] \in Uid
  BY DEF TrafficInv, UserTypes, Uid
<1>2. usr.at = "read" /\ usr'.at = "read" /\ UNCHANGED << counter, ledger, mem, tag >>
  BY DEF getTraffic, nodeVars, TrafficInv, UserTypes, tag
<1>3. UserTypes'
  BY <1>2 DEF getTraffic, TrafficInv, UserTypes, UserList
<1>4. CASE Bytes(k) > 0
  <2>1. k \in DOMAIN counter /\ counter[k] > 0 /\ counter[k] \in Nat
    BY <1>4 DEF Bytes, TrafficInv, ReadInv, Account
  <2>2. usr'.read = Set(usr.read, k, counter[k])
    BY <1>4, <2>1 DEF getTraffic, TrafficInv, UserTypes, Bytes
  <2>3. PICK f, g : f = usr.read /\ g = usr'.read
    OBVIOUS
  <2>4. Account(f) /\ g = Set(f, k, counter[k])
    BY <2>2, <2>3 DEF TrafficInv, ReadInv
  <2>6. Account(g) /\ DOMAIN g = DOMAIN f \cup {k}
    <3>1. PICK j \in Tag \X Uid, b \in Nat : j = k /\ b = counter[k]
      BY <1>1, <2>1
    <3>2. g = Set(f, j, b)
      BY <2>4, <3>1
    <3>3. OneSet(f, g, j, b)
      BY <2>4, <3>2, TotalOfSet
    <3>4. QED BY <3>1, <3>3 DEF OneSet
  <2>7. g[k] = counter[k] /\ \A j \in DOMAIN f \ {k} : g[j] = f[j]
    BY <2>4 DEF Set
  <2>8. ReadInv'
    BY <1>2, <2>1, <2>3, <2>6, <2>7 DEF TrafficInv, ReadInv, Account
  <2>9. LedgerInv'
    BY <1>2 DEF TrafficInv, LedgerInv, Total, Of
  <2>10. QED BY <1>3, <2>8, <2>9 DEF TrafficInv
<1>5. CASE ~(Bytes(k) > 0)
  <2>1. UNCHANGED usr.read
    BY <1>5 DEF getTraffic, TrafficInv, UserTypes
  <2>2. QED BY <1>2, <1>3, <2>1, TrafficKept
<1>6. QED BY <1>4, <1>5

LEMMA TrafficReport ==
  ASSUME TrafficInv, ReportUserTraffic
  PROVE  TrafficInv'
<1>1. usr.at = "report" /\ UNCHANGED << counter, mem, tag >>
  BY DEF ReportUserTraffic, nodeVars, tag
<1>2. ASSUME NEW i \in Uid
      PROVE  /\ Read(i) = Total(usr.read, i) /\ Read(i) \in Nat
             /\ Total(counter, i) \in Nat
             /\ ledger[i] \in [used : 0 .. MaxBytes, reported : Nat, repeated : 0 .. MaxBytes, lost : Nat]
             /\ ledger[i].used = ledger[i].reported + ledger[i].lost + Total(counter, i)
  <2>1. Read(i) = Total(usr.read, i)
    BY DEF Read, Total, Of
  <2>2. Total(usr.read, i) \in Nat /\ Total(counter, i) \in Nat
    BY TotalType DEF TrafficInv, ReadInv
  <2>3. QED BY <1>1, <2>1, <2>2 DEF TrafficInv, UserTypes, LedgerInv
<1>3. ASSUME usr' = Rest, \A i \in Uid : /\ ledger'[i].used = ledger[i].used
                                         /\ ledger'[i].reported = ledger[i].reported
                                         /\ ledger'[i].lost = ledger[i].lost,
             UserTypes'
      PROVE  TrafficInv'
  <2>1. usr'.at = "idle" /\ DOMAIN usr'.read = {} /\ usr'.read = << >>
    BY <1>3 DEF Rest
  <2>2. ReadInv'
    BY <1>1, <2>1, FS_EmptySet DEF TrafficInv, ReadInv, Account
  <2>3. \A i \in Uid : Total(counter', i) = Total(counter, i)
    BY <1>1
  <2>4. LedgerInv'
    BY <1>2, <1>3, <2>1, <2>3 DEF LedgerInv
  <2>5. QED BY <1>3, <2>2, <2>4 DEF TrafficInv
<1>4. usr' = Rest => usr' \in [at : {"idle", "list", "read", "report", "reset"}, todo : UserList,
                               slow : SUBSET User, read : {usr'.read}]
  BY DEF Rest, UserList
<1>5. CASE usr' = Rest /\ UNCHANGED ledger
  BY <1>1, <1>3, <1>4, <1>5 DEF TrafficInv, UserTypes
<1>6. CASE usr' = [usr EXCEPT !.at = "reset"] /\ Received("reported")
  <2>1. usr'.at = "reset" /\ UNCHANGED usr.read
    BY <1>6 DEF TrafficInv, UserTypes
  <2>2. ASSUME NEW i \in Uid
        PROVE  /\ ledger'[i] = [ledger[i] EXCEPT !.reported = @ + Read(i)]
               /\ ledger'[i].used = ledger[i].used /\ ledger'[i].lost = ledger[i].lost
               /\ ledger'[i].reported = ledger[i].reported + Read(i)
    BY <1>2, <1>6 DEF Received
  <2>3. ledger' \in [Uid -> [used : 0 .. MaxBytes, reported : Nat, repeated : 0 .. MaxBytes, lost : Nat]]
    BY <1>2, <1>6, <2>2 DEF Received
  <2>4. UserTypes'
    BY <1>1, <1>6, <2>3 DEF TrafficInv, UserTypes
  <2>5. ReadInv'
    BY <1>1, <2>1 DEF TrafficInv, ReadInv, Account
  <2>6. \A i \in Uid : /\ Total(counter', i) = Total(counter, i)
                       /\ Total(usr'.read, i) = Total(usr.read, i)
    BY <1>1, <2>1
  <2>7. LedgerInv'
    <3>1. ASSUME NEW i \in Uid
          PROVE  /\ ledger'[i].used = ledger'[i].reported + ledger'[i].lost + Total(counter', i)
                                      - Total(usr'.read, i)
                 /\ Total(usr'.read, i) <= ledger'[i].reported
      <4>1. PICK c, r : c = Total(counter, i) /\ r = Total(usr.read, i)
        OBVIOUS
      <4>2. /\ c \in Nat /\ r \in Nat /\ ledger[i].reported \in Nat /\ ledger[i].lost \in Nat
            /\ ledger[i].used = ledger[i].reported + ledger[i].lost + c
        BY <1>2, <4>1
      <4>3. /\ ledger'[i].used = ledger[i].used /\ ledger'[i].lost = ledger[i].lost
            /\ ledger'[i].reported = ledger[i].reported + r
        BY <1>2, <2>2, <4>1
      <4>4. Total(counter', i) = c /\ Total(usr'.read, i) = r
        BY <2>6, <4>1
      <4>5. QED BY <4>2, <4>3, <4>4
    <3>2. QED BY <2>1, <3>1 DEF LedgerInv
  <2>8. QED BY <2>4, <2>5, <2>7 DEF TrafficInv
<1>7. CASE /\ usr' = Rest /\ Received("repeated")
           /\ \A i \in Uid : ledger[i].repeated + Read(i) <= MaxBytes
  <2>1. ASSUME NEW i \in Uid
        PROVE  /\ ledger'[i] = [ledger[i] EXCEPT !.repeated = @ + Read(i)]
               /\ ledger'[i].used = ledger[i].used /\ ledger'[i].lost = ledger[i].lost
               /\ ledger'[i].reported = ledger[i].reported
               /\ ledger'[i].repeated \in 0 .. MaxBytes
    BY <1>2, <1>7, LimitAssumption DEF Received
  <2>2. ledger' \in [Uid -> [used : 0 .. MaxBytes, reported : Nat, repeated : 0 .. MaxBytes, lost : Nat]]
    BY <1>2, <1>7, <2>1 DEF Received
  <2>3. UserTypes'
    BY <1>1, <1>4, <1>7, <2>2 DEF TrafficInv, UserTypes
  <2>4. QED BY <1>3, <1>7, <2>1, <2>3
<1>8. QED BY <1>5, <1>6, <1>7 DEF ReportUserTraffic

LEMMA TrafficReset ==
  ASSUME TrafficInv, NEW k \in Tag \X Uid, resetTraffic(k)
  PROVE  TrafficInv'
<1>1. /\ usr.at = "reset" /\ k \in DOMAIN usr.read /\ k \in DOMAIN counter /\ k[2] \in Uid
      /\ UNCHANGED << mem, tag >>
  BY DEF resetTraffic, TrafficInv, ReadInv, nodeVars, tag
<1>2. PICK f, g, r, q : f = counter /\ g = counter' /\ r = usr.read /\ q = Restrict(r, DOMAIN r \ {k})
  OBVIOUS
<1>3. /\ Account(f) /\ Account(r) /\ k \in DOMAIN f /\ k \in DOMAIN r
      /\ f[k] \in Nat /\ r[k] \in Nat /\ r[k] <= f[k] /\ f \in [DOMAIN f -> Nat]
  BY <1>1, <1>2 DEF TrafficInv, ReadInv, Account
<1>4. g = Set(f, k, 0)
  BY <1>1, <1>2, <1>3 DEF resetTraffic, Set
<1>5. OneSet(f, g, k, 0) /\ Number(f, k) = f[k]
  BY <1>3, <1>4, TotalOfSet DEF Number
<1>6. /\ Account(g) /\ DOMAIN g = DOMAIN f
      /\ Total(g, k[2]) = Total(f, k[2]) - f[k] + 0
      /\ \A i \in Uid \ {k[2]} : Total(g, i) = Total(f, i)
  BY <1>3, <1>5 DEF OneSet
<1>7. /\ Account(q) /\ DOMAIN q = DOMAIN r \ {k} /\ \A j \in DOMAIN q : q[j] = r[j]
      /\ Total(q, k[2]) = Total(r, k[2]) - r[k]
      /\ \A i \in Uid \ {k[2]} : Total(q, i) = Total(r, i)
  BY <1>2, <1>3, TotalOfRest
<1>8. /\ q = usr'.read
      /\ usr'.at = IF DOMAIN q = {} THEN "idle" ELSE "reset"
      /\ usr'.todo \in UserList /\ usr'.slow \subseteq User
      /\ usr' \in [at : {"idle", "reset"}, todo : UserList, slow : SUBSET User, read : {q}]
  <2>1. CASE DOMAIN q = {}
    <3>1. usr' = Rest
      BY <1>2, <1>7, <2>1 DEF resetTraffic
    <3>2. q = << >>
      BY <1>7, <2>1 DEF Account
    <3>3. QED BY <2>1, <3>1, <3>2 DEF Rest, UserList
  <2>2. CASE DOMAIN q # {}
    <3>1. usr' = [usr EXCEPT !.read = q]
      BY <1>2, <1>7, <2>2 DEF resetTraffic
    <3>2. QED BY <1>1, <2>2, <3>1 DEF TrafficInv, UserTypes
  <2>3. QED BY <2>1, <2>2
<1>9. ASSUME NEW i \in Uid
      PROVE  /\ ledger'[i].used = ledger[i].used /\ ledger'[i].reported = ledger[i].reported
             /\ ledger'[i].lost = IF i = k[2] THEN ledger[i].lost + f[k] - r[k] ELSE ledger[i].lost
             /\ ledger[i].used \in Nat /\ ledger[i].reported \in Nat /\ ledger[i].lost \in Nat
  BY <1>1, <1>2 DEF resetTraffic, TrafficInv, UserTypes
<1>10. UserTypes'
  <2>1. ledger[k[2]].lost + f[k] - r[k] \in Nat
    BY <1>1, <1>3, <1>9
  <2>2. ledger' \in [Uid -> [used : 0 .. MaxBytes, reported : Nat, repeated : 0 .. MaxBytes, lost : Nat]]
    BY <1>1, <1>2, <2>1 DEF resetTraffic, TrafficInv, UserTypes
  <2>3. QED BY <1>1, <1>8, <2>2 DEF TrafficInv, UserTypes
<1>11. ReadInv'
  <2>1. \A j \in DOMAIN q : g[j] = f[j] /\ q[j] = r[j] /\ j \in DOMAIN r /\ j \in DOMAIN g
    BY <1>2, <1>4, <1>6, <1>7 DEF Set, TrafficInv, ReadInv
  <2>2. QED BY <1>2, <1>6, <1>7, <1>8, <2>1 DEF TrafficInv, ReadInv
<1>12. LedgerInv'
  <2>1. ASSUME NEW i \in Uid
        PROVE  /\ Total(f, i) \in Nat /\ Total(r, i) \in Nat /\ Total(q, i) \in Nat
               /\ Total(g, i) \in Nat
               /\ Total(g, i) = IF i = k[2] THEN Total(f, i) - f[k] ELSE Total(f, i)
               /\ Total(q, i) = IF i = k[2] THEN Total(r, i) - r[k] ELSE Total(r, i)
    <3>1. Total(f, i) \in Nat /\ Total(r, i) \in Nat /\ Total(q, i) \in Nat /\ Total(g, i) \in Nat
      BY <1>3, <1>6, <1>7, TotalType
    <3>2. QED BY <1>3, <1>5, <1>6, <1>7, <3>1
  <2>2. ASSUME NEW i \in Uid
        PROVE  /\ ledger[i].used = ledger[i].reported + ledger[i].lost + Total(f, i) - Total(r, i)
               /\ Total(r, i) <= ledger[i].reported
    BY <1>1, <1>2 DEF TrafficInv, LedgerInv
  <2>3. \A i \in Uid : DOMAIN q = {} => Total(q, i) = 0
    BY TotalOfNone
  <2>4. ASSUME NEW i \in Uid
        PROVE  /\ ledger'[i].used = ledger'[i].reported + ledger'[i].lost + Total(g, i) - Total(q, i)
               /\ Total(q, i) <= ledger'[i].reported
    BY <1>3, <1>9, <2>1, <2>2
  <2>5. CASE DOMAIN q = {}
    <3>1. counter' = g /\ usr'.at = "idle"
      BY <1>2, <1>8, <2>5
    <3>2. \A i \in Uid : ledger'[i].used = ledger'[i].reported + ledger'[i].lost + Total(g, i) - 0
      BY <2>3, <2>4, <2>5
    <3>3. QED BY <3>1, <3>2 DEF LedgerInv
  <2>6. CASE DOMAIN q # {}
    <3>1. counter' = g /\ usr'.at = "reset" /\ usr'.read = q
      BY <1>2, <1>8, <2>6
    <3>2. QED BY <2>4, <3>1 DEF LedgerInv
  <2>7. QED BY <2>5, <2>6
<1>13. QED BY <1>10, <1>11, <1>12 DEF TrafficInv

\* Every step of the two monitors, and of the traffic, keeps the account.
LEMMA TrafficStep ==
  ASSUME Inv, Inv', TrafficInv, [Next]_vars
  PROVE  TrafficInv'
<1>1. mem'.users \in UserList /\ tag' \in Tag
  BY DEF Inv, Shape, tag, Tag
<1>2. CASE UNCHANGED << usr, counter, ledger >>
  <2>1. UserTypes'
    BY <1>1, <1>2 DEF TrafficInv, UserTypes
  <2>2. ReadInv'
    BY <1>2 DEF TrafficInv, ReadInv, Account
  <2>3. LedgerInv'
    BY <1>2 DEF TrafficInv, LedgerInv, Total, Of
  <2>4. QED BY <2>1, <2>2, <2>3 DEF TrafficInv
<1>3. CASE PanelStep \/ nodeInfoMonitor \/ UNCHANGED vars
  <2>1. UNCHANGED userVars
    BY <1>3 DEF PanelStep, PanelChanges, nodeInfoMonitor, GetNodeInfo, GetUserList, removeOldTag,
                addNewTag, DeleteInboundLimiter, FillInbound, AddInboundLimiter, DropUsers, JoinUsers,
                LimitJoined, vars
  <2>2. QED BY <1>2, <2>1 DEF userVars
<1>4. ASSUME NEW t \in Tag, NEW i \in Uid, Transfer(t, i)
      PROVE  TrafficInv'
  BY <1>4, TrafficTransfer
<1>5. CASE UserTick \/ RangeUsers \/ LimitUsers
  <2>1. /\ UNCHANGED << counter, ledger >> /\ UNCHANGED usr.read
        /\ usr.at \in {"idle", "list", "read"} /\ usr'.at \in {"list", "read", "report"}
        /\ usr'.at = "list" => usr.at = "idle"
        /\ usr' \in [at : {"list", "read", "report"}, todo : UserList, slow : SUBSET User, read : {usr'.read}]
    BY <1>5, <1>1 DEF UserTick, RangeUsers, LimitUsers, TrafficInv, UserTypes
  <2>2. UserTypes'
    BY <1>1, <2>1 DEF TrafficInv, UserTypes
  <2>3. QED BY <2>1, <2>2, TrafficKept
<1>6. ASSUME NEW u \in User, getTraffic(u)
      PROVE  TrafficInv'
  BY <1>6, TrafficGet
<1>7. CASE ReportUserTraffic
  BY <1>7, TrafficReport
<1>8. ASSUME NEW k \in Tag \X Uid, resetTraffic(k)
      PROVE  TrafficInv'
  BY <1>8, TrafficReset
<1>9. CASE userInfoMonitor
  BY <1>5, <1>6, <1>7, <1>8, <1>9 DEF userInfoMonitor
<1>10. QED BY <1>3, <1>4, <1>9 DEF Next

\* Nobody is in an inbound twice, and a tag is always of a node.
ServiceTypes ==
  /\ \A t \in DOMAIN core : core[t] \in UserList
  /\ DOMAIN limiter \subseteq Tag
  /\ warned \in [User -> 0 .. WarnTimes]

LEMMA ServiceInit == Init => ServiceTypes
  BY UserAssumption, NodeAssumption, LimitAssumption DEF Init, ServiceTypes, One, Tag, tag

LEMMA LimitersKept ==
  ASSUME NEW f, NEW t, UpdateInboundLimiter(t, f)
  PROVE  DOMAIN limiter' = DOMAIN limiter
  BY DEF UpdateInboundLimiter, Set

LEMMA UsersAdded ==
  ASSUME Inv, ServiceTypes, NEW users \in UserList, NEW done, addUsers(users, done)
  PROVE  \A t \in DOMAIN core' : core'[t] \in UserList
<1>1. CASE tag \in DOMAIN core
  <2>1. /\ done \subseteq users /\ \A u \in done : \A v \in core[tag] : UidOf[v] # UidOf[u]
        /\ core' = Set(core, tag, core[tag] \cup done)
    BY <1>1 DEF addUsers, Present
  <2>2. core[tag] \cup done \in UserList
    BY <1>1, <2>1 DEF UserList, ServiceTypes
  <2>3. QED BY <1>1, <2>1, <2>2 DEF Set, ServiceTypes
<1>2. CASE tag \notin DOMAIN core
  BY <1>2 DEF addUsers, ServiceTypes
<1>3. QED BY <1>1, <1>2

LEMMA ServiceStep ==
  ASSUME Inv, TrafficInv, ServiceTypes, [Next]_vars
  PROVE  ServiceTypes'
<1>1. mem.users \in UserList /\ mon.users \in UserList /\ tag \in Tag
  BY DEF Inv, Shape, tag, Tag
<1>2. CASE PanelStep \/ UNCHANGED vars \/ \E t \in Tag, i \in Uid : Transfer(t, i)
  <2>1. UNCHANGED << core, limiter, warned >>
    BY <1>2 DEF PanelStep, PanelChanges, Transfer, vars, nodeVars, userVars
  <2>2. QED BY <2>1 DEF ServiceTypes
<1>3. CASE nodeInfoMonitor
  <2>1. UNCHANGED warned
    BY <1>3 DEF nodeInfoMonitor, GetNodeInfo, GetUserList, removeOldTag, addNewTag,
                DeleteInboundLimiter, FillInbound, AddInboundLimiter, DropUsers, JoinUsers,
                LimitJoined, userVars
  <2>2. \A t \in DOMAIN core' : core'[t] \in UserList
    <3>1. CASE GetNodeInfo \/ GetUserList \/ DeleteInboundLimiter \/ AddInboundLimiter \/ LimitJoined
      <4>1. UNCHANGED core
        BY <3>1 DEF GetNodeInfo, GetUserList, DeleteInboundLimiter, AddInboundLimiter, LimitJoined
      <4>2. QED BY <4>1 DEF ServiceTypes
    <3>2. CASE removeOldTag
      BY <3>2 DEF removeOldTag, ServiceTypes, Restrict
    <3>3. CASE addNewTag
      BY <3>3 DEF addNewTag, ServiceTypes, Set, UserList
    <3>4. CASE FillInbound
      BY <1>1, <3>4, UsersAdded DEF FillInbound
    <3>5. CASE JoinUsers
      <4>1. added \in UserList
        BY <1>1 DEF added, UserList
      <4>2. QED BY <3>5, <4>1, UsersAdded DEF JoinUsers
    <3>6. CASE DropUsers
      <4>1. PICK done : removeUsers(deleted, done)
        BY <3>6 DEF DropUsers
      <4>2. tag \in DOMAIN core => {v \in core[tag] : \A u \in done : UidOf[u] # UidOf[v]} \in UserList
        BY DEF UserList, ServiceTypes
      <4>3. QED BY <4>1, <4>2 DEF removeUsers, Set, ServiceTypes
    <3>7. QED BY <1>3, <3>1, <3>2, <3>3, <3>4, <3>5, <3>6 DEF nodeInfoMonitor
  <2>3. DOMAIN limiter' \subseteq Tag
    <3>1. CASE GetNodeInfo \/ GetUserList \/ removeOldTag \/ addNewTag \/ FillInbound \/ DropUsers \/ JoinUsers
      <4>1. UNCHANGED limiter
        BY <3>1 DEF GetNodeInfo, GetUserList, removeOldTag, addNewTag, FillInbound, DropUsers, JoinUsers
      <4>2. QED BY <4>1 DEF ServiceTypes
    <3>2. CASE DeleteInboundLimiter
      BY <3>2 DEF DeleteInboundLimiter, Restrict, ServiceTypes
    <3>3. CASE AddInboundLimiter
      BY <1>1, <3>3 DEF AddInboundLimiter, Set, ServiceTypes
    <3>4. CASE LimitJoined
      <4>1. PICK f : UpdateInboundLimiter(tag, f)
        BY <3>4 DEF LimitJoined
      <4>2. QED BY <4>1, LimitersKept DEF ServiceTypes
    <3>5. QED BY <1>3, <3>1, <3>2, <3>3, <3>4 DEF nodeInfoMonitor
  <2>4. QED BY <2>1, <2>2, <2>3 DEF ServiceTypes
<1>4. CASE userInfoMonitor
  <2>1. UNCHANGED core
    BY <1>4 DEF userInfoMonitor, UserTick, RangeUsers, getTraffic, LimitUsers, ReportUserTraffic,
                resetTraffic, nodeVars
  <2>2. DOMAIN limiter' = DOMAIN limiter
    <3>1. CASE UserTick
      <4>1. PICK f : UpdateInboundLimiter(tag, f)
        BY <3>1 DEF UserTick
      <4>2. QED BY <4>1, LimitersKept
    <3>2. CASE LimitUsers
      <4>1. PICK f : UpdateInboundLimiter(tag, f)
        BY <3>2 DEF LimitUsers
      <4>2. QED BY <4>1, LimitersKept
    <3>3. CASE RangeUsers \/ ReportUserTraffic \/ (\E u \in User : getTraffic(u))
               \/ \E k \in Tag \X Uid : resetTraffic(k)
      BY <3>3 DEF RangeUsers, ReportUserTraffic, getTraffic, resetTraffic
    <3>4. QED BY <1>4, <3>1, <3>2, <3>3 DEF userInfoMonitor
  <2>3. warned' \in [User -> 0 .. WarnTimes]
    <3>1. ASSUME NEW u \in User, getTraffic(u)
          PROVE  warned' \in [User -> 0 .. WarnTimes]
      <4>1. PICK w : /\ warned' = [warned EXCEPT ![u] = w]
                     /\ w = 0 \/ (w = warned[u] + 1 /\ ~(warned[u] >= WarnTimes))
        BY <3>1 DEF getTraffic, LastWarning
      <4>2. w \in 0 .. WarnTimes
        BY <4>1, LimitAssumption DEF ServiceTypes
      <4>3. QED BY <4>1, <4>2 DEF ServiceTypes
    <3>2. CASE UserTick \/ RangeUsers \/ LimitUsers \/ ReportUserTraffic
               \/ \E k \in Tag \X Uid : resetTraffic(k)
      BY <3>2 DEF UserTick, RangeUsers, LimitUsers, ReportUserTraffic, resetTraffic, ServiceTypes
    <3>3. QED BY <1>4, <3>1, <3>2 DEF userInfoMonitor
  <2>4. QED BY <2>1, <2>2, <2>3 DEF ServiceTypes
<1>5. QED BY <1>2, <1>3, <1>4 DEF Next

LEMMA TrafficHolds == Spec => [](Inv /\ TrafficInv /\ ServiceTypes)
<1>1. Init => Inv /\ TrafficInv /\ ServiceTypes
  BY InitInv, TrafficInit, ServiceInit
<1>2. Inv /\ TrafficInv /\ ServiceTypes /\ [Next]_vars => (Inv /\ TrafficInv /\ ServiceTypes)'
  BY StepKeepsInv, TrafficStep, ServiceStep
<1>3. QED BY <1>1, <1>2, PTL DEF Spec

\* No byte is reported twice or forgotten but those counted between the
\* reading and the reset of a counter, however userInfoMonitor, the traffic
\* and nodeInfoMonitor's changes of the Tag interleave, and whatever reports
\* and answers are lost.
THEOREM NoByteIsForgotten == Spec => []TrafficIsConserved
<1>1. TrafficInv => TrafficIsConserved
  BY DEF TrafficInv, LedgerInv, TrafficIsConserved, Counted, Read, Total, Of
<1>2. QED BY <1>1, TrafficHolds, PTL

\* Every variable keeps its type, and no number of bytes exceeds those used.
THEOREM ControllerTypeCorrect == Spec => []ControllerTypeOK
<1>1. ASSUME Inv, TrafficInv, ServiceTypes
      PROVE  ControllerTypeOK
  <2>1. ASSUME NEW i \in Uid
        PROVE  /\ ledger[i] \in [used : 0 .. MaxBytes, reported : 0 .. MaxBytes,
                                 repeated : 0 .. MaxBytes, lost : 0 .. MaxBytes]
               /\ Total(counter, i) <= MaxBytes
    <3>1. /\ Total(counter, i) \in Nat /\ Total(usr.read, i) \in Nat
          /\ Total(usr.read, i) <= Total(counter, i)
      BY <1>1, TotalBounds DEF TrafficInv, ReadInv
    <3>2. /\ ledger[i] \in [used : 0 .. MaxBytes, reported : Nat, repeated : 0 .. MaxBytes, lost : Nat]
          /\ ledger[i].used = ledger[i].reported + ledger[i].lost + Total(counter, i)
                              - (IF usr.at = "reset" THEN Total(usr.read, i) ELSE 0)
          /\ usr.at = "reset" => Total(usr.read, i) <= ledger[i].reported
      BY <1>1 DEF TrafficInv, UserTypes, LedgerInv
    <3>3. ledger[i].reported <= MaxBytes /\ ledger[i].lost <= MaxBytes /\ Total(counter, i) <= MaxBytes
      BY <3>1, <3>2, LimitAssumption
    <3>4. QED BY <3>2, <3>3
  <2>2. \A k \in DOMAIN counter : counter[k] \in 0 .. MaxBytes
    <3>1. ASSUME NEW k \in DOMAIN counter
          PROVE  counter[k] \in Nat /\ counter[k] <= Total(counter, k[2]) /\ k[2] \in Uid
      BY <1>1, TotalIncludes DEF TrafficInv, ReadInv, Account
    <3>2. \A i \in Uid : Total(counter, i) \in Nat
      BY <1>1, TotalType DEF TrafficInv, ReadInv
    <3>3. QED BY <2>1, <3>1, <3>2, LimitAssumption
  <2>3. \A k \in DOMAIN usr.read : usr.read[k] \in 1 .. MaxBytes
    BY <1>1, <2>2, LimitAssumption DEF TrafficInv, ReadInv, Account
  <2>4. ledger \in [Uid -> [{"used", "reported", "repeated", "lost"} -> 0 .. MaxBytes]]
    BY <1>1, <2>1 DEF TrafficInv, UserTypes
  <2>5. /\ DOMAIN counter \subseteq Tag \X Uid /\ DOMAIN usr.read \subseteq Tag \X Uid
        /\ usr.at \in {"idle", "list", "read", "report", "reset"}
        /\ usr.todo \in UserList /\ usr.slow \subseteq User
    BY <1>1 DEF TrafficInv, UserTypes, ReadInv, Account
  <2>6. /\ DOMAIN core \subseteq Tag /\ \A t \in DOMAIN core : core[t] \in UserList
        /\ DOMAIN limiter \subseteq Tag /\ \A t \in DOMAIN limiter : limiter[t] \in [Uid -> Entry]
        /\ warned \in [User -> 0 .. WarnTimes]
    BY <1>1 DEF Inv, Shape, InboundInv, ServiceTypes, TrafficInv, UserTypes
  <2>7. QED BY <1>1, <2>2, <2>3, <2>4, <2>5, <2>6 DEF ControllerTypeOK, Inv, Shape, Steps
<1>2. QED BY <1>1, TrafficHolds, PTL

=============================================================================
