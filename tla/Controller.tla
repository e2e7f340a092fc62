----------------------------- MODULE Controller -----------------------------
(***************************************************************************)
(* A node's controller (service/controller): nodeInfoMonitor polls the     *)
(* panel and brings xray-core and the limiter up to date; userInfoMonitor  *)
(* limits fast users, reports traffic and resets the counters.  They are   *)
(* two timer goroutines which share the controller's fields and the        *)
(* limiter without a lock; every call they make to the panel, the core or  *)
(* the limiter is a step.                                                  *)
(***************************************************************************)
EXTENDS Naturals, Functions

CONSTANTS
  Node,        \* node settings the panel may have
  Portless,    \* those of them with port 0
  TagOf,       \* the tag made of a node's type and port
  User,        \* UserInfo records: a user with a speed and a device limit
  UidOf,       \* whose record it is
  Lists,       \* the user lists the panel may have
  Faults,      \* calls that may fail
  UserTask,    \* whether userInfoMonitor is started too
  AutoLimit,   \* AutoSpeedLimitConfig.Limit, in bytes per period; 0 is off
  WarnTimes,   \* AutoSpeedLimitConfig.WarnTimes
  MaxBytes     \* bound: bytes of each user

ASSUME NodeAssumption == Portless \subseteq Node /\ DOMAIN TagOf = Node
ASSUME LimitAssumption ==
  UserTask \in BOOLEAN /\ AutoLimit \in Nat /\ WarnTimes \in Nat /\ MaxBytes \in Nat

VARIABLES
  panel,     \* the panel: its node and users
  etag,      \* what of it the client was sent last
  mem,       \* the controller's nodeInfo (and so its Tag) and userList
  core,      \* the inbounds of xray-core and the users of each
  limiter,   \* the inbounds of the limiter and the limit of each user
  mon,       \* nodeInfoMonitor
  usr,       \* userInfoMonitor
  limited,   \* limitedUsers
  warned,    \* warnedUsers
  counter,   \* the traffic counters of xray-core
  ledger,    \* history: what became of each user's bytes
  damage     \* history: the worst that a failed call has left behind

nodeVars == << panel, etag, mem, core, mon >>
userVars == << usr, limited, warned, counter, ledger >>
vars     == << nodeVars, userVars, limiter, damage >>

Tag      == {TagOf[n] : n \in Node}
Uid      == {UidOf[u] : u \in User}
UserList == {l \in SUBSET User : \A u, v \in l : UidOf[u] = UidOf[v] => u = v}

ASSUME UserAssumption ==
  DOMAIN UidOf = User /\ {"none", "slow"} \cap User = {} /\ Lists \subseteq UserList

Entry == User \cup {"none", "slow"}

tag == TagOf[mem.node]

Set(f, x, v) == [y \in DOMAIN f \cup {x} |-> IF y = x THEN v ELSE f[y]]

May(call) == call \in Faults

\* Damage: a node the panel has sent is lost; there is no inbound; there is
\* one without some of its users.
None    == 0
Stale   == 1
Down    == 2
Partial == 3

Does(harm)  == damage' = IF harm > damage THEN harm ELSE damage
NoHarm      == UNCHANGED damage

(***************************************************************************)
(* The panel.  A change while the monitor works is one it may miss.        *)
(***************************************************************************)

PanelChanges(new) ==
  /\ panel' = new /\ new # panel
  /\ mon' = [mon EXCEPT !.current = FALSE]
  /\ UNCHANGED << etag, mem, core, userVars, limiter, damage >>

PanelStep ==
  \/ \E n \in Node : PanelChanges([panel EXCEPT !.node = n])
  \/ \E l \in Lists : PanelChanges([panel EXCEPT !.users = l])

(***************************************************************************)
(* The limiter and the user lists of xray-core.                            *)
(***************************************************************************)

LimitsOf(users) ==
  [i \in Uid |-> IF \E u \in users : UidOf[u] = i THEN CHOOSE u \in users : UidOf[u] = i ELSE "none"]

\* Sets the limit of the users of f.  Of two records of a user the last one
\* counts, and they come in any order.
UpdateInboundLimiter(t, f) ==
  IF t \notin DOMAIN limiter
  THEN UNCHANGED limiter
  ELSE \E e \in [Uid -> Entry] :
         /\ \A i \in Uid :
              LET his == {u \in DOMAIN f : UidOf[u] = i}
              IN  IF his = {} THEN e[i] = limiter[t][i] ELSE \E u \in his : e[i] = f[u]
         /\ limiter' = Set(limiter, t, e)

Present(u) == tag \in DOMAIN core /\ \E v \in core[tag] : UidOf[v] = UidOf[u]

\* Faulty: a user who is there already is added again.
addUsers_twice(users, done) ==
  /\ done \in SUBSET {u \in users : tag \in DOMAIN core}
  /\ core' = IF tag \in DOMAIN core THEN Set(core, tag, core[tag] \cup done) ELSE core
  /\ IF done = users THEN NoHarm ELSE May("user") /\ Does(Partial)

\* Adds the users one after another until one cannot be added.
addUsers(users, done) ==
  /\ done \in SUBSET {u \in users : tag \in DOMAIN core /\ ~Present(u)}
  /\ core' = IF tag \in DOMAIN core THEN Set(core, tag, core[tag] \cup done) ELSE core
  /\ IF tag \in DOMAIN core /\ \A u \in users : ~Present(u)
     THEN IF done = users THEN NoHarm ELSE May("user") /\ Does(Partial)
     ELSE NoHarm

\* Removes the users one after another until one is not there.
removeUsers(users, done) ==
  /\ done \in SUBSET {u \in users : Present(u)}
  /\ (\A u \in users : Present(u)) => done = users
  /\ core' = IF tag \in DOMAIN core
             THEN Set(core, tag, {v \in core[tag] : \A u \in done : UidOf[u] # UidOf[v]})
             ELSE core

(***************************************************************************)
(* nodeInfoMonitor.                                                        *)
(***************************************************************************)

MonGoto(step) == mon' = [mon EXCEPT !.at = step]

AtRest(current) ==
  [at |-> "idle", node |-> "none", users |-> {}, oldTag |-> "none", current |-> current]

\* The end of a run before it was complete.
GiveUp == mon' = AtRest(FALSE)

\* The end of a run; c.userList is assigned.
Finish ==
  /\ mem' = [mem EXCEPT !.users = mon.users]
  /\ mon' = AtRest(mon.current)

\* An error of the port ends the periodic task for good.
TakeNode(n) ==
  mon' = [mon EXCEPT !.at = IF n \in Portless THEN "dead" ELSE "users", !.node = n, !.current = TRUE]

\* Faulty: the client remembers the ETag of an answer it has not got.
GetNodeInfo_early ==
  /\ mon.at = "idle"
  /\ etag' = [etag EXCEPT !.node = panel.node]
  /\ \/ May("node") /\ GiveUp
     \/ TakeNode(IF etag.node = panel.node THEN mem.node ELSE panel.node)
  /\ UNCHANGED << panel, mem, core, userVars, limiter, damage >>

\* The client answers NotModified, fails, or returns what the panel has.
GetNodeInfo ==
  /\ mon.at = "idle"
  /\ \/ May("node") /\ GiveUp /\ UNCHANGED etag
     \/ /\ etag' = [etag EXCEPT !.node = panel.node]
        /\ TakeNode(IF etag.node = panel.node THEN mem.node ELSE panel.node)
  /\ UNCHANGED << panel, mem, core, userVars, limiter, damage >>

\* When this call fails, a node that GetNodeInfo has returned is forgotten:
\* it will not be modified the next time.
GetUserList ==
  /\ mon.at = "users"
  /\ \/ /\ May("users") /\ GiveUp
        /\ Does(IF mon.node # mem.node THEN Stale ELSE None)
        /\ UNCHANGED etag
     \/ /\ NoHarm
        /\ etag' = [etag EXCEPT !.users = panel.users]
        /\ mon' = [mon EXCEPT
             !.at      = IF mon.node = mem.node THEN "drop" ELSE "remove",
             !.users   = IF etag.users = panel.users THEN mem.users ELSE panel.users]
  /\ UNCHANGED << panel, mem, core, userVars, limiter >>

\* Faulty: the new tag, which has been assigned too early.
removeOldTag_new ==
  /\ mon.at = "remove"
  /\ core' = Restrict(core, DOMAIN core \ {TagOf[mon.node]})
  /\ MonGoto("add")
  /\ UNCHANGED << panel, etag, mem, userVars, limiter, damage >>

removeOldTag ==
  /\ mon.at = "remove"
  /\ IF tag \in DOMAIN core
     THEN core' = Restrict(core, DOMAIN core \ {tag}) /\ MonGoto("add")
     ELSE GiveUp /\ UNCHANGED core
  /\ UNCHANGED << panel, etag, mem, userVars, limiter, damage >>

\* nodeInfo and Tag are assigned first.  The inbound, or only the outbound,
\* may be refused.
addNewTag ==
  /\ mon.at = "add"
  /\ mem' = [mem EXCEPT !.node = mon.node]
  /\ \/ May("inbound") /\ Does(Down) /\ GiveUp /\ UNCHANGED core
     \/ /\ core' = Set(core, TagOf[mon.node], {})
        /\ \/ May("outbound") /\ Does(Partial) /\ GiveUp
           \/ NoHarm /\ mon' = [mon EXCEPT !.at = "unlimit", !.oldTag = tag]
  /\ UNCHANGED << panel, etag, userVars, limiter >>

\* Faulty: the limiter of the tag the controller has now.
DeleteInboundLimiter_new ==
  /\ mon.at = "unlimit"
  /\ limiter' = Restrict(limiter, DOMAIN limiter \ {tag})
  /\ mon' = [mon EXCEPT !.at = "fill", !.oldTag = "none"]
  /\ UNCHANGED << panel, etag, mem, core, userVars, damage >>

DeleteInboundLimiter ==
  /\ mon.at = "unlimit"
  /\ limiter' = Restrict(limiter, DOMAIN limiter \ {mon.oldTag})
  /\ mon' = [mon EXCEPT !.at = "fill", !.oldTag = "none"]
  /\ UNCHANGED << panel, etag, mem, core, userVars, damage >>

\* The users of a new inbound; after an error they have no limiter.
FillInbound ==
  /\ mon.at = "fill"
  /\ \E done \in SUBSET mon.users :
       /\ addUsers(mon.users, done)
       /\ IF done = mon.users THEN MonGoto("limit") ELSE GiveUp
  /\ UNCHANGED << panel, etag, mem, userVars, limiter >>

AddInboundLimiter ==
  /\ mon.at = "limit"
  /\ limiter' = Set(limiter, tag, LimitsOf(mon.users))
  /\ Finish
  /\ UNCHANGED << panel, etag, core, userVars, damage >>

\* Faulty: a user whose limits have changed is the same user.
deleted_byUid == {u \in mem.users : \A v \in mon.users : UidOf[u] # UidOf[v]}

\* compareUserList
deleted == mem.users \ mon.users
added   == mon.users \ mem.users

\* An error is logged, and the run goes on.
DropUsers ==
  /\ mon.at = "drop"
  /\ \E done \in SUBSET deleted : removeUsers(deleted, done)
  /\ IF added = {} THEN Finish ELSE MonGoto("join") /\ UNCHANGED mem
  /\ UNCHANGED << panel, etag, userVars, limiter, damage >>

JoinUsers ==
  /\ mon.at = "join"
  /\ \E done \in SUBSET added : addUsers(added, done)
  /\ MonGoto("update")
  /\ UNCHANGED << panel, etag, mem, userVars, limiter >>

LimitJoined ==
  /\ mon.at = "update"
  /\ UpdateInboundLimiter(tag, [u \in added |-> u])
  /\ Finish
  /\ UNCHANGED << panel, etag, core, userVars, damage >>

nodeInfoMonitor ==
  \/ GetNodeInfo
  \/ GetUserList
  \/ removeOldTag
  \/ addNewTag
  \/ DeleteInboundLimiter
  \/ FillInbound
  \/ AddInboundLimiter
  \/ DropUsers
  \/ JoinUsers
  \/ LimitJoined

(***************************************************************************)
(* Traffic.  A connection goes on when its user is removed.                *)
(***************************************************************************)

Bytes(k) == IF k \in DOMAIN counter THEN counter[k] ELSE 0

\* The user i is served by the inbound t, or has been.
Transfer(t, i) ==
  /\ ledger[i].used < MaxBytes
  /\ \/ t \in DOMAIN core /\ \E u \in core[t] : UidOf[u] = i
     \/ << t, i >> \in DOMAIN counter
  /\ counter' = Set(counter, << t, i >>, Bytes(<< t, i >>) + 1)
  /\ ledger' = [ledger EXCEPT ![i].used = @ + 1]
  /\ UNCHANGED << nodeVars, usr, limited, warned, limiter, damage >>

(***************************************************************************)
(* userInfoMonitor.                                                        *)
(***************************************************************************)

Rest == [at |-> "idle", todo |-> {}, slow |-> {}, read |-> << >>]

\* Faulty: the limiter is not told.
UserTick_silent ==
  /\ UserTask
  /\ usr.at = "idle"
  /\ \E up \in SUBSET limited : limited' = limited \ up
  /\ usr' = [usr EXCEPT !.at = "list"]
  /\ UNCHANGED << nodeVars, warned, counter, ledger, limiter, damage >>

\* Some limited users are released, those whose time is up.
UserTick ==
  /\ UserTask
  /\ usr.at = "idle"
  /\ \E up \in SUBSET limited :
       /\ limited' = limited \ up
       /\ UpdateInboundLimiter(tag, [u \in up |-> u])
  /\ usr' = [usr EXCEPT !.at = "list"]
  /\ UNCHANGED << nodeVars, warned, counter, ledger, damage >>

RangeUsers ==
  /\ usr.at = "list"
  /\ usr' = [usr EXCEPT !.at = "read", !.todo = mem.users]
  /\ UNCHANGED << nodeVars, limited, warned, counter, ledger, limiter, damage >>

Overspeed(u, bytes) == AutoLimit > 0 /\ bytes > AutoLimit /\ u \notin limited

\* More than WarnTimes periods in a row over the limit.
LastWarning(u) == warned[u] >= WarnTimes

getTraffic(u) ==
  /\ usr.at = "read"
  /\ u \in usr.todo
  /\ LET bytes  == Bytes(<< tag, UidOf[u] >>)
         over   == Overspeed(u, bytes)
         punish == over /\ LastWarning(u)
     IN  /\ warned' = [warned EXCEPT ![u] = IF over /\ ~punish THEN @ + 1 ELSE 0]
         /\ limited' = IF punish THEN limited \cup {u} ELSE limited
         /\ usr' = [usr EXCEPT
              !.todo = @ \ {u},
              !.slow = IF punish THEN @ \cup {u} ELSE @,
              !.read = IF bytes > 0 THEN Set(@, << tag, UidOf[u] >>, bytes) ELSE @]
  /\ UNCHANGED << nodeVars, counter, ledger, limiter, damage >>

LimitUsers ==
  /\ usr.at = "read"
  /\ usr.todo = {}
  /\ UpdateInboundLimiter(tag, [u \in usr.slow |-> "slow"])
  /\ usr' = [usr EXCEPT !.at = "report", !.slow = {}]
  /\ UNCHANGED << nodeVars, limited, warned, counter, ledger, damage >>

Read(i) == SumFunctionOnSet(usr.read, {k \in DOMAIN usr.read : k[2] = i})

Received(field) ==
  ledger' = [i \in Uid |-> [ledger[i] EXCEPT ![field] = @ + Read(i)]]

\* Faulty: the counters are reset in any case.
ReportUserTraffic_clears ==
  /\ usr.at = "report"
  /\ \/ usr.read = << >> /\ usr' = Rest /\ UNCHANGED ledger
     \/ /\ usr.read # << >>
        /\ usr' = [usr EXCEPT !.at = "reset"]
        /\ Received("reported") \/ (May("report") /\ UNCHANGED ledger)
  /\ UNCHANGED << nodeVars, limited, warned, counter, limiter, damage >>

\* If report traffic error, not clear the traffic; also when the panel has
\* received it and only its answer is lost (bound: MaxBytes).
ReportUserTraffic ==
  /\ usr.at = "report"
  /\ \/ usr.read = << >> /\ usr' = Rest /\ UNCHANGED ledger
     \/ /\ usr.read # << >>
        /\ \/ usr' = [usr EXCEPT !.at = "reset"] /\ Received("reported")
           \/ usr' = Rest /\ May("report") /\ UNCHANGED ledger
           \/ /\ usr' = Rest /\ May("answer") /\ Received("repeated")
              /\ \A i \in Uid : ledger[i].repeated + Read(i) <= MaxBytes
  /\ UNCHANGED << nodeVars, limited, warned, counter, limiter, damage >>

\* What was counted since the counter was read is lost.
resetTraffic(k) ==
  /\ usr.at = "reset"
  /\ k \in DOMAIN usr.read
  /\ counter' = [counter EXCEPT ![k] = 0]
  /\ ledger' = [ledger EXCEPT ![k[2]].lost = @ + counter[k] - usr.read[k]]
  /\ LET left == DOMAIN usr.read \ {k}
     IN  usr' = IF left = {} THEN Rest ELSE [usr EXCEPT !.read = Restrict(@, left)]
  /\ UNCHANGED << nodeVars, limited, warned, limiter, damage >>

userInfoMonitor ==
  \/ UserTick
  \/ RangeUsers
  \/ \E u \in User : getTraffic(u)
  \/ LimitUsers
  \/ ReportUserTraffic
  \/ \E k \in Tag \X Uid : resetTraffic(k)

(***************************************************************************)
(* Start, and the specification.                                           *)
(***************************************************************************)

One(t, v) == [x \in {t} |-> v]

Init ==
  /\ panel \in [node : Node \ Portless, users : Lists]
  /\ etag = panel
  /\ mem = panel
  /\ core = One(tag, panel.users)
  /\ limiter = One(tag, LimitsOf(panel.users))
  /\ mon = AtRest(FALSE)
  /\ usr = Rest
  /\ limited = {}
  /\ warned = [u \in User |-> 0]
  /\ counter = << >>
  /\ ledger = [i \in Uid |-> [used |-> 0, reported |-> 0, repeated |-> 0, lost |-> 0]]
  /\ damage = None

Next ==
  \/ PanelStep
  \/ nodeInfoMonitor
  \/ userInfoMonitor
  \/ \E t \in Tag, i \in Uid : Transfer(t, i)

Spec == Init /\ [][Next]_vars

(***************************************************************************)
(* Properties.                                                             *)
(***************************************************************************)

\* Every variable has the type the code gives it.
ControllerTypeOK ==
  /\ panel \in [node : Node, users : UserList]
  /\ etag \in [node : Node, users : UserList]
  /\ mem \in [node : Node, users : UserList]
  /\ DOMAIN core \subseteq Tag /\ \A t \in DOMAIN core : core[t] \in UserList
  /\ DOMAIN limiter \subseteq Tag /\ \A t \in DOMAIN limiter : limiter[t] \in [Uid -> Entry]
  /\ mon \in [at : {"idle", "users", "remove", "add", "unlimit", "fill", "limit",
                    "drop", "join", "update", "dead"},
              node : Node \cup {"none"}, users : UserList,
              oldTag : Tag \cup {"none"}, current : BOOLEAN]
  /\ usr.at \in {"idle", "list", "read", "report", "reset"}
  /\ usr.todo \in UserList /\ usr.slow \subseteq User
  /\ DOMAIN usr.read \subseteq Tag \X Uid /\ \A k \in DOMAIN usr.read : usr.read[k] \in 1 .. MaxBytes
  /\ limited \subseteq User
  /\ warned \in [User -> 0 .. WarnTimes]
  /\ DOMAIN counter \subseteq Tag \X Uid /\ \A k \in DOMAIN counter : counter[k] \in 0 .. MaxBytes
  /\ ledger \in [Uid -> [{"used", "reported", "repeated", "lost"} -> 0 .. MaxBytes]]
  /\ damage \in None .. Partial

MonitorRests == mon.at \in {"idle", "dead"}

\* While nothing in the core has failed, nodeInfoMonitor leaves one inbound,
\* that of the Tag, with the users it remembers, each with his limits; calls
\* to the panel may fail.
CoreFollowsMemory ==
  MonitorRests /\ damage <= Stale =>
    /\ core = One(tag, mem.users)
    /\ DOMAIN limiter = {tag}
    /\ AutoLimit = 0 => \A u \in mem.users : limiter[tag][UidOf[u]] = u

\* A run of nodeInfoMonitor in which no call failed and during which the
\* panel did not change brings the node and the users up to date, unless an
\* earlier run lost a node, because GetUserList failed after GetNodeInfo had
\* returned it or because the core refused it.
PanelIsFollowed ==
  mon.at = "idle" /\ mon.current /\ damage = None => mem = panel

\* No inbound of an older node is left behind, whatever fails.
OneInbound == DOMAIN core \subseteq {tag}

\* Nobody is served whom the controller does not remember, also after an
\* inbound could not be added.
NobodyElseIsServed ==
  MonitorRests /\ damage <= Down =>
    \A t \in DOMAIN core : core[t] \subseteq mem.users

\* A user with the punishment's speed is on the list of users to be released.
SlowIsReleased ==
  damage <= Down /\ tag \in DOMAIN limiter =>
    \A i \in Uid : limiter[tag][i] = "slow" => \E u \in limited : UidOf[u] = i

Counted(i) == SumFunctionOnSet(counter, {k \in DOMAIN counter : k[2] = i})

\* Every byte is reported once, still counted, or was counted between the
\* reading and the reset of its counter; what is reported besides is what the
\* panel had received when its answer was lost.
TrafficIsConserved ==
  \A i \in Uid :
    ledger[i].used = ledger[i].reported + ledger[i].lost + Counted(i)
                     - (IF usr.at = "reset" THEN Read(i) ELSE 0)

=============================================================================
