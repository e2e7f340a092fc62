------------------------------ MODULE PanelApi ------------------------------
(***************************************************************************)
(* What the seven panel clients of api have in common: the panel they      *)
(* ask, the answers a request may get, the ETags, and what the controller  *)
(* does with a result.  Each client is a module of its own which defines   *)
(* the operations of api.API; PanelNode puts them together.                *)
(***************************************************************************)
EXTENDS Integers, FiniteSets

CONSTANTS
  User,       \* user IDs
  Setups,     \* a panel, its node's configuration, and what the panel may have
  Local,      \* the rules of the local rule list
  Malformed,  \* rules whose pattern is no regular expression
  MaxUint32,  \* stands for 2^32 - 1, which is larger than any port
  Faults      \* answers that may come instead of a good one

Kinds == {"SSpanel", "NewV2board", "ProxyPanel", "V2RaySocks", "PMPanel", "BunPanel", "GoV2Panel"}

\* Of a type that its panel does not have, a client's GetNodeInfo is an error.
ASSUME SetupsAssumption ==
  /\ MaxUint32 \in Nat
  /\ \A s \in Setups :
       /\ s.kind \in Kinds
       /\ s.type \in {"V2ray", "Trojan", "Shadowsocks"}
                    \cup (IF s.kind = "SSpanel" THEN {"Shadowsocks-Plugin"} ELSE {})
                    \cup (IF s.kind \in {"SSpanel", "PMPanel", "BunPanel"} THEN {} ELSE {"Vmess", "Vless"})
       /\ s.deviceLimit \in Nat /\ s.devices \in Nat
       /\ s.lists \subseteq [User -> Int] /\ s.away \subseteq [User -> Nat]
       /\ \A n \in s.nodes : n.port \in 0 .. MaxUint32 /\ n.limit \in Nat

\* A local list with such a rule ends XrayR before it has a client.
ASSUME LocalAssumption == Local \cap Malformed = {}

\* Only the answers of these panels have a field for REALITY; the
\* RawServerString of an older SSPanel has none.
ASSUME RealityAssumption ==
  \A s \in Setups : \A n \in s.nodes :
    n.sec = "reality" => /\ s.kind \in {"SSpanel", "NewV2board", "V2RaySocks", "BunPanel"}
                         /\ s.kind = "SSpanel" => ~s.old

VARIABLES
  setup,    \* which of the setups this is
  panel,    \* the panel: its node, users, rules, and devices it counts
  client,   \* the APIClient
  etag,     \* resources of which the client holds the panel's present ETag
  mon,      \* nodeInfoMonitor, or the Start of the controller
  ctl,      \* what the controller remembers and serves
  lost,     \* history: resources whose last new answer was of no use
  counted,  \* history: the panel counts what the client last reported
  list      \* history: what the last user list was made from

Resource == {"node", "users", "rules"}

\* A device limit of the panel: 0 is none, Out is a user it does not have.
Out == -1

None == [u \in User |-> 0]

NoNode == [ok |-> FALSE]
NoInfo == [port |-> 0]

Users(limits) == {u \in User : limits[u] # Out}

Alive(u) == panel.elsewhere[u] + panel.ours[u]

May(fault) == fault \in Faults

(***************************************************************************)
(* Requests.  "none": no answer.  "bad": the header of an answer, ETag     *)
(* included, with a body that is of no use: cut off, an error status or no *)
(* JSON.  A panel that sees its present ETag in If-None-Match answers 304. *)
(***************************************************************************)

Failing == {"none", "bad"} \cap Faults

Answers(r) == IF etag[r] THEN {"304"} \cup ({"none"} \cap Faults) ELSE {"good"} \cup Failing

\* The same without ETags.
PlainAnswers == {"good"} \cup ({"none"} \cap Faults)

\* The ETag of an answer is remembered before its body is looked at.  When the
\* list of users fails, so is that of a node which the controller then drops.
Remember(r, a, used) ==
  LET new == a \in {"good", "bad"}
      dropsNode == r = "users" /\ a # "304" /\ ~used /\ etag["node"] /\ mon.info # ctl.node
  IN  /\ etag' = IF new THEN [etag EXCEPT ![r] = TRUE] ELSE etag
      /\ lost' = [x \in Resource |->
                   IF x = r THEN IF new THEN ~used ELSE lost[x]
                   ELSE lost[x] \/ (x = "node" /\ dropsNode)]

\* Without ETags nothing is lost: the next answer has it again.
Forget(r) == UNCHANGED << etag, lost >>

(***************************************************************************)
(* The controller.  It starts with every error being fatal; from then on   *)
(* an error ends the run of nodeInfoMonitor, and port 0 ends the monitor.  *)
(***************************************************************************)

Is(kind) == setup.kind = kind

AtRest(current) ==
  [at |-> "idle", starting |-> FALSE, info |-> NoInfo, limits |-> None, answer |-> None,
   current |-> current]

Starting == [AtRest(TRUE) EXCEPT !.at = "node", !.starting = TRUE]

Crash == mon' = [AtRest(FALSE) EXCEPT !.at = "crashed", !.starting = mon.starting]

GiveUp == IF mon.starting THEN Crash ELSE mon' = AtRest(FALSE)

Polls(kind) == Is(kind) /\ mon.at \in {"node", "idle"}

TakeNode(info) ==
  IF info.port = 0
  THEN IF mon.starting THEN Crash ELSE mon' = [AtRest(FALSE) EXCEPT !.at = "dead"]
  ELSE mon' = [mon EXCEPT
         !.at      = IF mon.starting THEN "tag" ELSE "users",
         !.info    = info,
         !.current = TRUE]

\* The outcomes of GetNodeInfo: not modified, an error, or a new NodeInfo.
NodeOutcome(a, used, info) ==
  \/ a = "304" /\ TakeNode(ctl.node)
  \/ a # "304" /\ used /\ TakeNode(info)
  \/ a # "304" /\ ~used /\ GiveUp

Asks(kind) == Is(kind) /\ mon.at = "users"

\* The user list is there; a starting controller has its inbound already.
TakeList(limits) ==
  mon' = [mon EXCEPT
    !.at     = IF mon.starting THEN "fill"
               ELSE IF mon.info # ctl.node THEN "tag" ELSE "rules",
    !.limits = limits,
    !.answer = None]

ListOutcome(a, used, limits) ==
  \/ a = "304" /\ TakeList(ctl.limits)
  \/ a # "304" /\ used /\ TakeList(limits)
  \/ a # "304" /\ ~used /\ GiveUp

AsksRules(kind) == Is(kind) /\ mon.at = "rules"

\* An error is only logged; the run is then not complete.
AfterRules(complete) ==
  mon' = IF mon.starting THEN AtRest(mon.current /\ complete)
         ELSE [mon EXCEPT !.at = "fill", !.current = @ /\ complete]

Tag == ctl.node.port

\* UpdateRule is called with the rules of a list that is not empty.
UpdateRule(rules) ==
  ctl' = IF rules = {} THEN ctl
         ELSE [ctl EXCEPT !.rules = [t \in DOMAIN @ \cup {Tag} |-> IF t = Tag THEN rules ELSE @[t]]]

\* regexp.MustCompile panics on a pattern that is none.
MustCompilePanics(rules) == rules \cap Malformed # {}

RulesOutcome(a, rules) ==
  IF a = "good" /\ MustCompilePanics(rules)
  THEN Crash /\ UNCHANGED ctl
  ELSE /\ IF a = "good" THEN UpdateRule(rules) ELSE UNCHANGED ctl
       /\ AfterRules(a \in {"good", "304"})

(***************************************************************************)
(* What several clients do in the same way.                                *)
(***************************************************************************)

\* The cipher of a Shadowsocks node, if xray-core knows it.
Cipher(raw) == IF raw.cipher THEN {"cipher"} ELSE {}

\* The device limit of the configuration comes before the panel's.
OwnLimit(u) ==
  IF panel.limits[u] # Out /\ client.deviceLimit > 0 THEN client.deviceLimit ELSE panel.limits[u]

\* Only the device limit of the configuration.
ConfiguredLimit(u) == IF panel.limits[u] = Out THEN Out ELSE client.deviceLimit

\* The client of another panel does not count devices.
listUnchanged == UNCHANGED << counted, list >>

\* A report of online devices arrives, or fails.
Post(n) ==
  \/ /\ panel' = [panel EXCEPT !.ours = n]
     /\ etag' = [etag EXCEPT !["users"] = @ /\ n = panel.ours]
     /\ counted' = (mon.at # "parse")
  \/ /\ May("none")
     /\ counted' = FALSE
     /\ UNCHANGED << panel, etag >>

\* Devices that userInfoMonitor may report.
Devices == {n \in [User -> 0 .. setup.devices] : n # None}

Reports(kind) == Is(kind) /\ mon.at # "crashed" /\ ~mon.starting

=============================================================================
