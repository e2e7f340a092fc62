----------------------------- MODULE PanelNode ------------------------------
(***************************************************************************)
(* A node of XrayR with any of the seven panels: the controller asks the   *)
(* panel through its client, builds the inbound, and userInfoMonitor       *)
(* reports devices meanwhile.  The config file may be reloaded, and XrayR  *)
(* restarted, at any time.  Module Controller has the finer steps of the   *)
(* controller; here the clients are in detail.                             *)
(***************************************************************************)
EXTENDS PanelApi, InboundBuilder

SSP == INSTANCE SSPanel
V2B == INSTANCE NewV2board
PRX == INSTANCE ProxyPanel
V2S == INSTANCE V2RaySocks
PMP == INSTANCE PMPanel
BUN == INSTANCE BunPanel
GOV == INSTANCE GoV2Panel

vars == << setup, panel, client, etag, mon, ctl, lost, counted, list >>

Down == [protocol |-> "down"]

\* The node the panel's clients return for raw.
NodeOf(raw) ==
  CASE Is("SSpanel")    -> SSP!ParseNode(raw)
    [] Is("NewV2board") -> V2B!ParseNode(raw)
    [] Is("ProxyPanel") -> PRX!ParseNode(raw)
    [] Is("V2RaySocks") -> V2S!ParseNode(raw)
    [] Is("PMPanel")    -> PMP!ParseNode(raw)
    [] Is("BunPanel")   -> BUN!ParseNodeInfo(raw)
    [] Is("GoV2Panel")  -> GOV!ParseNode(raw)

\* panel.Start chooses the client by the PanelType.
NewClient ==
  CASE Is("SSpanel")    -> SSP!New
    [] Is("NewV2board") -> V2B!New
    [] Is("ProxyPanel") -> PRX!New
    [] Is("V2RaySocks") -> V2S!New
    [] Is("PMPanel")    -> PMP!New
    [] Is("BunPanel")   -> BUN!New
    [] Is("GoV2Panel")  -> GOV!New

NoTag == [node |-> NoInfo, limits |-> None, rules |-> << >>, inbound |-> Down, accounts |-> "none"]

NoEtag == [r \in Resource |-> FALSE]

NoList == [of |-> None, given |-> None, elsewhere |-> None, ours |-> None, counted |-> FALSE]

(***************************************************************************)
(* The panel.                                                              *)
(***************************************************************************)

\* The ETag of r changes with it.
PanelChanges(new, r) ==
  /\ panel' = new /\ new # panel
  /\ etag' = [etag EXCEPT ![r] = FALSE]
  /\ mon' = [mon EXCEPT !.current = FALSE]
  /\ UNCHANGED << setup, client, ctl, lost, list >>

PanelStep ==
  \/ \E n \in setup.nodes : PanelChanges([panel EXCEPT !.node = n], "node") /\ UNCHANGED counted
  \/ \E l \in setup.lists : PanelChanges([panel EXCEPT !.limits = l], "users") /\ UNCHANGED counted
  \/ \E s \in setup.rules : PanelChanges([panel EXCEPT !.rules = s], "rules") /\ UNCHANGED counted
  \/ \E d \in setup.away : PanelChanges([panel EXCEPT !.elsewhere = d], "users") /\ UNCHANGED counted
  \/ PanelChanges([panel EXCEPT !.ours = None], "users") /\ counted' = FALSE

(***************************************************************************)
(* The controller.                                                         *)
(***************************************************************************)

HasInbound == mon.starting \/ ctl.inbound # Down

\* After an inbound that could not be built there is nothing to remove, which
\* is an error: the new node and its users are dropped.
removeOldTag ==
  /\ mon.at = "tag"
  /\ ~HasInbound
  /\ GiveUp
  /\ lost' = [lost EXCEPT
       !["node"]  = @ \/ etag["node"],
       !["users"] = @ \/ (etag["users"] /\ mon.limits # ctl.limits)]
  /\ UNCHANGED << setup, panel, client, etag, ctl, counted, list >>

\* The old inbound is gone and nodeInfo is assigned before the new inbound is
\* built.  A starting controller panics if it cannot be.  Rules that do not
\* change are not sent again for a new tag.
addNewTag ==
  /\ mon.at = "tag"
  /\ HasInbound
  /\ \E issued \in {TRUE, ~May("cert")} :
       LET built == addNewTagBuilds(setup.cfg, mon.info, issued)
       IN  /\ ctl' = [ctl EXCEPT
                !.node     = mon.info,
                !.inbound  = IF built THEN FacingInbound(setup.cfg, mon.info) ELSE Down,
                !.accounts = "none"]
           /\ IF addNewTagPanics(setup.cfg, mon.info) THEN Crash
              ELSE IF ~built THEN GiveUp
              ELSE mon' = [mon EXCEPT !.at = IF mon.starting THEN "users" ELSE "rules"]
           /\ lost' = [lost EXCEPT
                !["users"] = @ \/ (etag["users"] /\ ~built /\ mon.limits # ctl.limits),
                !["rules"] = @ \/ (etag["rules"] /\ mon.info.port # Tag)]
  /\ UNCHANGED << setup, panel, client, etag, counted, list >>

\* addNewUser and the assignment of userList.
SyncUsers ==
  /\ mon.at = "fill"
  /\ ctl' = [ctl EXCEPT !.limits   = mon.limits,
                        !.accounts = IF ctl.inbound # Down THEN addNewUser(ctl.node) ELSE @]
  /\ mon' = IF mon.starting THEN [mon EXCEPT !.at = "rules"] ELSE AtRest(mon.current)
  /\ UNCHANGED << setup, panel, client, etag, lost, counted, list >>

(***************************************************************************)
(* XrayR.                                                                  *)
(***************************************************************************)

\* Close and Start when the config file has changed, or a new process: a new
\* client without ETags and a new controller.
Restart ==
  /\ client' = NewClient
  /\ etag' = NoEtag
  /\ mon' = Starting
  /\ ctl' = NoTag
  /\ lost' = NoEtag
  /\ counted' = FALSE
  /\ list' = NoList
  /\ UNCHANGED << setup, panel >>

Init ==
  /\ setup \in Setups
  /\ panel \in [node : setup.nodes, limits : setup.lists, rules : setup.rules,
                elsewhere : setup.away, ours : {None}]
  /\ client = NewClient
  /\ etag = NoEtag
  /\ mon = Starting
  /\ ctl = NoTag
  /\ lost = NoEtag
  /\ counted = FALSE
  /\ list = NoList

GetNodeInfo ==
  \/ SSP!GetNodeInfo \/ V2B!GetNodeInfo \/ PRX!GetNodeInfo \/ V2S!GetNodeInfo
  \/ PMP!GetNodeInfo \/ BUN!GetNodeInfo \/ GOV!GetNodeInfo

GetUserList ==
  \/ SSP!GetUserList \/ V2B!GetUserList \/ PRX!GetUserList \/ V2S!GetUserList
  \/ PMP!GetUserList \/ BUN!GetUserList \/ GOV!GetUserList
  \/ SSP!ParseUserListResponse \/ BUN!ParseUserListResponse

GetNodeRule ==
  \/ SSP!GetNodeRule \/ V2B!GetNodeRule \/ PRX!GetNodeRule \/ V2S!GetNodeRule
  \/ PMP!GetNodeRule \/ BUN!GetNodeRule \/ GOV!GetNodeRule

ReportNodeOnlineUsers ==
  \/ SSP!ReportNodeOnlineUsers \/ PRX!ReportNodeOnlineUsers \/ V2S!ReportNodeOnlineUsers
  \/ PMP!ReportNodeOnlineUsers \/ BUN!ReportNodeOnlineUsers

Next ==
  \/ PanelStep
  \/ GetNodeInfo
  \/ GetUserList
  \/ removeOldTag
  \/ addNewTag
  \/ GetNodeRule
  \/ SyncUsers
  \/ ReportNodeOnlineUsers
  \/ Restart

Spec == Init /\ [][Next]_vars

(***************************************************************************)
(* Properties.                                                             *)
(***************************************************************************)

\* Every variable has the type the code gives it.
PanelTypeOK ==
  /\ setup \in Setups
  /\ panel.node \in setup.nodes /\ panel.limits \in setup.lists /\ panel.rules \in setup.rules
  /\ panel.elsewhere \in setup.away /\ panel.ours \in [User -> 0 .. setup.devices]
  /\ client.last \in [User -> 0 .. setup.devices] /\ client.deviceLimit \in Nat
  /\ client.resp \in setup.nodes \cup {NoNode}
  /\ etag \in [Resource -> BOOLEAN] /\ lost \in [Resource -> BOOLEAN]
  /\ mon.at \in {"node", "tag", "users", "parse", "rules", "fill", "idle", "dead", "crashed"}
  /\ mon.info.port \in 0 .. MaxUint32 /\ ctl.node.port \in 0 .. MaxUint32
  /\ DOMAIN mon.limits = User /\ DOMAIN ctl.limits = User /\ DOMAIN mon.answer = User
  /\ ctl.inbound = Down \/ ctl.inbound.security \in {"none", "tls", "reality"}

\* A run of nodeInfoMonitor in which no request failed and during which the
\* panel did not change.
Followed == mon.at = "idle" /\ mon.current

CountsDevices == setup.kind \in {"SSpanel", "BunPanel"}

RulesInNode == setup.kind \in {"NewV2board", "GoV2Panel", "V2RaySocks"}

PanelRules ==
  CASE RulesInNode        -> panel.node.rules
    [] Is("BunPanel")     -> {}
    [] Is("ProxyPanel")   -> IF setup.reject THEN panel.rules ELSE {}
    [] OTHER              -> panel.rules

\* A run in which nothing failed brings the node, the users and the rules up
\* to date, with every panel, unless the last new answer about them was of no
\* use, was dropped when a later call of its run failed, or was about the
\* rules of another tag: its ETag is remembered, and the panel answers 304
\* until it changes.
\* A list of rules without any is not applied, and a limit of devices that
\* ProxyPanel has sent once is kept.
PanelIsFollowed ==
  Followed =>
    /\ ~lost["node"] => ctl.node = NodeOf(panel.node)
    /\ ~lost["users"] =>
         CASE CountsDevices        -> Users(ctl.limits) \subseteq Users(panel.limits)
           [] Is("ProxyPanel")     -> Users(ctl.limits) = Users(panel.limits)
           [] RulesInNode /\ ~Is("V2RaySocks") ->
                \A u \in User : ctl.limits[u] = IF panel.limits[u] = Out THEN Out ELSE setup.deviceLimit
           [] OTHER                ->
                \A u \in User : ctl.limits[u] = IF panel.limits[u] # Out /\ setup.deviceLimit > 0
                                                THEN setup.deviceLimit ELSE panel.limits[u]
    /\ ~lost["rules"] /\ ~lost["node"] /\ PanelRules \cup Local # {} /\ ctl.inbound # Down =>
         Tag \in DOMAIN ctl.rules /\ ctl.rules[Tag] = Local \cup PanelRules

\* When the panel has counted what this node last reported, its users get
\* here exactly what their limit leaves beside their devices elsewhere; if that
\* is nothing, they keep the devices they have here, and only who has none
\* here is left out.  Nobody with a limit gets 0, which would be no limit.
LimitIsShared ==
  list.counted =>
    \A u \in User :
      LET room == list.of[u] - list.elsewhere[u]
      IN  list.of[u] > 0 =>
            list.given[u] = IF room > 0 THEN room
                            ELSE IF list.ours[u] > 0 THEN list.ours[u] ELSE Out

Secure(raw) == setup.type = "V2ray" /\ raw.sec = "reality"

\* V2board's answer has the settings of the transport where EnableVless has
\* the client look for them.
SettingsAreRead(raw) == Is("NewV2board") => V2B!SettingsKey \in raw.keys

\* The inbound that the controller has built is the one the panel describes:
\* TLS and REALITY are not lost, nor are the settings of WebSocket and gRPC
\* (that of ProxyPanel has none), and the users' accounts are of its protocol.
\* There is none only if the builder or conf refuses what the panel or the
\* configuration says.
NodeIsServedAsDescribed ==
  Followed /\ ~lost["node"] =>
    LET raw == panel.node
        in  == ctl.inbound
    IN  IF in = Down
        THEN \/ ctl.node.net \notin KnownNetworks
             \/ ~FallbacksBuilt(setup.cfg, ctl.node)
             \/ WantsTLS(setup.cfg, ctl.node) /\ setup.cfg.cert # "file"
             \/ IsREALITY(setup.cfg, ctl.node) /\ ctl.node.net \notin NetworksOfREALITY
             \/ setup.type = "Shadowsocks" /\ ~raw.cipher
        ELSE /\ ctl.accounts = in.protocol
             /\ setup.type = "V2ray" => in.network = raw.net
             /\ setup.type = "Trojan" /\ setup.cfg.cert # "none" => in.security # "none"
             /\ setup.type = "V2ray" /\ raw.sec = "tls" /\ setup.cfg.cert # "none" => in.security # "none"
             /\ Secure(raw) /\ (setup.cfg.panelREALITY \/ setup.cfg.localREALITY) => in.security = "reality"
             /\ SettingsAreRead(raw) =>
                  /\ in.network = "ws" => in.settings = {"host", "path"}
                  /\ in.network = "grpc" /\ ~Is("ProxyPanel") => in.settings = {"service"}

\* What GetNodeRule makes patterns of.
RulesRead ==
  IF ~RulesInNode THEN PanelRules
  ELSE IF client.resp = NoNode THEN {}
  ELSE client.resp.rules

\* Once it has started, XrayR ends only for a node that an older SSPanel has
\* not described in full, a rule that is no regular expression, a configuration
\* without the certificates or the REALITYConfigs that the node needs, or with
\* V2RaySocks, for an answer without a node or none at all.
EndsOnlyForThese ==
  [][mon'.at = "crashed" /\ mon.at # "crashed" /\ ~mon.starting =>
       \/ mon.at = "idle" /\ Is("SSpanel") /\ SSP!ParsePanics(panel.node)
       \/ Is("V2RaySocks") /\ ~client'.resp.ok
       \/ mon.at = "rules" /\ MustCompilePanics(RulesRead)
       \/ mon.at = "tag" /\ addNewTagPanics(setup.cfg, mon.info)]_vars

=============================================================================
