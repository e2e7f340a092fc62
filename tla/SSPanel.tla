------------------------------ MODULE SSPanel ------------------------------
(***************************************************************************)
(* The client of SSPanel (api/sspanel).  Its panel counts the devices of a *)
(* user on all nodes, and the client turns the user's device limit into    *)
(* what is left for this node.                                             *)
(***************************************************************************)
EXTENDS PanelApi

New ==
  [last |-> None, deviceLimit |-> setup.deviceLimit, resp |-> NoNode]

\* RawServerString: address;port;alterID;protocol;tls;extra, in an older
\* version or with DisableCustomConfig.
ParseV2rayNodeResponse(raw) ==
  [type |-> setup.type, port |-> raw.port, net |-> raw.net, tls |-> raw.sec = "tls",
   reality |-> FALSE, vless |-> setup.vless, kept |-> {"path", "host", "service", "header"}]

\* The port is that of the first user of a list requested for it; without
\* users it is 0.  The method is never assigned.
ParseSSNodeResponse(raw) ==
  [type |-> setup.type, port |-> IF Users(panel.limits) = {} THEN 0 ELSE raw.port,
   net |-> "tcp", tls |-> FALSE, reality |-> FALSE, vless |-> FALSE, kept |-> {}]

\* Faulty: the integer is signed.
PortBefore_signed(port) == port - 1

\* The port before the configured one, in 32 bits: port 0 becomes the largest.
PortBefore(port) == IF port = 0 THEN MaxUint32 ELSE port - 1

ParseSSPluginNodeResponse(raw) ==
  [type |-> setup.type, port |-> PortBefore(raw.port),
   net |-> IF raw.net \in {"tcp", "ws"} THEN raw.net ELSE "", tls |-> raw.sec = "tls",
   reality |-> FALSE, vless |-> FALSE, kept |-> {"path", "host"}]

ParseTrojanNodeResponse(raw) ==
  [type |-> setup.type, port |-> raw.port, net |-> IF raw.net = "grpc" THEN "grpc" ELSE "tcp",
   tls |-> TRUE, reality |-> FALSE, vless |-> FALSE, kept |-> {"host", "service"}]

\* The custom_config of a newer version.
ParseSSPanelNodeInfo(raw) ==
  [type |-> setup.type, port |-> raw.port,
   net |-> CASE setup.type = "Shadowsocks"        -> "tcp"
             [] setup.type = "Shadowsocks-Plugin" -> ""
             [] OTHER                             -> raw.net,
   tls |-> setup.type = "Trojan" \/ (setup.type = "V2ray" /\ raw.sec = "tls"),
   reality |-> raw.sec = "reality", vless |-> setup.type = "V2ray" /\ raw.vless,
   kept |-> {"path", "host", "service", "header"} \cup Cipher(raw)]

ParseNode(raw) ==
  IF ~setup.old THEN ParseSSPanelNodeInfo(raw)
  ELSE CASE setup.type = "V2ray"              -> ParseV2rayNodeResponse(raw)
         [] setup.type = "Trojan"             -> ParseTrojanNodeResponse(raw)
         [] setup.type = "Shadowsocks"        -> ParseSSNodeResponse(raw)
         [] setup.type = "Shadowsocks-Plugin" -> ParseSSPluginNodeResponse(raw)

\* A response that can be parsed; the plugin needs a port before its own.
Accepts(raw) == raw.ok /\ (setup.type = "Shadowsocks-Plugin" => raw.port # 1)

\* RawServerString is split, and the parts are used without counting them.
ParsePanics(raw) == raw.short /\ setup.old /\ setup.type # "Shadowsocks"

GetNodeInfo ==
  /\ Polls("SSpanel")
  /\ \E a \in Answers("node") :
       \E second \in IF setup.old /\ setup.type = "Shadowsocks" THEN PlainAnswers ELSE {"good"} :
         LET used == a = "good" /\ second = "good" /\ Accepts(panel.node)
             panics == a = "good" /\ ParsePanics(panel.node)
         IN  /\ Remember("node", a, used /\ ~panics)
             /\ IF panics THEN Crash ELSE NodeOutcome(a, used, ParseNode(panel.node))
  /\ listUnchanged
  /\ UNCHANGED << setup, panel, client, ctl >>

\* The answer is parsed under the lock that a report may hold meanwhile.
GetUserList ==
  /\ Asks("SSpanel")
  /\ \E a \in Answers("users") :
       /\ Remember("users", a, a = "good")
       /\ IF a = "good"
          THEN /\ mon' = [mon EXCEPT !.at = "parse", !.limits = panel.limits,
                                     !.answer = [u \in User |-> Alive(u)]]
               /\ list' = [list EXCEPT !.elsewhere = panel.elsewhere, !.counted = FALSE]
          ELSE ListOutcome(a, FALSE, None) /\ UNCHANGED list
  /\ UNCHANGED << setup, panel, client, ctl, counted >>

\* Faulty: what this node has reported is not given back.
Left_withoutOwn(limit, alive, last) ==
  IF limit > 0 /\ alive > 0
  THEN IF limit - alive > 0 THEN limit - alive ELSE IF last > 0 THEN last ELSE Out
  ELSE limit

\* What is left of a limit of devices when alive of them are online, last of
\* them here: at least the last, if there are any.
Left(limit, alive, last) ==
  IF limit > 0 /\ alive > 0
  THEN IF limit - alive + last > 0 THEN limit - alive + last ELSE IF last > 0 THEN last ELSE Out
  ELSE limit

\* LastReportOnline is cleared: of two lists without a report between them
\* the second counts this node's devices as those of others.
ParseUserListResponse ==
  /\ Is("SSpanel")
  /\ mon.at = "parse"
  /\ LET Limit(u) == IF client.deviceLimit > 0 THEN client.deviceLimit ELSE mon.limits[u]
         given == [u \in User |-> IF mon.limits[u] = Out THEN Out
                                  ELSE Left(Limit(u), mon.answer[u], client.last[u])]
     IN  /\ TakeList(given)
         /\ list' = [list EXCEPT !.of = [u \in User |-> IF mon.limits[u] = Out THEN Out ELSE Limit(u)],
                                 !.given = given, !.ours = client.last, !.counted = counted]
  /\ client' = [client EXCEPT !.last = None]
  /\ counted' = FALSE
  /\ UNCHANGED << setup, panel, etag, ctl, lost >>

\* LastReportOnline is replaced before the report is sent.
ReportNodeOnlineUsers ==
  /\ Reports("SSpanel")
  /\ \E n \in Devices :
       /\ client' = [client EXCEPT !.last = n]
       /\ Post(n)
  /\ UNCHANGED << setup, mon, ctl, lost, list >>

\* RuleNotModified leaves the rules as they are: a new tag gets none.
GetNodeRule ==
  /\ AsksRules("SSpanel")
  /\ \E a \in Answers("rules") :
       /\ Remember("rules", a, a = "good")
       /\ RulesOutcome(a, Local \cup panel.rules)
  /\ listUnchanged
  /\ UNCHANGED << setup, panel, client >>

=============================================================================
