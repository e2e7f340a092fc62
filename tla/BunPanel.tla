------------------------------ MODULE BunPanel ------------------------------
(***************************************************************************)
(* The client of BunPanel (api/bunpanel).  It counts devices as that of    *)
(* SSPanel does, and knows only the local rules.                           *)
(***************************************************************************)
EXTENDS PanelApi

New ==
  [last |-> None, deviceLimit |-> setup.deviceLimit, resp |-> NoNode]

\* The settings of the transport come from a section of each.
ParseNodeInfo(raw) ==
  [type |-> setup.type, port |-> raw.port,
   net |-> IF setup.type = "V2ray" THEN raw.net ELSE "tcp",
   tls |-> setup.type = "Trojan" \/ (setup.type = "V2ray" /\ raw.sec = "tls"),
   reality |-> setup.type = "V2ray" /\ raw.sec = "reality",
   vless |-> setup.type = "V2ray" /\ raw.sec = "reality",
   kept |-> Cipher(raw) \cup CASE raw.net = "ws"   -> {"path", "host"}
                               [] raw.net = "grpc" -> {"service"}
                               [] raw.net = "tcp"  -> {"header"}
                               [] OTHER            -> {}]

GetNodeInfo ==
  /\ Polls("BunPanel")
  /\ \E a \in Answers("node") :
       LET used == a = "good" /\ panel.node.ok
       IN  /\ Remember("node", a, used)
           /\ NodeOutcome(a, used, ParseNodeInfo(panel.node))
  /\ listUnchanged
  /\ UNCHANGED << setup, panel, client, ctl >>

GetUserList ==
  /\ Asks("BunPanel")
  /\ \E a \in Answers("users") :
       /\ Remember("users", a, a = "good")
       /\ IF a = "good"
          THEN /\ mon' = [mon EXCEPT !.at = "parse", !.limits = panel.limits,
                                     !.answer = [u \in User |-> Alive(u)]]
               /\ list' = [list EXCEPT !.elsewhere = panel.elsewhere, !.counted = FALSE]
          ELSE ListOutcome(a, FALSE, None) /\ UNCHANGED list
  /\ UNCHANGED << setup, panel, client, ctl, counted >>

\* Without a limit, or with nobody online, the limit is what it was.
Left(limit, alive, last) ==
  IF limit = 0 \/ alive = 0 THEN limit
  ELSE IF limit + last > alive THEN limit + last - alive
  ELSE IF last > 0 THEN last ELSE Out

ParseUserListResponse ==
  /\ Is("BunPanel")
  /\ mon.at = "parse"
  /\ LET Limit(u) == IF client.deviceLimit > 0 THEN client.deviceLimit ELSE mon.limits[u]
         given == [u \in User |-> IF mon.limits[u] = Out THEN Out
                                  ELSE Left(Limit(u), mon.answer[u], client.last[u])]
     IN  /\ TakeList(given)
         /\ list' = [list EXCEPT !.of = [u \in User |-> IF mon.limits[u] = Out THEN Out ELSE Limit(u)],
                                 !.given = given, !.ours = client.last, !.counted = counted]
  /\ client' = [client EXCEPT !.last = None]
  /\ counted' = FALSE
  /\ UNCHANGED << setup, panel, etag, ctl, lost >>

ReportNodeOnlineUsers ==
  /\ Reports("BunPanel")
  /\ \E n \in Devices :
       /\ client' = [client EXCEPT !.last = n]
       /\ Post(n)
  /\ UNCHANGED << setup, mon, ctl, lost, list >>

GetNodeRule ==
  /\ AsksRules("BunPanel")
  /\ RulesOutcome("good", Local)
  /\ Forget("rules") /\ listUnchanged
  /\ UNCHANGED << setup, panel, client >>

=============================================================================
