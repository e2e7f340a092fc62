--------------------------- MODULE MCAgentAccess ----------------------------
EXTENDS AgentAccess, TLC

CONSTANTS t1, t2, t3, a1, a2, h1, h2, x1, x2, w1, w2

\* Two administrators at once with a host; two hosts at once with an
\* administrator; a host with two requests; and a host that is registered
\* again while a request of it is under way.
MCScenes ==
  {[admins |-> Admin, hosts |-> {h1}, handlers |-> {x1}, requests |-> {}, tokens |-> 3],
   [admins |-> {}, hosts |-> {h1}, handlers |-> {x1}, requests |-> Request, tokens |-> 1]}
  \cup {[admins |-> {a}, hosts |-> Host, handlers |-> Handler, requests |-> {}, tokens |-> 2] : a \in Admin}
  \cup {[admins |-> {a}, hosts |-> {h1}, handlers |-> {x1}, requests |-> {"q1"}, tokens |-> 2] : a \in Admin}

MCSymmetry == Permutations(Token) \cup Permutations(Admin) \cup Permutations(Worker)
=============================================================================
