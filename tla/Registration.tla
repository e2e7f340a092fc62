---------------------------- MODULE Registration -----------------------------
(***************************************************************************)
(* The registration of a node's agent: the one-time tokens that            *)
(* administrators issue, and the transaction of agentRegister which takes  *)
(* one of them for a new node_hmac_key.  Hosts are machines on which the   *)
(* agent of this node is installed: it registers when its file has a       *)
(* token and no secret, and saves the secret.  Statements of two           *)
(* transactions interleave as PostgreSQL's READ COMMITTED lets them: a     *)
(* statement sees what is committed when it begins, waits for a locked     *)
(* row, and then looks at its condition again.                             *)
(***************************************************************************)
EXTENDS Naturals, Sequences, FiniteSets

CONSTANTS
  Token,    \* tokens that may be made
  Admin,    \* requests to issue a token, of which several may be under way
  Host,     \* machines with an agent of this node
  Handler,  \* handlers of agentRegister
  Scenes    \* who takes part: subsets of the above and of the requests, and the number of tokens

ASSUME RegistrationAssumption ==
  /\ Token # {} /\ IsFiniteSet(Token)
  /\ Admin \cap Handler = {} /\ "free" \notin Admin \cup Handler
  /\ \A s \in Scenes : s.admins \subseteq Admin /\ s.hosts \subseteq Host /\ s.handlers \subseteq Handler

VARIABLES
  scene,   \* which of the scenes this is
  token,   \* the rows of node_install_token
  made,    \* the secrets made so far, by the token of each; the last is node_hmac_key
  given,   \* tokens that an administrator has
  issue,   \* the transactions of postNodeIssueInstallToken
  reg,     \* the transactions of agentRegister
  host,    \* the agents
  raced    \* history: two tokens were issued at once

regVars == << scene, token, made, given, issue, reg, host, raced >>

\* No token or secret; secrets are numbered from 1.
NoToken  == "no token"
NoSecret == 0

\* node_hmac_key
key == Len(made)

Row == [there : BOOLEAN, used : BOOLEAN, revoked : BOOLEAN, expired : BOOLEAN,
        lock : {"free"} \cup Admin \cup Handler]

Usable(t) == token[t].there /\ ~token[t].used /\ ~token[t].revoked

Free(t) == token[t].lock = "free"

NoIssue == [at |-> "idle", sees |-> {}, revokes |-> {}]
NoReg   == [at |-> "idle", from |-> "nobody", token |-> NoToken]

\* The end of transaction x: its locks are released.
Unlock(rows, x) == [t \in Token |-> IF rows[t].lock = x THEN [rows[t] EXCEPT !.lock = "free"] ELSE rows[t]]

(***************************************************************************)
(* postNodeIssueInstallToken                                               *)
(***************************************************************************)

\* The UPDATE that revokes begins: it sees the usable tokens of this moment.
IssueBegin(a) ==
  /\ issue[a].at = "idle"
  /\ issue' = [issue EXCEPT ![a] =
       [at |-> "waits", sees |-> {t \in Token : Usable(t)}, revokes |-> {}]]
  /\ raced' = (raced \/ \E b \in scene.admins : issue[b].at # "idle")
  /\ UNCHANGED << scene, token, made, given, reg, host >>

\* The rows are not locked any more, and those that are still usable change.
IssueRevoke(a) ==
  /\ issue[a].at = "waits"
  /\ \A t \in issue[a].sees : Free(t)
  /\ LET still == {t \in issue[a].sees : Usable(t)}
     IN  /\ issue' = [issue EXCEPT ![a] =
                     [at |-> "inserts", sees |-> issue[a].sees, revokes |-> still]]
         /\ token' = [t \in Token |-> IF t \in still THEN [token[t] EXCEPT !.lock = a] ELSE token[t]]
  /\ UNCHANGED << scene, made, given, reg, host, raced >>

\* Faulty: the UPDATE is not part of the transaction that commits.
IssueCommit_alone(a) ==
  /\ issue[a].at = "inserts"
  /\ Cardinality({t \in Token : token[t].there}) < scene.tokens
  /\ \E t \in Token :
       /\ ~token[t].there
       /\ token' = Unlock([token EXCEPT ![t].there = TRUE], a)
       /\ given' \in {given, given \cup {t}}
  /\ issue' = [issue EXCEPT ![a] = NoIssue]
  /\ UNCHANGED << scene, made, reg, host, raced >>

\* INSERT and commit; the answer with the token may be lost.
IssueCommit(a) ==
  /\ issue[a].at = "inserts"
  /\ Cardinality({t \in Token : token[t].there}) < scene.tokens
  /\ \E t \in Token :
       /\ ~token[t].there
       /\ token' = [u \in Token |->
            IF u = t THEN [token[u] EXCEPT !.there = TRUE]
            ELSE IF u \in issue[a].revokes THEN [token[u] EXCEPT !.revoked = TRUE, !.lock = "free"]
            ELSE token[u]]
       /\ given' \in {given, given \cup {t}}
  /\ issue' = [issue EXCEPT ![a] = NoIssue]
  /\ UNCHANGED << scene, made, reg, host, raced >>

\* An error of the database, or the administrator closes the page.
IssueRollback(a) ==
  /\ issue[a].at # "idle"
  /\ token' = Unlock(token, a)
  /\ issue' = [issue EXCEPT ![a] = NoIssue]
  /\ UNCHANGED << scene, made, given, reg, host, raced >>

\* expires_at of t is over.
Expire(t) ==
  /\ Usable(t) /\ ~token[t].expired
  /\ token' = [token EXCEPT ![t].expired = TRUE]
  /\ UNCHANGED << scene, made, given, issue, reg, host, raced >>

(***************************************************************************)
(* The agent.                                                              *)
(***************************************************************************)

\* The install script writes agent.yml with the token and starts the agent.
installScript(h, t) ==
  /\ host[h].token # t
  /\ host' = [host EXCEPT ![h] = [at |-> "off", token |-> t, secret |-> NoSecret, got |-> NoSecret]]
  /\ reg' = [x \in Handler |-> IF reg[x].from = h THEN [reg[x] EXCEPT !.from = "nobody"] ELSE reg[x]]
  /\ UNCHANGED << scene, token, made, given, issue, raced >>

\* systemd starts the agent, which registers or goes to work.
StartAgent(h) ==
  /\ host[h].at = "off"
  /\ IF host[h].token # NoToken /\ host[h].secret = NoSecret
     THEN \E x \in scene.handlers :
            /\ reg[x] = NoReg
            /\ reg' = [reg EXCEPT ![x] = [at |-> "asks", from |-> h, token |-> host[h].token]]
            /\ host' = [host EXCEPT ![h].at = "registers"]
     ELSE /\ host[h].secret # NoSecret
          /\ host' = [host EXCEPT ![h].at = "on"]
          /\ UNCHANGED reg
  /\ UNCHANGED << scene, token, made, given, issue, raced >>

\* cfg.Save: the secret replaces the token in agent.yml.
Save(h) ==
  /\ host[h].at = "saves"
  /\ host' = [host EXCEPT ![h] =
       [at |-> "on", token |-> NoToken, secret |-> host[h].got, got |-> NoSecret]]
  /\ UNCHANGED << scene, token, made, given, issue, reg, raced >>

\* The agent ends, or gives up a registration after its timeout of 30 s; the
\* Center may go on with it.  A file that is being written may be cut off:
\* it is then empty, without token and secret.
StopAgent(h) ==
  /\ host[h].at # "off"
  /\ \E cut \in {FALSE, host[h].at = "saves"} :
       host' = [host EXCEPT ![h] =
         IF cut THEN [at |-> "off", token |-> NoToken, secret |-> NoSecret, got |-> NoSecret]
         ELSE [at |-> "off", token |-> host[h].token, secret |-> host[h].secret, got |-> NoSecret]]
  /\ reg' = [x \in Handler |-> IF reg[x].from = h THEN [reg[x] EXCEPT !.from = "nobody"] ELSE reg[x]]
  /\ UNCHANGED << scene, token, made, given, issue, raced >>

(***************************************************************************)
(* agentRegister                                                           *)
(***************************************************************************)

\* What the host that asked does when there is no good answer: log.Fatal.
Refused(x) == [h \in Host |-> IF reg[x].from = h THEN [host[h] EXCEPT !.at = "off"] ELSE host[h]]

\* Faulty: SELECT without FOR UPDATE.
RegisterSelect_plain(x) ==
  /\ reg[x].at = "asks"
  /\ LET t == reg[x].token
     IN  IF Usable(t) /\ ~token[t].expired
         THEN reg' = [reg EXCEPT ![x].at = "commits"] /\ UNCHANGED << token, host >>
         ELSE reg' = [reg EXCEPT ![x] = NoReg] /\ host' = Refused(x) /\ UNCHANGED token
  /\ UNCHANGED << scene, made, given, issue, raced >>

\* SELECT ... FOR UPDATE of a token that is not revoked, and the checks.
RegisterSelect(x) ==
  /\ reg[x].at = "asks"
  /\ Free(reg[x].token)
  /\ LET t == reg[x].token
     IN  IF Usable(t) /\ ~token[t].expired
         THEN /\ token' = [token EXCEPT ![t].lock = x]
              /\ reg' = [reg EXCEPT ![x].at = "commits"]
              /\ UNCHANGED host
         ELSE /\ reg' = [reg EXCEPT ![x] = NoReg]
              /\ host' = Refused(x)
              /\ UNCHANGED token
  /\ UNCHANGED << scene, made, given, issue, raced >>

\* node_hmac_key and used_at are stored.  The answer may be lost.
RegisterCommit(x) ==
  /\ reg[x].at = "commits"
  /\ made' = Append(made, reg[x].token)
  /\ token' = Unlock([token EXCEPT ![reg[x].token].used = TRUE], x)
  /\ reg' = [reg EXCEPT ![x] = NoReg]
  /\ \/ host' = [h \in Host |-> IF reg[x].from = h
                                THEN [at |-> "saves", token |-> host[h].token,
                                      secret |-> host[h].secret, got |-> Len(made')]
                                ELSE host[h]]
     \/ host' = Refused(x)
  /\ UNCHANGED << scene, given, issue, raced >>

\* Faulty: the answer is written before the commit fails.
RegisterRollback_answered(x) ==
  /\ reg[x].at = "commits"
  /\ token' = Unlock(token, x)
  /\ reg' = [reg EXCEPT ![x] = NoReg]
  /\ host' = [h \in Host |-> IF reg[x].from = h
                              THEN [host[h] EXCEPT !.at = "saves", !.got = key + 1]
                              ELSE host[h]]
  /\ UNCHANGED << scene, made, given, issue, raced >>

\* An error of the database, or the agent has gone.
RegisterRollback(x) ==
  /\ reg[x].at # "idle"
  /\ token' = Unlock(token, x)
  /\ reg' = [reg EXCEPT ![x] = NoReg]
  /\ host' = Refused(x)
  /\ UNCHANGED << scene, made, given, issue, raced >>

(***************************************************************************)
(* The Center's transactions when its process ends.                        *)
(***************************************************************************)

RollbackAll ==
  /\ token' = [t \in Token |-> [token[t] EXCEPT !.lock = "free"]]
  /\ issue' = [a \in Admin |-> NoIssue]
  /\ reg' = [x \in Handler |-> NoReg]
  /\ host' = [h \in Host |-> IF host[h].at = "registers" THEN [host[h] EXCEPT !.at = "off"] ELSE host[h]]
  /\ UNCHANGED << scene, made, given, raced >>

\* createNode has made the node and its first token, whose answer is there.
RegistrationInit ==
  /\ scene \in Scenes
  /\ \E t \in Token :
       /\ token = [u \in Token |-> [there |-> u = t, used |-> FALSE, revoked |-> FALSE,
                                    expired |-> FALSE, lock |-> "free"]]
       /\ given = {t}
  /\ made = << >>
  /\ issue = [a \in Admin |-> NoIssue]
  /\ reg = [x \in Handler |-> NoReg]
  /\ host = [h \in Host |-> [at |-> "off", token |-> NoToken, secret |-> NoSecret, got |-> NoSecret]]
  /\ raced = FALSE

RegistrationStep ==
  \/ \E a \in scene.admins :
       IssueBegin(a) \/ IssueRevoke(a) \/ IssueCommit(a) \/ IssueRollback(a)
  \/ \E t \in Token : Expire(t)
  \/ \E h \in scene.hosts, t \in given : installScript(h, t)
  \/ \E h \in scene.hosts : StartAgent(h) \/ Save(h) \/ StopAgent(h)
  \/ \E x \in scene.handlers : RegisterSelect(x) \/ RegisterCommit(x) \/ RegisterRollback(x)

=============================================================================
