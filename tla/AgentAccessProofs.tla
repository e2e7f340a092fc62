-------------------------- MODULE AgentAccessProofs --------------------------
(***************************************************************************)
(* Proofs about AgentAccess, for any tokens, administrators, hosts and     *)
(* handlers, any clocks, and any number of repeated or late requests: what *)
(* the row locks and the nonce cache give.                                 *)
(***************************************************************************)
EXTENDS AgentAccess, FiniteSetTheorems, TLAPS

(***************************************************************************)
(* The inductive invariant.                                                *)
(***************************************************************************)

IssueRecord == [at : {"idle", "waits", "inserts"}, sees : SUBSET Token, revokes : SUBSET Token]
RegRecord   == [at : {"idle", "asks", "commits"}, from : Host \cup {"nobody"}, token : Token \cup {NoToken}]
HostRecord(k) == [at : {"off", "registers", "saves", "on"}, token : Token \cup {NoToken},
                  secret : 0 .. k, got : 0 .. k]

RegTypes ==
  /\ scene \in Scenes
  /\ token \in [Token -> Row]
  /\ made \in Seq(Token)
  /\ given \subseteq Token
  /\ issue \in [Admin -> IssueRecord]
  /\ reg \in [Handler -> RegRecord]
  /\ host \in [Host -> HostRecord(key)]
  /\ raced \in BOOLEAN

\* Who is about to use or revoke a token holds its row, and found it unused.
LockInv ==
  /\ \A x \in Handler : reg[x].at # "idle" => reg[x].token \in Token
  /\ \A x \in Handler : reg[x].at = "commits" =>
       LET t == reg[x].token IN token[t].lock = x /\ ~token[t].used /\ ~token[t].revoked
  /\ \A a \in Admin : issue[a].at = "inserts" =>
       \A t \in issue[a].revokes : token[t].lock = a /\ ~token[t].used

\* Whoever issues alone has seen, and then locked, every usable token.
IssueInv ==
  /\ \A a \in Admin : issue[a].at # "idle" => a \in scene.admins
  /\ ~raced =>
       /\ \A a, b \in Admin : issue[a].at # "idle" /\ issue[b].at # "idle" => a = b
       /\ \A t, u \in Token : Usable(t) /\ Usable(u) => t = u
       /\ \A a \in Admin, t \in Token : issue[a].at = "waits" /\ Usable(t) => t \in issue[a].sees
       /\ \A a \in Admin, t \in Token : issue[a].at = "inserts" /\ Usable(t) => t \in issue[a].revokes

RegInv == RegTypes /\ LockInv /\ TokenIsOneTime /\ IssueInv

AuthTypes ==
  /\ now \in 0 .. MaxTime
  /\ sent \in [Request -> [secret : 0 .. key, ts : Nat]]
  /\ nonces \in [Request -> 0 .. now \cup {Never}]
  /\ auth \in [Worker -> [at : {"idle", "reads", "verified"}, q : Request \cup {"none"},
                          key : 0 .. key, since : 0 .. now]]
  /\ handled \in [Request -> Nat]

\* A worker that has checked a request did so not long ago.
CheckInv ==
  /\ \A w \in Worker : auth[w].at # "idle" =>
       auth[w].q \in Request /\ sent[auth[w].q] # NoRequest
  /\ \A w \in Worker : auth[w].at = "verified" =>
       /\ now <= auth[w].since + Pause
       /\ sent[auth[w].q].ts <= auth[w].since + Skew
       /\ auth[w].since <= sent[auth[w].q].ts + Skew

\* The nonce of a handled request is remembered, or its time is over, even
\* for a worker that checked it at the last moment.
NonceInv ==
  \A q \in Request :
    \/ handled[q] = 0
    \/ /\ handled[q] = 1 /\ sent[q] # NoRequest
       /\ \/ nonces[q] \in 0 .. now /\ sent[q].ts <= nonces[q] + Skew
          \/ nonces[q] = Never /\ now > sent[q].ts + Skew + Pause

AuthInv == AuthTypes /\ CheckInv /\ NonceInv

Inv == RegInv /\ AuthInv

LEMMA InitInv == Init => Inv
<1> SUFFICES ASSUME Init PROVE Inv
  OBVIOUS
<1>0. PICK t \in Token :
        /\ token = [u \in Token |-> [there |-> u = t, used |-> FALSE, revoked |-> FALSE,
                                     expired |-> FALSE, lock |-> "free"]]
        /\ given = {t}
  BY DEF Init, RegistrationInit
<1>1. RegTypes
  <2>1. scene \in Scenes /\ raced \in BOOLEAN /\ given \subseteq Token
    BY <1>0 DEF Init, RegistrationInit
  <2>6. made \in Seq(Token)
    BY DEF Init, RegistrationInit
  <2>2. token \in [Token -> Row]
    BY <1>0 DEF Row
  <2>3. issue \in [Admin -> IssueRecord]
    BY DEF Init, RegistrationInit, IssueRecord, NoIssue
  <2>4. reg \in [Handler -> RegRecord]
    BY DEF Init, RegistrationInit, RegRecord, NoReg
  <2>5. host \in [Host -> HostRecord(key)]
    BY DEF Init, RegistrationInit, HostRecord, NoSecret, key
  <2> QED BY <2>1, <2>2, <2>3, <2>4, <2>5, <2>6 DEF RegTypes
<1>2. LockInv
  BY DEF Init, RegistrationInit, LockInv, NoIssue, NoReg
<1>3. TokenIsOneTime
  BY DEF Init, RegistrationInit, TokenIsOneTime
<1>4. IssueInv
  BY <1>0 DEF Init, RegistrationInit, IssueInv, NoIssue, Usable
<1>5. AuthTypes
  BY AccessAssumption DEF Init, RegistrationInit, AuthTypes, NoRequest, NoAuth, Never, key, NoSecret
<1>6. CheckInv /\ NonceInv
  BY DEF Init, CheckInv, NonceInv, NoAuth
<1> QED BY <1>1, <1>2, <1>3, <1>4, <1>5, <1>6 DEF Inv, RegInv, AuthInv

(***************************************************************************)
(* The types: each action, or the operator it uses.                        *)
(***************************************************************************)

LEMMA UnlockType ==
  ASSUME NEW rows \in [Token -> Row], NEW x
  PROVE  /\ Unlock(rows, x) \in [Token -> Row]
         /\ \A t \in Token :
              /\ Unlock(rows, x)[t].there = rows[t].there /\ Unlock(rows, x)[t].used = rows[t].used
              /\ Unlock(rows, x)[t].revoked = rows[t].revoked
              /\ Unlock(rows, x)[t].lock = IF rows[t].lock = x THEN "free" ELSE rows[t].lock
BY DEF Unlock, Row

LEMMA RefusedType ==
  ASSUME RegTypes, NEW x \in Handler
  PROVE  Refused(x) \in [Host -> HostRecord(key)]
BY DEF RegTypes, Refused, HostRecord

\* A longer list of secrets does no harm.
LEMMA HostGrows ==
  ASSUME NEW k \in Nat, NEW f \in [Host -> HostRecord(k)]
  PROVE  f \in [Host -> HostRecord(k + 1)]
BY DEF HostRecord

LEMMA IssueTypes ==
  ASSUME RegTypes, NEW a \in Admin,
         IssueBegin(a) \/ IssueRevoke(a) \/ IssueCommit(a) \/ IssueRollback(a)
  PROVE  RegTypes'
<1>1. UNCHANGED << scene, made, reg, host >> /\ key' = key
  BY DEF IssueBegin, IssueRevoke, IssueCommit, IssueRollback, key
<1>2. issue' \in [Admin -> IssueRecord] /\ raced' \in BOOLEAN
  <2>1. NoIssue \in IssueRecord /\ issue[a] \in IssueRecord
    BY DEF NoIssue, IssueRecord, RegTypes
  <2>2. \A s \in SUBSET Token, r \in SUBSET Token, at \in {"waits", "inserts"} :
          [at |-> at, sees |-> s, revokes |-> r] \in IssueRecord
    BY DEF IssueRecord
  <2>3. issue[a].sees \in SUBSET Token
    BY <2>1 DEF IssueRecord
  <2>4. raced' \in BOOLEAN
    BY DEF IssueBegin, IssueRevoke, IssueCommit, IssueRollback, RegTypes
  <2>5. PICK i \in IssueRecord : issue' = [issue EXCEPT ![a] = i]
    <3>1. CASE IssueBegin(a)
      BY <2>2, <3>1 DEF IssueBegin
    <3>2. CASE IssueRevoke(a)
      <4>1. {t \in issue[a].sees : Usable(t)} \in SUBSET Token
        BY <2>3
      <4> QED BY <2>2, <2>3, <3>2, <4>1 DEF IssueRevoke
    <3>3. CASE IssueCommit(a) \/ IssueRollback(a)
      BY <2>1, <3>3 DEF IssueCommit, IssueRollback
    <3> QED BY <3>1, <3>2, <3>3
  <2> QED BY <2>4, <2>5 DEF RegTypes
<1>3. token' \in [Token -> Row] /\ given' \subseteq Token
  <2>1. CASE IssueBegin(a)
    BY <2>1 DEF IssueBegin, RegTypes
  <2>2. CASE IssueRevoke(a)
    BY <2>2 DEF IssueRevoke, RegTypes, Row
  <2>3. CASE IssueCommit(a)
    <3>1. PICK t \in Token :
            /\ token' = [u \in Token |->
                 IF u = t THEN [token[u] EXCEPT !.there = TRUE]
                 ELSE IF u \in issue[a].revokes THEN [token[u] EXCEPT !.revoked = TRUE, !.lock = "free"]
                 ELSE token[u]]
            /\ given' \in {given, given \cup {t}}
      BY <2>3 DEF IssueCommit
    <3>2. \A u \in Token : /\ token[u] \in Row /\ [token[u] EXCEPT !.there = TRUE] \in Row
                          /\ [token[u] EXCEPT !.revoked = TRUE, !.lock = "free"] \in Row
      BY DEF RegTypes, Row
    <3>3. given' \subseteq Token
      BY <3>1 DEF RegTypes
    <3> QED BY <3>1, <3>2, <3>3
  <2>4. CASE IssueRollback(a)
    BY <2>4, UnlockType DEF IssueRollback, RegTypes
  <2> QED BY <2>1, <2>2, <2>3, <2>4
<1> QED BY <1>1, <1>2, <1>3 DEF RegTypes

LEMMA HostTypes ==
  ASSUME RegTypes, NEW h \in Host,
         (\E t \in given : installScript(h, t)) \/ StartAgent(h) \/ Save(h) \/ StopAgent(h)
  PROVE  RegTypes'
<1>1. UNCHANGED << scene, made, token, given, issue, raced >> /\ key' = key
  BY DEF installScript, StartAgent, Save, StopAgent, key
<1>2. key \in Nat
  BY DEF RegTypes, key
<1>3. host[h] \in HostRecord(key) /\ host[h].token \in Token \cup {NoToken}
      /\ host[h].secret \in 0 .. key /\ host[h].got \in 0 .. key
  BY DEF RegTypes, HostRecord
<1>4. \A at \in {"off", "registers", "saves", "on"}, t \in Token \cup {NoToken}, n, m \in 0 .. key :
        /\ [at |-> at, token |-> t, secret |-> n, got |-> m] \in HostRecord(key)
        /\ [host[h] EXCEPT !.at = at] \in HostRecord(key)
  BY <1>3 DEF HostRecord
<1>5. 0 \in 0 .. key
  BY <1>2
<1>6. PICK r \in HostRecord(key) : host' = [host EXCEPT ![h] = r]
  <2>1. CASE \E t \in given : installScript(h, t)
    <3>1. PICK t \in Token : installScript(h, t)
      BY <2>1 DEF RegTypes
    <3> QED BY <1>4, <1>5, <3>1 DEF installScript, NoSecret
  <2>2. CASE StartAgent(h)
    BY <1>3, <1>4, <1>5, <2>2 DEF StartAgent
  <2>3. CASE Save(h)
    BY <1>3, <1>4, <1>5, <2>3 DEF Save, NoSecret
  <2>4. CASE StopAgent(h)
    BY <1>3, <1>4, <1>5, <2>4 DEF StopAgent, NoSecret
  <2> QED BY <2>1, <2>2, <2>3, <2>4
<1>7. reg' \in [Handler -> RegRecord]
  <2>1. \A x \in Handler : [reg[x] EXCEPT !.from = "nobody"] \in RegRecord /\ reg[x] \in RegRecord
    BY DEF RegTypes, RegRecord
  <2>2. CASE reg' = [x \in Handler |-> IF reg[x].from = h THEN [reg[x] EXCEPT !.from = "nobody"] ELSE reg[x]]
    BY <2>1, <2>2
  <2>3. CASE \E x \in Handler : reg' = [reg EXCEPT ![x] = [at |-> "asks", from |-> h, token |-> host[h].token]]
    <3>1. [at |-> "asks", from |-> h, token |-> host[h].token] \in RegRecord
      BY <1>3 DEF RegRecord
    <3> QED BY <2>3, <3>1 DEF RegTypes
  <2>4. CASE UNCHANGED reg
    BY <2>4 DEF RegTypes
  <2>5. scene.handlers \subseteq Handler
    BY RegistrationAssumption DEF RegTypes
  <2> QED BY <2>2, <2>3, <2>4, <2>5 DEF installScript, StartAgent, Save, StopAgent
<1>8. host' \in [Host -> HostRecord(key)]
  BY <1>6 DEF RegTypes
<1> QED BY <1>1, <1>7, <1>8 DEF RegTypes

LEMMA RegisterTypes ==
  ASSUME RegTypes, LockInv, NEW x \in Handler,
         RegisterSelect(x) \/ RegisterCommit(x) \/ RegisterRollback(x)
  PROVE  RegTypes' /\ key' \in {key, key + 1}
<1>0. UNCHANGED << scene, given, issue, raced >>
  BY DEF RegisterSelect, RegisterCommit, RegisterRollback
<1>1. key \in Nat
  BY DEF RegTypes, key
<1>2. reg' \in [Handler -> RegRecord]
  <2>1. NoReg \in RegRecord /\ reg[x] \in RegRecord /\ [reg[x] EXCEPT !.at = "commits"] \in RegRecord
    BY DEF NoReg, RegTypes, RegRecord
  <2>2. reg' = [reg EXCEPT ![x] = NoReg] \/ reg' = [reg EXCEPT ![x] = [reg[x] EXCEPT !.at = "commits"]]
    BY DEF RegisterSelect, RegisterCommit, RegisterRollback, RegTypes
  <2> QED BY <2>1, <2>2 DEF RegTypes
<1>3. CASE RegisterSelect(x)
  <2>1. UNCHANGED made /\ key' = key
    BY <1>3 DEF RegisterSelect, key
  <2>2. host' \in [Host -> HostRecord(key)]
    BY <1>3, RefusedType DEF RegisterSelect, RegTypes
  <2>3. token' \in [Token -> Row]
    <3>1. CASE UNCHANGED token
      BY <3>1 DEF RegTypes
    <3>2. CASE token' = [token EXCEPT ![reg[x].token].lock = x]
      <4>1. token \in [Token -> Row] /\ \A t \in Token : [token[t] EXCEPT !.lock = x] \in Row
        BY DEF RegTypes, Row
      <4> QED BY <3>2, <4>1
    <3> QED BY <1>3, <3>1, <3>2 DEF RegisterSelect
  <2> QED BY <1>0, <1>2, <2>1, <2>2, <2>3 DEF RegTypes
<1>4. CASE RegisterCommit(x)
  <2>1. reg[x].token \in Token
    BY <1>4 DEF RegisterCommit, LockInv
  <2>2. made' = Append(made, reg[x].token)
    BY <1>4 DEF RegisterCommit
  <2>6. made' \in Seq(Token) /\ Len(made') = Len(made) + 1
    BY <2>1, <2>2 DEF RegTypes
  <2>7. key' = key + 1 /\ Len(made') = key + 1
    BY <2>6 DEF key
  <2>3. [token EXCEPT ![reg[x].token].used = TRUE] \in [Token -> Row]
    BY <2>1 DEF RegTypes, Row
  <2>4. token' \in [Token -> Row]
    BY <1>4, <2>3, UnlockType DEF RegisterCommit
  <2>5. host' \in [Host -> HostRecord(key + 1)]
    <3>1. CASE host' = Refused(x)
      BY <3>1, <1>1, RefusedType, HostGrows
    <3>2. CASE host' = [h \in Host |-> IF reg[x].from = h
                                THEN [at |-> "saves", token |-> host[h].token,
                                      secret |-> host[h].secret, got |-> Len(made')]
                                ELSE host[h]]
      <4> SUFFICES ASSUME NEW h \in Host PROVE host'[h] \in HostRecord(key + 1)
        BY <3>2
      <4>1. host[h] \in HostRecord(key) /\ host[h] \in HostRecord(key + 1)
        BY <1>1 DEF RegTypes, HostRecord
      <4>2. \/ host'[h] = host[h]
            \/ host'[h] = [at |-> "saves", token |-> host[h].token, secret |-> host[h].secret, got |-> key + 1]
        BY <2>7, <3>2
      <4>3. key + 1 \in 0 .. key + 1 /\ host[h].token \in Token \cup {NoToken} /\ host[h].secret \in 0 .. key + 1
        BY <1>1, <4>1 DEF HostRecord
      <4>4. [at |-> "saves", token |-> host[h].token, secret |-> host[h].secret, got |-> key + 1] \in HostRecord(key + 1)
        BY <4>3 DEF HostRecord
      <4> QED BY <4>1, <4>2, <4>4
    <3> QED BY <1>4, <3>1, <3>2 DEF RegisterCommit
  <2> QED BY <1>0, <1>2, <2>4, <2>5, <2>6, <2>7 DEF RegTypes
<1>5. CASE RegisterRollback(x)
  <2>1. UNCHANGED made /\ key' = key
    BY <1>5 DEF RegisterRollback, key
  <2>2. host' \in [Host -> HostRecord(key)] /\ token' \in [Token -> Row]
    BY <1>5, RefusedType, UnlockType DEF RegisterRollback, RegTypes
  <2> QED BY <1>0, <1>2, <2>1, <2>2 DEF RegTypes
<1> QED BY <1>3, <1>4, <1>5

LEMMA RollbackTypes ==
  ASSUME RegTypes, RollbackAll
  PROVE  RegTypes' /\ key' = key
<1>1. UNCHANGED << scene, made, given, raced >> /\ key' = key
  BY DEF RollbackAll, key
<1>2. token' \in [Token -> Row] /\ issue' \in [Admin -> IssueRecord] /\ reg' \in [Handler -> RegRecord]
  BY DEF RollbackAll, RegTypes, Row, IssueRecord, RegRecord, NoIssue, NoReg
<1>3. host' \in [Host -> HostRecord(key)]
  BY DEF RollbackAll, RegTypes, HostRecord
<1> QED BY <1>1, <1>2, <1>3 DEF RegTypes

(***************************************************************************)
(* Locks, tokens and the administrators who issue them.                    *)
(***************************************************************************)

\* What an action that is not about tokens may do to the handlers.
LEMMA OthersKeepRegInv ==
  ASSUME RegInv, RegTypes',
         UNCHANGED << scene, token, made, issue, raced >>,
         \A x \in Handler : /\ reg'[x].at \in {reg[x].at, "asks", "idle"}
                            /\ reg'[x].at = "commits" => reg'[x].token = reg[x].token
                            /\ reg'[x].at # "idle" => reg'[x].token \in Token
  PROVE  RegInv'
<1>1. LockInv'
  BY DEF RegInv, LockInv
<1>2. TokenIsOneTime' /\ IssueInv'
  BY DEF RegInv, TokenIsOneTime, IssueInv, Usable
<1> QED BY <1>1, <1>2 DEF RegInv

LEMMA HostKeepsRegInv ==
  ASSUME RegInv, NEW h \in Host,
         (\E t \in given : installScript(h, t)) \/ StartAgent(h) \/ Save(h) \/ StopAgent(h)
  PROVE  RegInv'
<1>1. RegTypes'
  BY HostTypes DEF RegInv
<1>2. UNCHANGED << scene, token, made, issue, raced >>
  BY DEF installScript, StartAgent, Save, StopAgent
<1>3. \A x \in Handler : /\ reg'[x].at \in {reg[x].at, "asks", "idle"}
                         /\ reg'[x].at = "commits" => reg'[x].token = reg[x].token
                         /\ reg'[x].at # "idle" => reg'[x].token \in Token
  <2>1. \A x \in Handler : reg[x].at # "idle" => reg[x].token \in Token
    BY DEF RegInv, LockInv
  <2>2. CASE reg' = [x \in Handler |-> IF reg[x].from = h THEN [reg[x] EXCEPT !.from = "nobody"] ELSE reg[x]]
    BY <2>1, <2>2 DEF RegInv, RegTypes, RegRecord
  <2>3. CASE /\ host[h].token # NoToken
             /\ \E x \in Handler :
                  reg' = [reg EXCEPT ![x] = [at |-> "asks", from |-> h, token |-> host[h].token]]
    <3>1. host[h].token \in Token
      BY <2>3 DEF RegInv, RegTypes, HostRecord
    <3> QED BY <2>1, <2>3, <3>1 DEF RegInv, RegTypes
  <2>4. CASE UNCHANGED reg
    BY <2>1, <2>4
  <2>5. scene.handlers \subseteq Handler
    BY RegistrationAssumption DEF RegInv, RegTypes
  <2> QED BY <2>2, <2>3, <2>4, <2>5 DEF installScript, StartAgent, Save, StopAgent
<1> QED BY <1>1, <1>2, <1>3, OthersKeepRegInv

LEMMA SelectKeepsRegInv ==
  ASSUME RegInv, NEW x \in Handler, RegisterSelect(x)
  PROVE  RegInv'
<1>1. RegTypes'
  BY RegisterTypes DEF RegInv
<1>2. CASE ~(Usable(reg[x].token) /\ ~token[reg[x].token].expired)
  <2>1. UNCHANGED << scene, token, made, issue, raced >> /\ reg' = [reg EXCEPT ![x] = NoReg]
    BY <1>2 DEF RegisterSelect
  <2>2. \A y \in Handler : /\ reg'[y].at \in {reg[y].at, "asks", "idle"}
                           /\ reg'[y].at = "commits" => reg'[y].token = reg[y].token
                           /\ reg'[y].at # "idle" => reg'[y].token \in Token
    BY <2>1 DEF RegInv, RegTypes, LockInv, NoReg
  <2> QED BY <1>1, <2>1, <2>2, OthersKeepRegInv
<1>3. CASE Usable(reg[x].token) /\ ~token[reg[x].token].expired
  <2> DEFINE t == reg[x].token
  <2>1. /\ t \in Token /\ Free(t) /\ Usable(t)
        /\ token' = [token EXCEPT ![t].lock = x] /\ reg' = [reg EXCEPT ![x].at = "commits"]
        /\ UNCHANGED << scene, made, issue, raced >>
    BY <1>3 DEF RegisterSelect, RegInv, LockInv
  <2>2. \A u \in Token : /\ token'[u].used = token[u].used /\ token'[u].revoked = token[u].revoked
                         /\ token'[u].there = token[u].there
                         /\ token'[u].lock = IF u = t THEN x ELSE token[u].lock
    BY <2>1 DEF RegInv, RegTypes, Row
  <2>3. \A y \in Handler : /\ reg'[y].token = reg[y].token
                           /\ reg'[y].at = IF y = x THEN "commits" ELSE reg[y].at
    BY <2>1 DEF RegInv, RegTypes, RegRecord
  <2> HIDE DEF t
  <2>4. LockInv'
    <3>1. \A y \in Handler : y # x /\ reg[y].at = "commits" => reg[y].token # t
      BY <2>1, RegistrationAssumption DEF RegInv, LockInv, Free
    <3>2. \A a \in Admin : issue[a].at = "inserts" => t \notin issue[a].revokes
      BY <2>1, RegistrationAssumption DEF RegInv, LockInv, Free
    <3>3. \A a \in Admin : issue[a].revokes \subseteq Token
      BY DEF RegInv, RegTypes, IssueRecord
    <3>4. \A y \in Handler : reg'[y].at # "idle" => reg'[y].token \in Token
      BY <2>1, <2>3 DEF t, RegInv, LockInv
    <3>5. \A y \in Handler : reg'[y].at = "commits" =>
            LET u == reg'[y].token IN token'[u].lock = y /\ ~token'[u].used /\ ~token'[u].revoked
      <4> TAKE y \in Handler
      <4>1. CASE y = x
        BY <2>1, <2>2, <2>3, <4>1 DEF t, Usable
      <4>2. CASE y # x
        BY <2>2, <2>3, <3>1, <4>2 DEF RegInv, LockInv
      <4> QED BY <4>1, <4>2
    <3>6. \A a \in Admin : issue'[a].at = "inserts" =>
            \A u \in issue'[a].revokes : token'[u].lock = a /\ ~token'[u].used
      BY <2>1, <2>2, <3>2, <3>3 DEF RegInv, LockInv
    <3> QED BY <3>4, <3>5, <3>6 DEF LockInv
  <2>5. TokenIsOneTime'
    BY <2>1, <2>2 DEF RegInv, RegTypes, TokenIsOneTime
  <2>6. IssueInv'
    BY <2>1, <2>2 DEF RegInv, IssueInv, Usable
  <2> QED BY <1>1, <2>4, <2>5, <2>6 DEF RegInv
<1> QED BY <1>2, <1>3

\* x ends, and leaves its token as it was or used.
LEMMA EndKeepsLocks ==
  ASSUME RegInv, NEW x \in Handler, reg' = [reg EXCEPT ![x] = NoReg], UNCHANGED issue,
         NEW t \in Token, reg[x].at = "commits" => t = reg[x].token,
         \A u \in Token :
           /\ token'[u].revoked = token[u].revoked
           /\ token'[u].lock = IF token[u].lock = x THEN "free" ELSE token[u].lock
           /\ token'[u].used = token[u].used \/ (u = t /\ reg[x].at = "commits")
  PROVE  LockInv'
<1>1. \A y \in Handler : reg'[y] = IF y = x THEN NoReg ELSE reg[y]
  BY DEF RegInv, RegTypes
<1>2. \A y \in Handler : reg'[y].at # "idle" => reg'[y].token \in Token
  BY <1>1 DEF NoReg, RegInv, LockInv
<1>3. reg[x].at = "commits" => token[t].lock = x
  BY DEF RegInv, LockInv
<1>4. \A y \in Handler : reg'[y].at = "commits" =>
        LET u == reg'[y].token IN token'[u].lock = y /\ ~token'[u].used /\ ~token'[u].revoked
  <2> SUFFICES ASSUME NEW y \in Handler, reg'[y].at = "commits"
               PROVE  LET u == reg'[y].token IN token'[u].lock = y /\ ~token'[u].used /\ ~token'[u].revoked
    OBVIOUS
  <2>1. y # x /\ reg'[y] = reg[y]
    BY <1>1 DEF NoReg
  <2>2. /\ reg[y].token \in Token /\ token[reg[y].token].lock = y
        /\ ~token[reg[y].token].used /\ ~token[reg[y].token].revoked
    BY <2>1 DEF RegInv, LockInv
  <2> QED BY <1>3, <2>1, <2>2
<1>5. \A a \in Admin : issue'[a].at = "inserts" =>
        \A u \in issue'[a].revokes : token'[u].lock = a /\ ~token'[u].used
  <2> SUFFICES ASSUME NEW a \in Admin, issue[a].at = "inserts", NEW u \in issue[a].revokes
               PROVE  token'[u].lock = a /\ ~token'[u].used
    OBVIOUS
  <2>1. u \in Token /\ token[u].lock = a /\ ~token[u].used /\ a # x
    BY RegistrationAssumption DEF RegInv, RegTypes, IssueRecord, LockInv
  <2> QED BY <1>3, <2>1
<1> QED BY <1>2, <1>4, <1>5 DEF LockInv

LEMMA CommitKeepsRegInv ==
  ASSUME RegInv, NEW x \in Handler, RegisterCommit(x)
  PROVE  RegInv'
<1> DEFINE t == reg[x].token
<1>1. RegTypes'
  BY RegisterTypes DEF RegInv
<1>2. /\ t \in Token /\ token[t].lock = x /\ ~token[t].used /\ ~token[t].revoked
      /\ made \in Seq(Token) /\ made' = Append(made, t)
      /\ token' = Unlock([token EXCEPT ![t].used = TRUE], x)
      /\ reg' = [reg EXCEPT ![x] = NoReg] /\ reg[x].at = "commits"
      /\ UNCHANGED << scene, issue, raced >>
  BY DEF RegisterCommit, RegInv, RegTypes, LockInv
<1> HIDE DEF t
<1>3. [token EXCEPT ![t].used = TRUE] \in [Token -> Row]
  BY <1>2 DEF RegInv, RegTypes, Row
<1>4. \A u \in Token :
        /\ token'[u].there = token[u].there /\ token'[u].revoked = token[u].revoked
        /\ token'[u].lock = IF token[u].lock = x THEN "free" ELSE token[u].lock
        /\ token'[u].used = IF u = t THEN TRUE ELSE token[u].used
  <2> DEFINE rows == [token EXCEPT ![t].used = TRUE]
  <2>1. \A u \in Token :
          /\ rows[u].there = token[u].there /\ rows[u].revoked = token[u].revoked
          /\ rows[u].lock = token[u].lock
          /\ rows[u].used = IF u = t THEN TRUE ELSE token[u].used
    <3> TAKE u \in Token
    <3>1. token[u] \in Row /\ token \in [Token -> Row]
      BY DEF RegInv, RegTypes
    <3>2. CASE u = t
      <4>1. rows[u] = [token[u] EXCEPT !.used = TRUE]
        BY <3>1, <3>2
      <4> HIDE DEF rows
      <4> QED BY <3>1, <3>2, <4>1 DEF Row
    <3>3. CASE u # t
      <4>1. rows[u] = token[u]
        BY <3>1, <3>3
      <4> QED BY <3>3, <4>1
    <3> QED BY <3>2, <3>3
  <2>2. rows \in [Token -> Row] /\ token' = Unlock(rows, x)
    BY <1>2, <1>3
  <2> HIDE DEF rows
  <2>3. \A u \in Token :
          /\ Unlock(rows, x)[u].there = rows[u].there /\ Unlock(rows, x)[u].used = rows[u].used
          /\ Unlock(rows, x)[u].revoked = rows[u].revoked
          /\ Unlock(rows, x)[u].lock = IF rows[u].lock = x THEN "free" ELSE rows[u].lock
    BY <2>2, UnlockType
  <2> QED BY <2>1, <2>2, <2>3
<1>5. LockInv'
  <2>1. reg[x].at = "commits" => t = reg[x].token
    BY DEF t
  <2>2. \A u \in Token :
           /\ token'[u].revoked = token[u].revoked
           /\ token'[u].lock = IF token[u].lock = x THEN "free" ELSE token[u].lock
           /\ token'[u].used = token[u].used \/ (u = t /\ reg[x].at = "commits")
    BY <1>2, <1>4
  <2>3. reg' = [reg EXCEPT ![x] = NoReg] /\ UNCHANGED issue
    BY <1>2
  <2> QED BY <1>2, <2>1, <2>2, <2>3, EndKeepsLocks
<1>6. TokenIsOneTime'
  <2>1. /\ DOMAIN made' = 1 .. Len(made) + 1 /\ DOMAIN made = 1 .. Len(made)
        /\ Len(made) \in Nat
        /\ \A n \in DOMAIN made : made'[n] = made[n] /\ made[n] \in Token
        /\ made'[Len(made) + 1] = t
    BY <1>2
  <2>2. \A n \in DOMAIN made : made[n] # t
    BY <1>2 DEF RegInv, TokenIsOneTime
  <2>3. \A m, n \in DOMAIN made' : made'[m] = made'[n] => m = n
    BY <2>1, <2>2 DEF RegInv, TokenIsOneTime
  <2>4. \A n \in DOMAIN made' : token'[made'[n]].used /\ ~token'[made'[n]].revoked
    <3> TAKE n \in DOMAIN made'
    <3>1. CASE n \in DOMAIN made
      BY <1>4, <2>1, <3>1 DEF RegInv, TokenIsOneTime
    <3>2. CASE n = Len(made) + 1
      BY <1>2, <1>4, <2>1, <3>2
    <3> QED BY <2>1, <3>1, <3>2
  <2> QED BY <2>3, <2>4 DEF TokenIsOneTime
<1>7. IssueInv'
  BY <1>2, <1>4 DEF RegInv, IssueInv, Usable
<1> QED BY <1>1, <1>5, <1>6, <1>7 DEF RegInv

\* Nothing but locks of x changes.
LEMMA RegisterRollbackKeepsRegInv ==
  ASSUME RegInv, NEW x \in Handler, RegisterRollback(x)
  PROVE  RegInv'
<1>1. RegTypes'
  BY RegisterTypes DEF RegInv
<1>2. /\ reg' = [reg EXCEPT ![x] = NoReg] /\ UNCHANGED << scene, made, issue, raced >>
      /\ reg[x].token \in Token
  BY DEF RegisterRollback, RegInv, LockInv
<1>3. \A u \in Token :
        /\ token'[u].there = token[u].there /\ token'[u].revoked = token[u].revoked
        /\ token'[u].lock = IF token[u].lock = x THEN "free" ELSE token[u].lock
        /\ token'[u].used = token[u].used
  BY UnlockType DEF RegisterRollback, RegInv, RegTypes
<1>4. LockInv'
  BY <1>2, <1>3, EndKeepsLocks
<1>5. TokenIsOneTime' /\ IssueInv'
  <2>1. \A n \in DOMAIN made : made[n] \in Token
    BY DEF RegInv, RegTypes
  <2>2. TokenIsOneTime'
    BY <1>2, <1>3, <2>1 DEF RegInv, TokenIsOneTime
  <2>3. IssueInv'
    BY <1>2, <1>3 DEF RegInv, IssueInv, Usable
  <2> QED BY <2>2, <2>3
<1> QED BY <1>1, <1>4, <1>5 DEF RegInv

LEMMA BeginKeepsRegInv ==
  ASSUME RegInv, NEW a \in scene.admins, IssueBegin(a)
  PROVE  RegInv'
<1>1. a \in Admin /\ RegTypes'
  BY RegistrationAssumption, IssueTypes DEF RegInv, RegTypes
<1>2. /\ UNCHANGED << scene, token, made, reg >>
      /\ raced' = (raced \/ \E b \in scene.admins : issue[b].at # "idle")
      /\ issue[a].at = "idle"
  BY DEF IssueBegin
<1>3. /\ \A b \in Admin : b # a => issue'[b] = issue[b]
      /\ issue'[a].at = "waits"
      /\ \A t \in Token : Usable(t) => t \in issue'[a].sees
  <2> DEFINE usable == {t \in Token : Usable(t)}
  <2>1. \A t \in Token : Usable(t) => t \in usable
    OBVIOUS
  <2>2. issue' = [issue EXCEPT ![a] = [at |-> "waits", sees |-> usable, revokes |-> {}]]
    BY DEF IssueBegin
  <2> HIDE DEF usable
  <2> QED BY <1>1, <2>1, <2>2 DEF RegInv, RegTypes
<1>4. LockInv'
  <2>1. \A b \in Admin : issue'[b].at = "inserts" => b # a /\ issue'[b] = issue[b]
    BY <1>3
  <2> QED BY <1>2, <2>1 DEF RegInv, LockInv
<1>5. TokenIsOneTime'
  BY <1>2 DEF RegInv, TokenIsOneTime
<1>6. IssueInv'
  <2>1. ~raced' => ~raced /\ \A b \in Admin : issue[b].at = "idle"
    BY <1>2 DEF RegInv, IssueInv
  <2>2. \A b \in Admin : issue'[b].at # "idle" => b \in scene.admins
    BY <1>1, <1>2, <1>3 DEF RegInv, IssueInv
  <2>3. ~raced' => \A b \in Admin : issue'[b].at # "idle" => b = a
    BY <1>3, <2>1
  <2>4. issue'[a].at = "waits" /\ \A t \in Token : Usable(t) => t \in issue'[a].sees
    BY <1>1, <1>3
  <2>5. \A t \in Token : Usable(t)' <=> Usable(t)
    BY <1>2 DEF Usable
  <2>6. ~raced' => \A t, u \in Token : Usable(t) /\ Usable(u) => t = u
    BY <2>1 DEF RegInv, IssueInv
  <2> QED BY <1>2, <2>2, <2>3, <2>4, <2>5, <2>6 DEF IssueInv
<1> QED BY <1>1, <1>4, <1>5, <1>6 DEF RegInv

LEMMA RevokeKeepsRegInv ==
  ASSUME RegInv, NEW a \in Admin, IssueRevoke(a)
  PROVE  RegInv'
<1> DEFINE still == {t \in issue[a].sees : Usable(t)}
<1>1. RegTypes' /\ issue[a].sees \subseteq Token
  BY IssueTypes DEF RegInv, RegTypes, IssueRecord
<1>2. /\ UNCHANGED << scene, made, reg, raced >>
      /\ issue[a].at = "waits" /\ \A t \in issue[a].sees : Free(t)
  BY DEF IssueRevoke
<1>3. /\ \A b \in Admin : b # a => issue'[b] = issue[b]
      /\ issue'[a].at = "inserts" /\ issue'[a].revokes = still
  <2>1. issue' = [issue EXCEPT ![a] = [at |-> "inserts", sees |-> issue[a].sees, revokes |-> still]]
    BY DEF IssueRevoke
  <2> HIDE DEF still
  <2> QED BY <2>1 DEF RegInv, RegTypes
<1>4. \A u \in Token :
        /\ token'[u].there = token[u].there /\ token'[u].revoked = token[u].revoked
        /\ token'[u].used = token[u].used
        /\ token'[u].lock = IF u \in still THEN a ELSE token[u].lock
  BY DEF IssueRevoke, RegInv, RegTypes, Row
<1>5. \A u \in still : u \in Token /\ token[u].lock = "free" /\ ~token[u].used
  BY <1>1, <1>2 DEF Free, Usable
<1>6. \A u \in Token : Usable(u) /\ u \in issue[a].sees => u \in still
  OBVIOUS
<1> HIDE DEF still
<1>7. LockInv'
  <2>1. \A y \in Handler : reg[y].at = "commits" => reg[y].token \notin still
    BY <1>5, RegistrationAssumption DEF RegInv, LockInv
  <2>2. \A b \in Admin : issue[b].at = "inserts" => \A t \in issue[b].revokes : t \in Token /\ t \notin still
    <3> TAKE b \in Admin
    <3> HAVE issue[b].at = "inserts"
    <3> TAKE t \in issue[b].revokes
    <3>1. t \in Token
      BY DEF RegInv, RegTypes, IssueRecord
    <3>2. token[t].lock = b /\ b # "free"
      BY RegistrationAssumption DEF RegInv, LockInv
    <3> QED BY <1>5, <3>1, <3>2
  <2>3. \A y \in Handler : reg'[y].at = "commits" =>
          LET u == reg'[y].token IN token'[u].lock = y /\ ~token'[u].used /\ ~token'[u].revoked
    BY <1>2, <1>4, <2>1 DEF RegInv, LockInv
  <2>4. \A b \in Admin : issue'[b].at = "inserts" =>
          \A u \in issue'[b].revokes : token'[u].lock = b /\ ~token'[u].used
    <3> TAKE b \in Admin
    <3>1. CASE b = a
      BY <1>3, <1>4, <1>5, <3>1
    <3>2. CASE b # a
      BY <1>3, <1>4, <2>2, <3>2 DEF RegInv, LockInv
    <3> QED BY <3>1, <3>2
  <2> QED BY <1>2, <2>3, <2>4 DEF RegInv, LockInv
<1>8. TokenIsOneTime'
  <2>1. \A n \in DOMAIN made : made[n] \in Token
    BY DEF RegInv, RegTypes
  <2> QED BY <1>2, <1>4, <2>1 DEF RegInv, TokenIsOneTime
<1>9. IssueInv'
  <2>1. \A u \in Token : Usable(u)' <=> Usable(u)
    BY <1>4 DEF Usable
  <2> QED BY <1>2, <1>3, <1>6, <2>1 DEF RegInv, IssueInv
<1> QED BY <1>1, <1>7, <1>8, <1>9 DEF RegInv

\* a ends: its locks are gone, and of the tokens only those it held change.
LEMMA IssueEndKeepsRegInv ==
  ASSUME RegInv, RegTypes', NEW a \in Admin, issue' = [issue EXCEPT ![a] = NoIssue],
         issue[a].at # "idle", UNCHANGED << scene, made, reg, raced >>,
         \A u \in Token :
           /\ token'[u].used = token[u].used
           /\ token[u].lock # a => token'[u].lock = token[u].lock
           /\ token'[u].revoked = token[u].revoked \/ (issue[a].at = "inserts" /\ u \in issue[a].revokes),
         ~raced => \A t, u \in Token : Usable(t)' /\ Usable(u)' => t = u
  PROVE  RegInv'
<1>1. \A b \in Admin : issue'[b] = IF b = a THEN NoIssue ELSE issue[b]
  BY DEF RegInv, RegTypes
<1>2. LockInv'
  <2>1. \A y \in Handler : reg'[y].at = "commits" =>
          LET u == reg'[y].token IN token'[u].lock = y /\ ~token'[u].used /\ ~token'[u].revoked
    <3> SUFFICES ASSUME NEW y \in Handler, reg[y].at = "commits"
                 PROVE  LET u == reg[y].token IN token'[u].lock = y /\ ~token'[u].used /\ ~token'[u].revoked
      OBVIOUS
    <3>1. /\ reg[y].token \in Token /\ token[reg[y].token].lock = y /\ y # a
          /\ ~token[reg[y].token].used /\ ~token[reg[y].token].revoked
      BY RegistrationAssumption DEF RegInv, LockInv
    <3>2. issue[a].at = "inserts" => reg[y].token \notin issue[a].revokes
      BY <3>1 DEF RegInv, LockInv
    <3> QED BY <3>1, <3>2
  <2>2. \A b \in Admin : issue'[b].at = "inserts" =>
          \A u \in issue'[b].revokes : token'[u].lock = b /\ ~token'[u].used
    <3> SUFFICES ASSUME NEW b \in Admin, issue'[b].at = "inserts", NEW u \in issue'[b].revokes
                 PROVE  token'[u].lock = b /\ ~token'[u].used
      OBVIOUS
    <3>1. b # a /\ issue'[b] = issue[b]
      BY <1>1 DEF NoIssue
    <3>2. u \in Token /\ token[u].lock = b /\ ~token[u].used
      BY <3>1 DEF RegInv, RegTypes, IssueRecord, LockInv
    <3> QED BY <3>1, <3>2
  <2> QED BY <2>1, <2>2 DEF RegInv, LockInv
<1>3. TokenIsOneTime'
  <2>1. \A n \in DOMAIN made : made[n] \in Token /\ token[made[n]].used /\ ~token[made[n]].revoked
    BY DEF RegInv, RegTypes, TokenIsOneTime
  <2>2. \A n \in DOMAIN made : issue[a].at = "inserts" => made[n] \notin issue[a].revokes
    BY <2>1 DEF RegInv, LockInv
  <2> QED BY <2>1, <2>2 DEF RegInv, TokenIsOneTime
<1>4. IssueInv'
  <2>1. \A b \in Admin : issue'[b].at # "idle" => b # a /\ issue'[b] = issue[b]
    BY <1>1 DEF NoIssue
  <2>2. ~raced => \A b \in Admin : issue'[b].at = "idle"
    BY <2>1 DEF RegInv, IssueInv
  <2> QED BY <2>1, <2>2 DEF RegInv, IssueInv
<1> QED BY <1>2, <1>3, <1>4 DEF RegInv

LEMMA IssueCommitKeepsRegInv ==
  ASSUME RegInv, NEW a \in Admin, IssueCommit(a)
  PROVE  RegInv'
<1>1. RegTypes'
  BY IssueTypes DEF RegInv
<1>2. /\ issue' = [issue EXCEPT ![a] = NoIssue] /\ issue[a].at = "inserts"
      /\ UNCHANGED << scene, made, reg, raced >>
  BY DEF IssueCommit
<1>3. PICK t \in Token :
        /\ ~token[t].there
        /\ token' = [u \in Token |->
             IF u = t THEN [token[u] EXCEPT !.there = TRUE]
             ELSE IF u \in issue[a].revokes THEN [token[u] EXCEPT !.revoked = TRUE, !.lock = "free"]
             ELSE token[u]]
  BY DEF IssueCommit
<1>4. \A u \in Token :
        /\ token'[u].used = token[u].used
        /\ token[u].lock # a => token'[u].lock = token[u].lock
        /\ IF u # t /\ u \in issue[a].revokes THEN token'[u].revoked ELSE token'[u].revoked = token[u].revoked
        /\ u # t => token'[u].there = token[u].there
  <2> TAKE u \in Token
  <2>1. token[u] \in Row
    BY DEF RegInv, RegTypes
  <2>2. u \in issue[a].revokes => token[u].lock = a
    BY <1>2 DEF RegInv, LockInv
  <2>3. CASE u = t
    BY <1>3, <2>1, <2>3 DEF Row
  <2>4. CASE u # t /\ u \in issue[a].revokes
    <3>1. token'[u] = [there |-> token[u].there, used |-> token[u].used, revoked |-> TRUE,
                       expired |-> token[u].expired, lock |-> "free"]
      BY <1>3, <2>1, <2>4 DEF Row
    <3> QED BY <2>2, <2>4, <3>1
  <2>5. CASE u # t /\ u \notin issue[a].revokes
    <3>1. token'[u] = token[u]
      BY <1>3, <2>5
    <3> QED BY <2>5, <3>1
  <2> QED BY <2>3, <2>4, <2>5
<1>5. \A u \in Token :
        /\ token'[u].used = token[u].used
        /\ token[u].lock # a => token'[u].lock = token[u].lock
        /\ token'[u].revoked = token[u].revoked \/ (issue[a].at = "inserts" /\ u \in issue[a].revokes)
  BY <1>2, <1>4
<1>6. ~raced => \A v, u \in Token : Usable(v)' /\ Usable(u)' => v = u
  <2>1. ~raced => \A u \in Token : Usable(u) => u \in issue[a].revokes
    BY <1>2 DEF RegInv, IssueInv
  <2>2. ~raced => \A u \in Token : Usable(u)' => u = t
    BY <1>4, <2>1 DEF Usable
  <2> QED BY <2>2
<1> QED BY <1>1, <1>2, <1>5, <1>6, IssueEndKeepsRegInv

LEMMA IssueRollbackKeepsRegInv ==
  ASSUME RegInv, NEW a \in Admin, IssueRollback(a)
  PROVE  RegInv'
<1>1. RegTypes'
  BY IssueTypes DEF RegInv
<1>2. /\ issue' = [issue EXCEPT ![a] = NoIssue] /\ issue[a].at # "idle"
      /\ UNCHANGED << scene, made, reg, raced >>
  BY DEF IssueRollback
<1>3. \A u \in Token :
        /\ token'[u].there = token[u].there /\ token'[u].used = token[u].used
        /\ token'[u].revoked = token[u].revoked
        /\ token'[u].lock = IF token[u].lock = a THEN "free" ELSE token[u].lock
  BY UnlockType DEF IssueRollback, RegInv, RegTypes
<1>4. \A u \in Token :
        /\ token'[u].used = token[u].used
        /\ token[u].lock # a => token'[u].lock = token[u].lock
        /\ token'[u].revoked = token[u].revoked \/ (issue[a].at = "inserts" /\ u \in issue[a].revokes)
  BY <1>3
<1>5. ~raced => \A v, u \in Token : Usable(v)' /\ Usable(u)' => v = u
  BY <1>3 DEF Usable, RegInv, IssueInv
<1> QED BY <1>1, <1>2, <1>4, <1>5, IssueEndKeepsRegInv

\* What happens to the rows only in fields that neither tokens nor locks are about.
LEMMA ExpireKeepsRegInv ==
  ASSUME RegInv, NEW t \in Token, Expire(t)
  PROVE  RegInv'
<1>1. UNCHANGED << scene, made, given, issue, reg, host, raced >> /\ key' = key
  BY DEF Expire, key
<1>2. token' \in [Token -> Row]
  BY DEF Expire, RegInv, RegTypes, Row
<1>3. \A u \in Token :
        /\ token'[u].there = token[u].there /\ token'[u].used = token[u].used
        /\ token'[u].revoked = token[u].revoked /\ token'[u].lock = token[u].lock
  BY DEF Expire, RegInv, RegTypes, Row
<1>4. RegTypes'
  BY <1>1, <1>2 DEF RegInv, RegTypes
<1>5. LockInv'
  <2>1. \A a \in Admin : issue[a].revokes \subseteq Token
    BY DEF RegInv, RegTypes, IssueRecord
  <2>2. \A x \in Handler : reg[x].at = "commits" => reg[x].token \in Token
    BY DEF RegInv, LockInv
  <2> QED BY <1>1, <1>3, <2>1, <2>2 DEF RegInv, LockInv
<1>6. TokenIsOneTime'
  <2>1. \A n \in DOMAIN made : made[n] \in Token
    BY DEF RegInv, RegTypes
  <2> QED BY <1>1, <1>3, <2>1 DEF RegInv, TokenIsOneTime
<1>7. IssueInv'
  BY <1>1, <1>3 DEF RegInv, IssueInv, Usable
<1> QED BY <1>4, <1>5, <1>6, <1>7 DEF RegInv

LEMMA RollbackAllKeepsRegInv ==
  ASSUME RegInv, RollbackAll
  PROVE  RegInv'
<1>1. RegTypes'
  BY RollbackTypes DEF RegInv
<1>2. /\ UNCHANGED << scene, made, given, raced >>
      /\ \A a \in Admin : issue'[a].at = "idle"
      /\ \A x \in Handler : reg'[x].at = "idle"
  BY DEF RollbackAll, NoIssue, NoReg
<1>3. \A u \in Token :
        /\ token'[u].there = token[u].there /\ token'[u].used = token[u].used
        /\ token'[u].revoked = token[u].revoked
  BY DEF RollbackAll, RegInv, RegTypes, Row
<1>4. LockInv'
  BY <1>2 DEF LockInv
<1>5. TokenIsOneTime'
  <2>1. \A n \in DOMAIN made : made[n] \in Token
    BY DEF RegInv, RegTypes
  <2> QED BY <1>2, <1>3, <2>1 DEF RegInv, TokenIsOneTime
<1>6. IssueInv'
  BY <1>2, <1>3 DEF RegInv, IssueInv, Usable
<1> QED BY <1>1, <1>4, <1>5, <1>6 DEF RegInv

LEMMA RegistrationKeepsRegInv ==
  ASSUME RegInv, RegistrationStep
  PROVE  RegInv' /\ key' \in {key, key + 1}
<1>0. scene.admins \subseteq Admin /\ scene.hosts \subseteq Host /\ scene.handlers \subseteq Handler
  BY RegistrationAssumption DEF RegInv, RegTypes
<1>1. ASSUME NEW a \in scene.admins, IssueBegin(a) \/ IssueRevoke(a) \/ IssueCommit(a) \/ IssueRollback(a)
      PROVE  RegInv' /\ key' \in {key, key + 1}
  <2>1. key' = key
    BY <1>1 DEF IssueBegin, IssueRevoke, IssueCommit, IssueRollback, key
  <2> QED BY <1>0, <1>1, <2>1, BeginKeepsRegInv, RevokeKeepsRegInv, IssueCommitKeepsRegInv, IssueRollbackKeepsRegInv
<1>2. ASSUME NEW t \in Token, Expire(t)
      PROVE  RegInv' /\ key' \in {key, key + 1}
  <2>1. key' = key
    BY <1>2 DEF Expire, key
  <2> QED BY <1>2, <2>1, ExpireKeepsRegInv
<1>3. ASSUME NEW h \in scene.hosts,
             (\E t \in given : installScript(h, t)) \/ StartAgent(h) \/ Save(h) \/ StopAgent(h)
      PROVE  RegInv' /\ key' \in {key, key + 1}
  <2>1. key' = key
    BY <1>3 DEF installScript, StartAgent, Save, StopAgent, key
  <2> QED BY <1>0, <1>3, <2>1, HostKeepsRegInv
<1>4. ASSUME NEW x \in scene.handlers, RegisterSelect(x) \/ RegisterCommit(x) \/ RegisterRollback(x)
      PROVE  RegInv' /\ key' \in {key, key + 1}
  <2>1. key' \in {key, key + 1}
    BY <1>0, <1>4, RegisterTypes DEF RegInv
  <2> QED BY <1>0, <1>4, <2>1, SelectKeepsRegInv, CommitKeepsRegInv, RegisterRollbackKeepsRegInv
<1> QED BY <1>1, <1>2, <1>3, <1>4 DEF RegistrationStep

LEMMA QuietKeepsRegInv ==
  ASSUME RegInv, UNCHANGED regVars
  PROVE  RegInv' /\ key' = key
<1>1. UNCHANGED << scene, token, made, given, issue, reg, host, raced >> /\ key' = key
  BY DEF regVars, key
<1>2. RegTypes'
  BY <1>1 DEF RegInv, RegTypes
<1>3. LockInv' /\ TokenIsOneTime' /\ IssueInv'
  BY <1>1 DEF RegInv, LockInv, TokenIsOneTime, IssueInv, Usable
<1> QED BY <1>1, <1>2, <1>3 DEF RegInv

(***************************************************************************)
(* Requests, nonces and the clock.                                         *)
(***************************************************************************)

AuthRecord(k, t) == [at : {"idle", "reads", "verified"}, q : Request \cup {"none"}, key : 0 .. k, since : 0 .. t]

LEMMA RegistrationKeepsAuthInv ==
  ASSUME AuthInv, key \in Nat, key' \in {key, key + 1}, UNCHANGED authVars
  PROVE  AuthInv'
<1>1. UNCHANGED << now, sent, nonces, auth, handled >>
  BY DEF authVars
<1>2. AuthTypes'
  BY <1>1 DEF AuthInv, AuthTypes
<1>3. CheckInv' /\ NonceInv'
  BY <1>1 DEF AuthInv, CheckInv, NonceInv
<1> QED BY <1>2, <1>3 DEF AuthInv

LEMMA TickKeepsAuthInv ==
  ASSUME AuthInv, key' = key, Tick
  PROVE  AuthInv'
<1>1. /\ now \in Nat /\ now' = now + 1 /\ now' \in 0 .. MaxTime
      /\ UNCHANGED << sent, nonces, auth, handled >>
      /\ \A w \in Worker : auth[w].at = "verified" => now < auth[w].since + Pause
  BY AccessAssumption DEF Tick, AuthInv, AuthTypes
<1>2. AuthTypes'
  <2>1. nonces \in [Request -> 0 .. now' \cup {Never}]
    BY <1>1 DEF AuthInv, AuthTypes
  <2>2. auth \in [Worker -> AuthRecord(key, now')]
    BY <1>1 DEF AuthInv, AuthTypes, AuthRecord
  <2> QED BY <1>1, <2>1, <2>2 DEF AuthInv, AuthTypes, AuthRecord
<1>3. CheckInv'
  <2>1. \A w \in Worker : auth[w].since \in Nat
    BY <1>1 DEF AuthInv, AuthTypes
  <2> QED BY <1>1, <2>1, AccessAssumption DEF AuthInv, CheckInv
<1>4. NonceInv'
  <2>1. \A q \in Request : sent[q].ts \in Nat
    BY DEF AuthInv, AuthTypes
  <2> QED BY <1>1, <2>1, AccessAssumption DEF AuthInv, NonceInv
<1> QED BY <1>2, <1>3, <1>4 DEF AuthInv

LEMMA SignedRequestKeepsAuthInv ==
  ASSUME AuthInv, RegTypes, key' = key, NEW h \in Host, NEW q \in Request, SignedRequest(h, q)
  PROVE  AuthInv'
<1>1. UNCHANGED << now, nonces, auth, handled >> /\ sent[q] = NoRequest
  BY DEF SignedRequest
<1>2. PICK r \in [secret : 0 .. key, ts : Nat] : sent' = [sent EXCEPT ![q] = r]
  <2>1. PICK ts \in 0 .. now + Drift : sent' = [sent EXCEPT ![q] = [secret |-> host[h].secret, ts |-> ts]]
    BY DEF SignedRequest
  <2>2. ts \in Nat /\ host[h].secret \in 0 .. key
    BY AccessAssumption DEF AuthInv, AuthTypes, RegTypes, HostRecord
  <2>3. [secret |-> host[h].secret, ts |-> ts] \in [secret : 0 .. key, ts : Nat]
    BY <2>2
  <2> QED BY <2>1, <2>3
<1>3. \A p \in Request : p # q => sent'[p] = sent[p]
  BY <1>2 DEF AuthInv, AuthTypes
<1>4. AuthTypes'
  BY <1>1, <1>2 DEF AuthInv, AuthTypes
<1>5. CheckInv'
  <2>1. \A w \in Worker : auth[w].at # "idle" => auth[w].q \in Request /\ auth[w].q # q
    BY <1>1 DEF AuthInv, CheckInv
  <2> QED BY <1>1, <1>3, <2>1 DEF AuthInv, CheckInv
<1>6. NonceInv'
  BY <1>1, <1>3 DEF AuthInv, NonceInv
<1> QED BY <1>4, <1>5, <1>6 DEF AuthInv

LEMMA ReadKeyKeepsAuthInv ==
  ASSUME AuthInv, key \in Nat, key' = key, NEW w \in Worker, NEW q \in Request, ReadKey(w, q)
  PROVE  AuthInv'
<1>1. /\ UNCHANGED << now, sent, nonces, handled >> /\ sent[q] # NoRequest
      /\ auth' = [auth EXCEPT ![w] = [at |-> "reads", q |-> q, key |-> key, since |-> 0]]
  BY DEF ReadKey
<1>2. now \in Nat /\ auth \in [Worker -> AuthRecord(key, now)]
  BY DEF AuthInv, AuthTypes, AuthRecord
<1>3. [at |-> "reads", q |-> q, key |-> key, since |-> 0] \in AuthRecord(key, now)
  BY <1>2 DEF AuthRecord
<1>4. AuthTypes'
  <2>1. auth' \in [Worker -> AuthRecord(key, now)]
    BY <1>1, <1>2, <1>3
  <2> QED BY <1>1, <2>1 DEF AuthInv, AuthTypes, AuthRecord
<1>5. CheckInv'
  BY <1>1, <1>2 DEF AuthInv, CheckInv
<1>6. NonceInv'
  BY <1>1 DEF AuthInv, NonceInv
<1> QED BY <1>4, <1>5, <1>6 DEF AuthInv

LEMMA VerifyKeepsAuthInv ==
  ASSUME AuthInv, key \in Nat, key' = key, NEW w \in Worker, Verify(w)
  PROVE  AuthInv'
<1> DEFINE q == auth[w].q
<1>1. UNCHANGED << now, sent, nonces, handled >> /\ auth[w].at = "reads"
  BY DEF Verify
<1>2. now \in Nat /\ auth \in [Worker -> AuthRecord(key, now)]
  BY DEF AuthInv, AuthTypes, AuthRecord
<1>3. auth[w] \in AuthRecord(key, now) /\ q \in Request /\ sent[q] # NoRequest
  BY <1>1, <1>2 DEF AuthInv, CheckInv
<1>4. \/ auth' = [auth EXCEPT ![w] = NoAuth]
      \/ /\ auth' = [auth EXCEPT ![w] = [at |-> "verified", q |-> q, key |-> auth[w].key, since |-> now]]
         /\ sent[q].ts <= now + Skew /\ now <= sent[q].ts + Skew
  BY <1>2 DEF Verify
<1>5. /\ NoAuth \in AuthRecord(key, now)
      /\ [at |-> "verified", q |-> q, key |-> auth[w].key, since |-> now] \in AuthRecord(key, now)
  BY <1>2, <1>3 DEF AuthRecord, NoAuth, NoSecret
<1>6. AuthTypes'
  <2>1. auth' \in [Worker -> AuthRecord(key, now)]
    BY <1>2, <1>4, <1>5
  <2> QED BY <1>1, <2>1 DEF AuthInv, AuthTypes, AuthRecord
<1> HIDE DEF q
<1>7. CheckInv'
  <2>1. \A v \in Worker : v # w => auth'[v] = auth[v]
    BY <1>2, <1>4
  <2>2. CASE auth' = [auth EXCEPT ![w] = NoAuth]
    <3>1. auth'[w].at = "idle"
      BY <1>2, <2>2 DEF NoAuth
    <3> QED BY <1>1, <2>1, <3>1 DEF AuthInv, CheckInv
  <2>3. CASE /\ auth' = [auth EXCEPT ![w] = [at |-> "verified", q |-> q, key |-> auth[w].key, since |-> now]]
             /\ sent[q].ts <= now + Skew /\ now <= sent[q].ts + Skew
    <3>1. auth'[w].q = q /\ auth'[w].since = now
      BY <1>2, <2>3
    <3> QED BY <1>1, <1>2, <1>3, <2>1, <2>3, <3>1, AccessAssumption DEF AuthInv, CheckInv
  <2> QED BY <1>4, <2>2, <2>3
<1>8. NonceInv'
  BY <1>1 DEF AuthInv, NonceInv
<1> QED BY <1>6, <1>7, <1>8 DEF AuthInv

\* What the cache forgets is no longer needed.
LEMMA RememberedEnough ==
  ASSUME AuthInv
  PROVE  /\ Remembered \in [Request -> 0 .. now \cup {Never}]
         /\ \A q \in Request : handled[q] # 0 =>
              /\ handled[q] = 1 /\ sent[q] # NoRequest
              /\ \/ Remembered[q] \in 0 .. now /\ sent[q].ts <= Remembered[q] + Skew
                 \/ Remembered[q] = Never /\ now > sent[q].ts + Skew + Pause
<1>1. now \in Nat /\ nonces \in [Request -> 0 .. now \cup {Never}] /\ \A q \in Request : sent[q].ts \in Nat
  BY DEF AuthInv, AuthTypes
<1>2. Remembered \in [Request -> 0 .. now \cup {Never}]
  BY <1>1 DEF Remembered
<1>3. ASSUME NEW q \in Request, handled[q] # 0
      PROVE  /\ handled[q] = 1 /\ sent[q] # NoRequest
             /\ \/ Remembered[q] \in 0 .. now /\ sent[q].ts <= Remembered[q] + Skew
                \/ Remembered[q] = Never /\ now > sent[q].ts + Skew + Pause
  <2>1. /\ handled[q] = 1 /\ sent[q] # NoRequest
        /\ \/ nonces[q] \in 0 .. now /\ sent[q].ts <= nonces[q] + Skew
           \/ nonces[q] = Never /\ now > sent[q].ts + Skew + Pause
    BY <1>3 DEF AuthInv, NonceInv
  <2>2. Remembered[q] = IF nonces[q] # Never /\ now - nonces[q] > TTL THEN Never ELSE nonces[q]
    BY DEF Remembered
  <2>3. CASE nonces[q] \in 0 .. now /\ sent[q].ts <= nonces[q] + Skew
    BY <1>1, <2>1, <2>2, <2>3, AccessAssumption
  <2>4. CASE nonces[q] = Never /\ now > sent[q].ts + Skew + Pause
    BY <2>1, <2>2, <2>4
  <2> QED BY <2>1, <2>3, <2>4
<1> QED BY <1>2, <1>3

LEMMA SeenKeepsAuthInv ==
  ASSUME AuthInv, key \in Nat, key' = key, NEW w \in Worker, Seen(w)
  PROVE  AuthInv'
<1> DEFINE q == auth[w].q
<1>1. UNCHANGED << now, sent >> /\ auth' = [auth EXCEPT ![w] = NoAuth] /\ auth[w].at = "verified"
  BY DEF Seen
<1>2. now \in Nat /\ auth \in [Worker -> AuthRecord(key, now)] /\ sent \in [Request -> [secret : 0 .. key, ts : Nat]]
      /\ handled \in [Request -> Nat]
  BY DEF AuthInv, AuthTypes, AuthRecord
<1>3. /\ q \in Request /\ sent[q] # NoRequest /\ sent[q].ts \in Nat /\ auth[w].since \in 0 .. now
      /\ now <= auth[w].since + Pause
      /\ sent[q].ts <= auth[w].since + Skew /\ auth[w].since <= sent[q].ts + Skew
  BY <1>1, <1>2 DEF AuthInv, CheckInv, AuthRecord
<1> HIDE DEF q
<1>4. CheckInv' /\ auth' \in [Worker -> AuthRecord(key, now)]
  <2>1. NoAuth \in AuthRecord(key, now)
    BY <1>2 DEF NoAuth, NoSecret, AuthRecord
  <2>2. \A v \in Worker : auth'[v] = IF v = w THEN NoAuth ELSE auth[v]
    BY <1>1, <1>2
  <2>3. \A v \in Worker : auth'[v].at # "idle" => auth'[v] = auth[v]
    BY <2>2 DEF NoAuth
  <2>4. CheckInv'
    BY <1>1, <2>3 DEF AuthInv, CheckInv
  <2> QED BY <1>1, <1>2, <2>1, <2>4
<1>5. CASE Remembered[q] # Never
  <2>1. nonces' = Remembered /\ UNCHANGED handled
    BY <1>5 DEF Seen, q
  <2>2. AuthTypes'
    BY <1>1, <1>4, <2>1, RememberedEnough DEF AuthInv, AuthTypes, AuthRecord
  <2>3. NonceInv'
    BY <1>1, <2>1, RememberedEnough DEF NonceInv
  <2> QED BY <1>4, <2>2, <2>3 DEF AuthInv
<1>6. CASE Remembered[q] = Never
  <2>1. nonces' = [Remembered EXCEPT ![q] = now] /\ handled' = [handled EXCEPT ![q] = @ + 1]
    BY <1>6 DEF Seen, q
  <2>2. handled[q] = 0
    <3> SUFFICES ASSUME handled[q] # 0 PROVE FALSE
      OBVIOUS
    <3>1. Never \notin 0 .. now
      BY AccessAssumption DEF Never, AuthInv, AuthTypes
    <3>2. now > sent[q].ts + Skew + Pause
      BY <1>3, <1>6, <3>1, RememberedEnough
    <3> QED BY <1>2, <1>3, <3>2, AccessAssumption
  <2>3. /\ \A p \in Request : p # q => nonces'[p] = Remembered[p] /\ handled'[p] = handled[p]
        /\ nonces'[q] = now /\ handled'[q] = 1
    BY <1>2, <1>3, <2>1, <2>2, RememberedEnough
  <2>4. nonces' \in [Request -> 0 .. now \cup {Never}] /\ handled' \in [Request -> Nat]
    BY <1>2, <1>3, <2>1, RememberedEnough
  <2>5. AuthTypes'
    BY <1>1, <1>4, <2>4 DEF AuthInv, AuthTypes, AuthRecord
  <2>6. NonceInv'
    <3> SUFFICES ASSUME NEW p \in Request, handled'[p] # 0
                 PROVE  /\ handled'[p] = 1 /\ sent[p] # NoRequest
                        /\ \/ nonces'[p] \in 0 .. now /\ sent[p].ts <= nonces'[p] + Skew
                           \/ nonces'[p] = Never /\ now > sent[p].ts + Skew + Pause
      BY <1>1 DEF NonceInv, Never
    <3>1. CASE p = q
      BY <1>2, <1>3, <2>3, <3>1, AccessAssumption
    <3>2. CASE p # q
      BY <2>3, <3>2, RememberedEnough
    <3> QED BY <3>1, <3>2
  <2> QED BY <1>4, <2>5, <2>6 DEF AuthInv
<1> QED BY <1>5, <1>6

LEMMA RestartKeepsAuthInv ==
  ASSUME AuthInv, key \in Nat, key' = key, RestartCenter
  PROVE  AuthInv'
<1>1. /\ UNCHANGED << now, sent >> /\ nonces' = [q \in Request |-> Never]
      /\ auth' = [w \in Worker |-> NoAuth] /\ handled' = [q \in Request |-> 0]
  BY DEF RestartCenter
<1>2. now \in Nat
  BY DEF AuthInv, AuthTypes
<1>3. AuthTypes'
  BY <1>1, <1>2 DEF AuthInv, AuthTypes, NoAuth, NoSecret, Never
<1>4. CheckInv' /\ NonceInv'
  BY <1>1 DEF CheckInv, NonceInv, NoAuth
<1> QED BY <1>3, <1>4 DEF AuthInv

(***************************************************************************)
(* Every step, and the theorems.                                           *)
(***************************************************************************)

LEMMA StepKeepsInv == Inv /\ [Next]_vars => Inv'
<1> SUFFICES ASSUME Inv, [Next]_vars PROVE Inv'
  OBVIOUS
<1>0. /\ RegInv /\ AuthInv /\ RegTypes /\ key \in Nat
      /\ scene.requests \subseteq Request /\ scene.hosts \subseteq Host
  BY AccessAssumption, RegistrationAssumption DEF Inv, RegInv, RegTypes, key
<1>1. CASE RegistrationStep /\ UNCHANGED authVars
  BY <1>0, <1>1, RegistrationKeepsRegInv, RegistrationKeepsAuthInv DEF Inv
<1>2. CASE Tick
  <2>1. UNCHANGED regVars
    BY <1>2 DEF Tick, regVars
  <2> QED BY <1>0, <1>2, <2>1, QuietKeepsRegInv, TickKeepsAuthInv DEF Inv
<1>3. ASSUME NEW h \in scene.hosts, NEW q \in scene.requests, SignedRequest(h, q)
      PROVE  Inv'
  <2>1. UNCHANGED regVars /\ h \in Host /\ q \in Request
    BY <1>0, <1>3 DEF SignedRequest, regVars
  <2> QED BY <1>0, <1>3, <2>1, QuietKeepsRegInv, SignedRequestKeepsAuthInv DEF Inv
<1>4. ASSUME NEW w \in Worker, NEW q \in scene.requests, ReadKey(w, q)
      PROVE  Inv'
  <2>1. UNCHANGED regVars /\ q \in Request
    BY <1>0, <1>4 DEF ReadKey, regVars
  <2> QED BY <1>0, <1>4, <2>1, QuietKeepsRegInv, ReadKeyKeepsAuthInv DEF Inv
<1>5. ASSUME NEW w \in Worker, Verify(w) \/ Seen(w)
      PROVE  Inv'
  <2>1. UNCHANGED regVars
    BY <1>5 DEF Verify, Seen, regVars
  <2> QED BY <1>0, <1>5, <2>1, QuietKeepsRegInv, VerifyKeepsAuthInv, SeenKeepsAuthInv DEF Inv
<1>6. CASE RestartCenter
  <2>1. RegInv' /\ key' = key
    BY <1>0, <1>6, RollbackAllKeepsRegInv DEF RestartCenter, RollbackAll, key
  <2> QED BY <1>0, <1>6, <2>1, RestartKeepsAuthInv DEF Inv
<1>7. CASE UNCHANGED vars
  <2>1. UNCHANGED regVars /\ UNCHANGED authVars
    BY <1>7 DEF vars
  <2> QED BY <1>0, <2>1, QuietKeepsRegInv, RegistrationKeepsAuthInv DEF Inv
<1> QED BY <1>1, <1>2, <1>3, <1>4, <1>5, <1>6, <1>7 DEF Next

LEMMA InvHolds == Spec => []Inv
<1>1. Init => Inv
  BY InitInv
<1>2. Inv /\ [Next]_vars => Inv'
  BY StepKeepsInv
<1> QED BY <1>1, <1>2, PTL DEF Spec

\* Every variable keeps its type, with any number of agents, administrators
\* and requests.
THEOREM AccessTypeCorrect == Spec => []AccessTypeOK
<1>1. Inv => AccessTypeOK
  BY DEF Inv, RegInv, RegTypes, AuthInv, AuthTypes, AccessTypeOK, IssueRecord, RegRecord, HostRecord
<1> QED BY <1>1, InvHolds, PTL

\* agentRegister gives one secret for a token at most, and none for one that
\* was revoked: FOR UPDATE makes the second handler look again.
THEOREM OneTimeTokens == Spec => []TokenIsOneTime
<1>1. Inv => TokenIsOneTime
  BY DEF Inv, RegInv
<1> QED BY <1>1, InvHolds, PTL

\* postNodeIssueInstallToken leaves one usable token when no other issues
\* one at the same time, however it interleaves with registrations.
THEOREM OneTokenAtATime == Spec => []OneUsableToken
<1>1. Inv => OneUsableToken
  <2> SUFFICES ASSUME Inv, ~raced PROVE Cardinality({t \in Token : Usable(t)}) <= 1
    BY DEF OneUsableToken
  <2> DEFINE usable == {t \in Token : Usable(t)}
  <2>1. \A t, u \in usable : t = u
    BY DEF Inv, RegInv, IssueInv
  <2> HIDE DEF usable
  <2>2. CASE usable = {}
    <3>1. Cardinality(usable) = 0
      BY <2>2, FS_EmptySet
    <3> QED BY <3>1 DEF usable
  <2>3. CASE usable # {}
    <3>1. PICK t : t \in usable
      BY <2>3
    <3>2. usable = {t}
      BY <2>1, <3>1
    <3>3. Cardinality(usable) = 1
      BY <3>2, FS_Singleton
    <3> QED BY <3>3 DEF usable
  <2> QED BY <2>2, <2>3
<1> QED BY <1>1, InvHolds, PTL

\* requireAgentHMAC lets a request through once in the life of a process, as
\* the nonces are remembered for longer than a signature may be presented.
THEOREM NoReplay == Spec => []HandledOnce
<1>1. Inv => HandledOnce
  BY DEF Inv, AuthInv, AuthTypes, NonceInv, HandledOnce
<1> QED BY <1>1, InvHolds, PTL

=============================================================================
