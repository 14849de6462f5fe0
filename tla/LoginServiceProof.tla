-------------------------- MODULE LoginServiceProof --------------------------
(***************************************************************************)
(* Proofs about LoginService, for any number of clients, players, tokens   *)
(* and any time to live.                                                   *)
(***************************************************************************)
EXTENDS LoginService, TLAPS

Stages ==
  {<< "idle", "start" >>, << "login", "hset" >>, << "login", "expire" >>,
   << "login", "set" >>, << "login", "report" >>, << "logout", "delete" >>,
   << "logout", "report" >>}

-----------------------------------------------------------------------------
(* Types.                                                                  *)

\* Beginning, moving on and ending keep every request within its own handler
\* (login, logout).
LEMMA BeginType ==
  ASSUME LoginTypeOK, NEW c \in Clients, NEW o, NEW first, NEW t \in Tokens,
         << o, first >> \in Stages, Begin(c, o, first, t),
         owner' \in [Tokens -> Players \cup {None}], owner'[t] = PlayerOf[c],
         \A u \in Tokens : owner[u] # None => owner'[u] = owner[u],
         UNCHANGED << session, online, given >>
  PROVE  LoginTypeOK'
<1>1. /\ token' \in [Clients -> Tokens \cup {None}]
      /\ op' \in [Clients -> {"idle", "login", "logout"}]
      /\ pc' \in [Clients -> {"start", "hset", "expire", "set", "delete", "report"}]
  BY DEF LoginTypeOK, Begin, Stages
<1>2. ASSUME NEW d \in Clients
      PROVE  /\ << op'[d], pc'[d] >> \in Stages
             /\ op'[d] # "idle" => (token'[d] \in Tokens /\ owner'[token'[d]] = PlayerOf[d])
  <2>1. CASE d = c
    BY <2>1 DEF LoginTypeOK, Begin
  <2>2. CASE d # c
    <3>1. op'[d] = op[d] /\ pc'[d] = pc[d] /\ token'[d] = token[d]
      BY <2>2 DEF LoginTypeOK, Begin
    <3>2. PlayerOf[d] # None
      BY LoginAssumption
    <3>. QED
      BY <3>1, <3>2 DEF LoginTypeOK, Stages
  <2>. QED
    BY <2>1, <2>2
<1>3. \A u \in given' : owner'[u] # None
  BY DEF LoginTypeOK
<1>. QED
  BY <1>1, <1>2, <1>3 DEF LoginTypeOK, Stages

LEMMA GotoType ==
  ASSUME LoginTypeOK, NEW c \in Clients, NEW there, Goto(c, there),
         << op[c], there >> \in Stages, op[c] # "idle",
         session' \in [Tokens -> Nat \cup {Forever}],
         online' \in [Players -> Nat \cup {LoggedOut}],
         UNCHANGED << owner, given >>
  PROVE  LoginTypeOK'
<1>1. pc' \in [Clients -> {"start", "hset", "expire", "set", "delete", "report"}]
  BY DEF LoginTypeOK, Goto, Stages
<1>2. \A d \in Clients : << op'[d], pc'[d] >> \in Stages
  BY DEF LoginTypeOK, Goto, Stages
<1>. QED
  BY <1>1, <1>2 DEF LoginTypeOK, Goto, Stages

LEMMA EndType ==
  ASSUME LoginTypeOK, NEW c \in Clients, End(c), UNCHANGED << redis, owner >>,
         given' \subseteq Tokens, \A t \in given' : owner[t] # None
  PROVE  LoginTypeOK'
<1>1. /\ token' \in [Clients -> Tokens \cup {None}]
      /\ op' \in [Clients -> {"idle", "login", "logout"}]
      /\ pc' \in [Clients -> {"start", "hset", "expire", "set", "delete", "report"}]
  BY DEF LoginTypeOK, End
<1>2. \A d \in Clients : << op'[d], pc'[d] >> \in Stages
  BY DEF LoginTypeOK, End, Stages
<1>3. \A d \in Clients :
        op'[d] # "idle" => (token'[d] \in Tokens /\ owner'[token'[d]] = PlayerOf[d])
  BY DEF LoginTypeOK, End
<1>. QED
  BY <1>1, <1>2, <1>3 DEF LoginTypeOK, Stages, redis

\* What Login draws is a token that nobody has.
LEMMA Drawn ==
  ASSUME LoginTypeOK, NEW c \in Clients, Login(c)
  PROVE  \E t \in Tokens : /\ owner[t] = None
                           /\ owner' = [owner EXCEPT ![t] = PlayerOf[c]]
                           /\ Begin(c, "login", "hset", t)
<1>. DEFINE t == CHOOSE u \in Unused : TRUE
<1>1. t \in Unused
  BY DEF Login
<1>. QED
  BY <1>1 DEF Login, Unused

LEMMA SoonerType ==
  ASSUME NEW left
  PROVE  /\ left \in Nat => Sooner(left) \in Nat /\ Sooner(left) <= left
         /\ left \notin Nat => Sooner(left) = left
BY DEF Sooner

\* The type invariant, through every step.
LEMMA TypeStep ==
  ASSUME LoginTypeOK, [LoginNext]_loginVars
  PROVE  LoginTypeOK'
<1>1. ASSUME NEW c \in Clients, Login(c)
      PROVE  LoginTypeOK'
  <2>1. PICK t \in Tokens : /\ owner[t] = None
                            /\ owner' = [owner EXCEPT ![t] = PlayerOf[c]]
                            /\ Begin(c, "login", "hset", t)
    BY <1>1, Drawn
  <2>2. /\ owner' \in [Tokens -> Players \cup {None}]
        /\ owner'[t] = PlayerOf[c]
        /\ \A u \in Tokens : owner[u] # None => owner'[u] = owner[u]
    BY <2>1, LoginAssumption DEF LoginTypeOK
  <2>3. UNCHANGED << session, online, given >>
    BY <1>1 DEF Login, redis
  <2>. QED
    BY <2>1, <2>2, <2>3, BeginType DEF Stages
<1>2. ASSUME NEW c \in Clients, SaveSession(c)
      PROVE  LoginTypeOK'
  <2>1. session' \in [Tokens -> Nat \cup {Forever}]
    BY <1>2 DEF SaveSession, LoginTypeOK
  <2>. QED
    BY <1>2, <2>1, GotoType DEF SaveSession, At, LoginTypeOK, Stages
<1>3. ASSUME NEW c \in Clients, ExpireSession(c)
      PROVE  LoginTypeOK'
  <2>1. session' \in [Tokens -> Nat \cup {Forever}]
    BY <1>3, LoginAssumption DEF ExpireSession, LoginTypeOK
  <2>. QED
    BY <1>3, <2>1, GotoType DEF ExpireSession, At, LoginTypeOK, Stages
<1>4. ASSUME NEW c \in Clients, SetOnline(c)
      PROVE  LoginTypeOK'
  <2>1. online' \in [Players -> Nat \cup {LoggedOut}]
    BY <1>4, LoginAssumption DEF SetOnline, RenewedFlag, LoginTypeOK
  <2>. QED
    BY <1>4, <2>1, GotoType DEF SetOnline, At, LoginTypeOK, Stages
<1>5. ASSUME NEW c \in Clients, AnswerLogin(c)
      PROVE  LoginTypeOK'
  <2>1. token[c] \in Tokens /\ owner[token[c]] # None
    BY <1>5, LoginAssumption DEF AnswerLogin, At, LoginTypeOK
  <2>2. given' \subseteq Tokens /\ \A t \in given' : owner[t] # None
    BY <1>5, <2>1 DEF AnswerLogin, LoginTypeOK
  <2>. QED
    BY <1>5, <2>2, EndType DEF AnswerLogin
<1>6. ASSUME NEW c \in Clients, Logout(c)
      PROVE  LoginTypeOK'
  <2>1. PICK t \in given : /\ owner[t] = PlayerOf[c]
                           /\ Begin(c, "logout", "delete", t)
                           /\ UNCHANGED << redis, owner, given >>
    BY <1>6 DEF Logout
  <2>2. t \in Tokens
    BY DEF LoginTypeOK
  <2>3. owner' \in [Tokens -> Players \cup {None}]
    BY <2>1 DEF LoginTypeOK
  <2>. QED
    BY <2>1, <2>2, <2>3, BeginType DEF Stages, redis
<1>7. ASSUME NEW c \in Clients, DeleteSession(c)
      PROVE  LoginTypeOK'
  <2>1. /\ session' \in [Tokens -> Nat \cup {Forever}]
        /\ online' \in [Players -> Nat \cup {LoggedOut}]
    BY <1>7 DEF DeleteSession, LoginTypeOK
  <2>. QED
    BY <1>7, <2>1, GotoType DEF DeleteSession, At, LoginTypeOK, Stages
<1>8. ASSUME NEW c \in Clients, AnswerLogout(c) \/ Fail(c)
      PROVE  LoginTypeOK'
  BY <1>8, EndType DEF AnswerLogout, Fail, LoginTypeOK
<1>9. ASSUME Tick
      PROVE  LoginTypeOK'
  <2>1. /\ session' \in [Tokens -> Nat \cup {Forever}]
        /\ online' \in [Players -> Nat \cup {LoggedOut}]
    BY <1>9, SoonerType, LoginAssumption DEF Tick, LoginTypeOK
  <2>. QED
    BY <1>9, <2>1 DEF Tick, LoginTypeOK, requests
<1>10. CASE UNCHANGED loginVars
  BY <1>10 DEF loginVars, redis, requests, LoginTypeOK
<1>. QED
  BY <1>1, <1>2, <1>3, <1>4, <1>5, <1>6, <1>7, <1>8, <1>9, <1>10 DEF LoginNext, LoginStep

\* Every request keeps within its own handler, for its own player, and every key has a
\* time left, none, or for ever (login, logout).
THEOREM LoginTypeCorrect == LoginSpec => []LoginTypeOK
<1>1. LoginInit => LoginTypeOK
  BY DEF LoginInit, LoginTypeOK
<1>2. LoginTypeOK /\ [LoginNext]_loginVars => LoginTypeOK'
  BY TypeStep
<1>. QED
  BY <1>1, <1>2, PTL DEF LoginSpec

-----------------------------------------------------------------------------
(* The online flag covers the sessions handed out.                         *)

\* A token whose login has set the flag, whether it was handed out yet or not.
Settled(t) ==
  t \in given \/ \E c \in Clients : At(c, "login", "report") /\ token[c] = t

Covered(t) ==
  /\ session[t] \in Nat
  /\ online[owner[t]] = LoggedOut \/ session[t] <= online[owner[t]]

\* A login works on a token that is its own, sees to its session's time to live before
\* it sets the flag, and no session has more than a flag just set.
FlagInv ==
  /\ \A c \in Clients : op[c] = "login" => token[c] \notin given
  /\ \A c, d \in Clients :
       (op[c] = "login" /\ op[d] = "login" /\ token[c] = token[d]) => c = d
  /\ \A t \in Tokens : session[t] \in Nat => session[t] <= TTL
  /\ \A c \in Clients : At(c, "login", "set") => session[token[c]] \in Nat
  /\ \A t \in Tokens : Settled(t) => Covered(t)

\* Logging in with a token that nobody has takes nothing from anyone.
LEMMA LoginKeepsFlagInv ==
  ASSUME LoginTypeOK, FlagInv, NEW c \in Clients, Login(c)
  PROVE  FlagInv'
<1>1. PICK t \in Tokens : /\ owner[t] = None
                          /\ owner' = [owner EXCEPT ![t] = PlayerOf[c]]
                          /\ Begin(c, "login", "hset", t)
  BY Drawn
<1>2. UNCHANGED << session, online, given >>
  BY DEF Login, redis
<1>3. t \notin given /\ \A d \in Clients : op[d] # "idle" => token[d] # t
  BY <1>1, LoginAssumption DEF LoginTypeOK
<1>4. /\ op'[c] = "login" /\ pc'[c] = "hset" /\ token'[c] = t
      /\ \A d \in Clients : d # c => /\ op'[d] = op[d] /\ pc'[d] = pc[d]
                                     /\ token'[d] = token[d]
  BY <1>1 DEF Begin, LoginTypeOK
<1>5. \A d \in Clients : op'[d] = "login" => token'[d] \notin given'
  BY <1>2, <1>3, <1>4 DEF FlagInv
<1>6. \A d, e \in Clients :
        (op'[d] = "login" /\ op'[e] = "login" /\ token'[d] = token'[e]) => d = e
  BY <1>3, <1>4 DEF FlagInv
<1>7. \A d \in Clients : At(d, "login", "set")' => session'[token'[d]] \in Nat
  BY <1>2, <1>4 DEF FlagInv, At
<1>8. ASSUME NEW u \in Tokens, Settled(u)'
      PROVE  Covered(u)'
  <2>1. Settled(u) /\ u # t
    BY <1>2, <1>3, <1>4, <1>8 DEF Settled, At
  <2>2. owner'[u] = owner[u]
    BY <1>1, <2>1 DEF LoginTypeOK
  <2>. QED
    BY <1>2, <2>1, <2>2 DEF FlagInv, Covered
<1>. QED
  BY <1>2, <1>5, <1>6, <1>7, <1>8 DEF FlagInv

\* The commands of a login, between its own token and the flag it sets.
LEMMA CommandKeepsFlagInv ==
  ASSUME LoginTypeOK, FlagInv, NEW c \in Clients,
         SaveSession(c) \/ ExpireSession(c) \/ SetOnline(c)
  PROVE  FlagInv'
<1>. DEFINE t == token[c]
<1>1. op[c] = "login" /\ pc[c] # "report" /\ t \in Tokens /\ owner[t] = PlayerOf[c]
  BY DEF SaveSession, ExpireSession, SetOnline, At, LoginTypeOK
<1>2. /\ UNCHANGED << op, token, owner, given >>
      /\ \A d \in Clients : d # c => pc'[d] = pc[d]
  BY DEF SaveSession, ExpireSession, SetOnline, Goto, LoginTypeOK
<1>3. t \notin given /\ \A d \in Clients : (op[d] = "login" /\ token[d] = t) => d = c
  BY <1>1 DEF FlagInv
<1>4. /\ \A d \in Clients : op'[d] = "login" => token'[d] \notin given'
      /\ \A d, e \in Clients :
           (op'[d] = "login" /\ op'[e] = "login" /\ token'[d] = token'[e]) => d = e
  BY <1>2 DEF FlagInv
<1>5. CASE SaveSession(c)
  <2>1. /\ session' = [session EXCEPT ![t] = Forever] /\ online' = online
        /\ pc'[c] = "expire"
    BY <1>5 DEF SaveSession, Goto, LoginTypeOK
  <2>2. \A u \in Tokens : session'[u] \in Nat => session'[u] <= TTL
    BY <2>1, LoginAssumption DEF FlagInv, LoginTypeOK
  <2>3. \A d \in Clients : At(d, "login", "set")' => session'[token'[d]] \in Nat
    BY <1>2, <1>3, <2>1 DEF FlagInv, At, LoginTypeOK
  <2>4. ASSUME NEW u \in Tokens, Settled(u)'
        PROVE  Covered(u)'
    <3>1. Settled(u) /\ u # t
      BY <1>2, <1>3, <2>1, <2>4 DEF Settled, At
    <3>. QED
      BY <1>2, <2>1, <3>1 DEF FlagInv, Covered, LoginTypeOK
  <2>. QED
    BY <1>4, <2>2, <2>3, <2>4 DEF FlagInv
<1>6. CASE ExpireSession(c)
  <2>1. /\ session' = [session EXCEPT ![t] = TTL] /\ online' = online
        /\ pc'[c] = "set"
    BY <1>6 DEF ExpireSession, Goto, LoginTypeOK
  <2>2. \A u \in Tokens : session'[u] \in Nat => session'[u] <= TTL
    BY <2>1, LoginAssumption DEF FlagInv, LoginTypeOK
  <2>3. \A d \in Clients : At(d, "login", "set")' => session'[token'[d]] \in Nat
    BY <1>1, <1>2, <1>3, <2>1, LoginAssumption DEF FlagInv, At, LoginTypeOK
  <2>4. ASSUME NEW u \in Tokens, Settled(u)'
        PROVE  Covered(u)'
    <3>1. Settled(u) /\ u # t
      BY <1>2, <1>3, <2>1, <2>4 DEF Settled, At
    <3>. QED
      BY <1>2, <2>1, <3>1 DEF FlagInv, Covered, LoginTypeOK
  <2>. QED
    BY <1>4, <2>2, <2>3, <2>4 DEF FlagInv
<1>7. CASE SetOnline(c)
  <2>1. /\ online' = [online EXCEPT ![PlayerOf[c]] = TTL] /\ session' = session
        /\ pc'[c] = "report" /\ session[t] \in Nat
    BY <1>7 DEF SetOnline, RenewedFlag, Goto, LoginTypeOK, FlagInv
  <2>2. PlayerOf[c] \in Players
    BY LoginAssumption
  <2>3. \A d \in Clients : At(d, "login", "set")' => session'[token'[d]] \in Nat
    BY <1>2, <2>1 DEF FlagInv, At
  <2>4. ASSUME NEW u \in Tokens, Settled(u)'
        PROVE  Covered(u)'
    <3>1. session[u] \in Nat /\ session[u] <= TTL
      <4>1. CASE u = t
        BY <2>1, <4>1 DEF FlagInv
      <4>2. CASE u # t
        <5>1. Settled(u)
          BY <1>2, <2>1, <2>4, <4>2 DEF Settled, At
        <5>. QED
          BY <5>1 DEF FlagInv, Covered
      <4>. QED
        BY <4>1, <4>2
    <3>2. CASE owner[u] = PlayerOf[c]
      <4>1. online'[owner'[u]] = TTL
        BY <1>2, <2>1, <2>2, <3>2 DEF LoginTypeOK
      <4>. QED
        BY <2>1, <3>1, <4>1 DEF Covered
    <3>3. CASE owner[u] # PlayerOf[c]
      <4>1. Settled(u)
        BY <1>1, <1>2, <2>1, <2>4, <3>3 DEF Settled, At
      <4>2. online'[owner'[u]] = online[owner[u]]
        BY <1>2, <2>1, <3>3 DEF LoginTypeOK
      <4>. QED
        BY <2>1, <4>1, <4>2 DEF FlagInv, Covered
    <3>. QED
      BY <3>2, <3>3
  <2>. QED
    BY <1>4, <2>1, <2>3, <2>4 DEF FlagInv
<1>. QED
  BY <1>5, <1>6, <1>7

\* The end of a request: what was settled by it stays so only if it was handed out.
LEMMA EndKeepsFlagInv ==
  ASSUME LoginTypeOK, FlagInv, NEW c \in Clients, End(c), UNCHANGED << redis, owner >>,
         given' = given \/ (At(c, "login", "report") /\ given' = given \cup {token[c]})
  PROVE  FlagInv'
<1>1. /\ op'[c] = "idle"
      /\ \A d \in Clients : d # c => /\ op'[d] = op[d] /\ pc'[d] = pc[d]
                                     /\ token'[d] = token[d]
  BY DEF End, LoginTypeOK
<1>2. /\ \A d \in Clients : op'[d] = "login" => token'[d] \notin given'
      /\ \A d, e \in Clients :
           (op'[d] = "login" /\ op'[e] = "login" /\ token'[d] = token'[e]) => d = e
  BY <1>1 DEF FlagInv, At
<1>3. \A d \in Clients : At(d, "login", "set")' => session'[token'[d]] \in Nat
  BY <1>1 DEF FlagInv, At, redis
<1>4. ASSUME NEW u \in Tokens, Settled(u)'
      PROVE  Covered(u)'
  <2>1. Settled(u)
    BY <1>1, <1>4 DEF Settled, At
  <2>. QED
    BY <2>1 DEF FlagInv, Covered, redis
<1>. QED
  BY <1>2, <1>3, <1>4 DEF FlagInv, redis

\* A logout begins with a token handed out, and deletes the flag with the session.
LEMMA LogoutKeepsFlagInv ==
  ASSUME LoginTypeOK, FlagInv, NEW c \in Clients, Logout(c) \/ DeleteSession(c)
  PROVE  FlagInv'
<1>1. CASE Logout(c)
  <2>1. PICK t \in given : Begin(c, "logout", "delete", t) /\ UNCHANGED << redis, owner, given >>
    BY <1>1 DEF Logout
  <2>2. /\ op'[c] = "logout"
        /\ \A d \in Clients : d # c => /\ op'[d] = op[d] /\ pc'[d] = pc[d]
                                       /\ token'[d] = token[d]
    BY <2>1 DEF Begin, LoginTypeOK
  <2>3. /\ \A d \in Clients : op'[d] = "login" => token'[d] \notin given'
        /\ \A d, e \in Clients :
             (op'[d] = "login" /\ op'[e] = "login" /\ token'[d] = token'[e]) => d = e
        /\ \A d \in Clients : At(d, "login", "set")' => session'[token'[d]] \in Nat
    BY <2>1, <2>2 DEF FlagInv, At, redis
  <2>4. ASSUME NEW u \in Tokens, Settled(u)'
        PROVE  Covered(u)'
    <3>1. Settled(u)
      BY <2>1, <2>2, <2>4 DEF Settled, At
    <3>. QED
      BY <2>1, <3>1 DEF FlagInv, Covered, redis
  <2>. QED
    BY <2>1, <2>3, <2>4 DEF FlagInv, redis
<1>2. CASE DeleteSession(c)
  <2>1. /\ op[c] = "logout" /\ token[c] \in Tokens /\ PlayerOf[c] \in Players
        /\ UNCHANGED << op, token, owner, given >>
        /\ session' = [session EXCEPT ![token[c]] = 0]
        /\ online' = [online EXCEPT ![PlayerOf[c]] = LoggedOut]
        /\ \A d \in Clients : d # c => pc'[d] = pc[d]
    BY <1>2, LoginAssumption DEF DeleteSession, Goto, At, LoginTypeOK
  <2>2. \A u \in Tokens : session'[u] = session[u] \/ session'[u] = 0
    BY <2>1 DEF LoginTypeOK
  <2>3. \A u \in Tokens : session'[u] \in Nat => session'[u] <= TTL
    BY <2>2, LoginAssumption DEF FlagInv
  <2>4. \A d \in Clients : At(d, "login", "set")' => session'[token'[d]] \in Nat
    BY <2>1, <2>2 DEF FlagInv, At, LoginTypeOK
  <2>5. ASSUME NEW u \in Tokens, Settled(u)'
        PROVE  Covered(u)'
    <3>1. Covered(u)
      BY <2>1, <2>5 DEF Settled, At, FlagInv
    <3>2. online'[owner[u]] = LoggedOut \/ online'[owner[u]] = online[owner[u]]
      BY <2>1 DEF LoginTypeOK
    <3>3. owner[u] \in Players
      BY <2>1, <2>5, LoginAssumption DEF LoginTypeOK, Settled, At
    <3>4. session'[u] = 0 => session'[u] \in Nat
      OBVIOUS
    <3>5. CASE session'[u] = session[u]
      BY <2>1, <3>1, <3>2, <3>5 DEF Covered
    <3>6. CASE session'[u] = 0
      <4>1. online[owner[u]] \in Nat \cup {LoggedOut}
        BY <3>3 DEF LoginTypeOK
      <4>. QED
        BY <2>1, <3>2, <3>4, <3>6, <4>1 DEF Covered
    <3>. QED
      BY <2>2, <3>5, <3>6
  <2>. QED
    BY <2>1, <2>3, <2>4, <2>5 DEF FlagInv
<1>. QED
  BY <1>1, <1>2

\* Time shortens the session and the flag alike.
LEMMA TickKeepsFlagInv ==
  ASSUME LoginTypeOK, FlagInv, Tick
  PROVE  FlagInv'
<1>1. /\ UNCHANGED << op, pc, token, owner, given >>
      /\ \A u \in Tokens : session'[u] = Sooner(session[u])
      /\ \A p \in Players : online'[p] = Sooner(online[p])
  BY DEF Tick, requests
<1>2. ASSUME NEW u \in Tokens
      PROVE  /\ session'[u] \in Nat => session'[u] <= TTL
             /\ session[u] \in Nat => session'[u] \in Nat
  <2>1. session[u] \in Nat \cup {Forever}
    BY DEF LoginTypeOK
  <2>2. session[u] \in Nat => session[u] <= TTL
    BY DEF FlagInv
  <2>. QED
    BY <1>1, <2>1, <2>2, SoonerType, LoginAssumption
<1>3. \A d \in Clients : At(d, "login", "set")' => session'[token'[d]] \in Nat
  BY <1>1, <1>2 DEF FlagInv, At, LoginTypeOK
<1>4. ASSUME NEW u \in Tokens, Settled(u)'
      PROVE  Covered(u)'
  <2>1. Covered(u)
    BY <1>1, <1>4 DEF Settled, At, FlagInv
  <2>2. owner[u] \in Players
    BY <1>1, <1>4, LoginAssumption DEF LoginTypeOK, Settled, At
  <2>3. session'[u] = Sooner(session[u]) /\ online'[owner[u]] = Sooner(online[owner[u]])
    BY <1>1, <2>2
  <2>4. online[owner[u]] \in Nat \cup {LoggedOut}
    BY <2>2 DEF LoginTypeOK
  <2>5. CASE online[owner[u]] = LoggedOut
    BY <1>1, <2>1, <2>3, <2>5, SoonerType, LoginAssumption DEF Covered
  <2>6. CASE online[owner[u]] # LoggedOut
    <3>1. /\ online[owner[u]] \in Nat /\ session[u] \in Nat
          /\ session[u] <= online[owner[u]]
      BY <2>1, <2>4, <2>6 DEF Covered
    <3>2. Sooner(session[u]) \in Nat /\ Sooner(session[u]) <= Sooner(online[owner[u]])
      BY <3>1 DEF Sooner
    <3>. QED
      BY <1>1, <2>3, <3>2 DEF Covered
  <2>. QED
    BY <2>5, <2>6
<1>5. /\ \A d \in Clients : op'[d] = "login" => token'[d] \notin given'
      /\ \A d, e \in Clients :
           (op'[d] = "login" /\ op'[e] = "login" /\ token'[d] = token'[e]) => d = e
  BY <1>1 DEF FlagInv
<1>. QED
  BY <1>2, <1>3, <1>4, <1>5 DEF FlagInv

\* A session that was handed out lives no longer than its player's online flag, except
\* after a logout of another of the player's sessions (login, logout).
THEOREM FlagCovers == LoginSpec => []OnlineCovers
<1>1. LoginInit => FlagInv
  BY LoginAssumption DEF LoginInit, FlagInv, Settled, At
<1>2. LoginTypeOK /\ FlagInv /\ [LoginNext]_loginVars => FlagInv'
  <2>. SUFFICES ASSUME LoginTypeOK, FlagInv, [LoginNext]_loginVars
                PROVE  FlagInv'
    OBVIOUS
  <2>1. ASSUME NEW c \in Clients, AnswerLogin(c) \/ AnswerLogout(c) \/ Fail(c)
        PROVE  FlagInv'
    BY <2>1, EndKeepsFlagInv DEF AnswerLogin, AnswerLogout, Fail
  <2>2. CASE UNCHANGED loginVars
    BY <2>2 DEF loginVars, redis, requests, FlagInv, Settled, Covered, At
  <2>. QED
    BY <2>1, <2>2, LoginKeepsFlagInv, CommandKeepsFlagInv, LogoutKeepsFlagInv,
       TickKeepsFlagInv DEF LoginNext, LoginStep
<1>3. LoginTypeOK /\ FlagInv => OnlineCovers
  BY DEF FlagInv, LoginTypeOK, OnlineCovers, Settled, Covered
<1>. QED
  BY <1>1, <1>2, <1>3, LoginTypeCorrect, PTL DEF LoginSpec
==============================================================================
