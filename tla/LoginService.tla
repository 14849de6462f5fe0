---------------------------- MODULE LoginService ----------------------------
(***************************************************************************)
(* services/login-service/main.py: sessions and online flags in Redis,     *)
(* with their times to live.                                               *)
(*                                                                         *)
(* As in RoomService, each action is one command of a request, and         *)
(* anything may happen at every await.  A client is one device of a        *)
(* player, or a retry of that device's request; it has one request at a    *)
(* time.  Users and the login history in MySQL, which no request reads     *)
(* back, are left out; a wrong password changes nothing else.              *)
(*                                                                         *)
(* A key is modelled by the time it has left: 0 if there is no such key.   *)
(***************************************************************************)
EXTENDS Integers, FiniteSets

CONSTANTS
  Clients,    \* those who send requests, one at a time each
  Players,
  PlayerOf,   \* the player of each client
  Tokens,     \* the tokens that are ever drawn; random, so each is drawn once
  TTL,        \* the time to live of sessions and flags (3600 s), in ticks
  Forever,    \* of a key without a time to live
  LoggedOut,  \* of an online flag that a logout deleted and no login has set since
  None        \* no token, or the player of a token not yet drawn

ASSUME LoginAssumption ==
  /\ PlayerOf \in [Clients -> Players]
  /\ TTL \in Nat \ {0}
  /\ Forever \notin Nat /\ LoggedOut \notin Nat
  /\ None \notin Players /\ None \notin Tokens

VARIABLES
  session,   \* Redis: the hash session:<token>
  online,    \* Redis: the flag player:online:<id>
  owner,     \* the player whose login drew each token
  given,     \* the tokens that were handed out
  op,        \* the request each client waits for, "idle" if none
  pc,        \* the command it sends next
  token      \* the token it is about

redis    == << session, online >>
requests == << op, pc, token >>
loginVars == << redis, owner, given, requests >>

LoginInit ==
  /\ session = [t \in Tokens |-> 0]
  /\ online = [p \in Players |-> 0]
  /\ owner = [t \in Tokens |-> None]
  /\ given = {}
  /\ op = [c \in Clients |-> "idle"]
  /\ pc = [c \in Clients |-> "start"]
  /\ token = [c \in Clients |-> None]

-----------------------------------------------------------------------------
(* Requests begin, move on and end.                                        *)

Begin(c, o, first, t) ==
  /\ op[c] = "idle"
  /\ op' = [op EXCEPT ![c] = o]
  /\ pc' = [pc EXCEPT ![c] = first]
  /\ token' = [token EXCEPT ![c] = t]

At(c, o, here) == op[c] = o /\ pc[c] = here

Goto(c, there) == pc' = [pc EXCEPT ![c] = there] /\ UNCHANGED << op, token >>

End(c) ==
  /\ op' = [op EXCEPT ![c] = "idle"]
  /\ pc' = [pc EXCEPT ![c] = "start"]
  /\ token' = [token EXCEPT ![c] = None]

-----------------------------------------------------------------------------
(* login.                                                                  *)

Unused == {t \in Tokens : owner[t] = None}

\* The password is right; a token is drawn, any that is unused being as good as any.
Login(c) ==
  /\ Unused # {}
  /\ LET t == CHOOSE t \in Unused : TRUE
     IN  /\ owner' = [owner EXCEPT ![t] = PlayerOf[c]]
         /\ Begin(c, "login", "hset", t)
  /\ UNCHANGED << redis, given >>

SaveSession(c) ==
  /\ At(c, "login", "hset")
  /\ session' = [session EXCEPT ![token[c]] = Forever]
  /\ Goto(c, "expire")
  /\ UNCHANGED << online, owner, given >>

\* A mutation: no EXPIRE after the HSET.
ExpireSessionForgotten(c) ==
  /\ At(c, "login", "expire")
  /\ Goto(c, "set")
  /\ UNCHANGED << redis, owner, given >>

ExpireSession(c) ==
  /\ At(c, "login", "expire")
  /\ session' = [session EXCEPT ![token[c]] = TTL]
  /\ Goto(c, "set")
  /\ UNCHANGED << online, owner, given >>

\* A mutation: SET without EX.
RenewedFlagForever(left) == Forever

\* A mutation: SET with NX, so that a later login does not renew the flag.
RenewedFlagOnce(left) == IF left \in Nat \ {0} THEN left ELSE TTL

RenewedFlag(left) == TTL

SetOnline(c) ==
  /\ At(c, "login", "set")
  /\ online' = [online EXCEPT ![PlayerOf[c]] = RenewedFlag(@)]
  /\ Goto(c, "report")
  /\ UNCHANGED << session, owner, given >>

\* The row in login_records, the event, the answer.
AnswerLogin(c) ==
  /\ At(c, "login", "report")
  /\ given' = given \cup {token[c]}
  /\ End(c)
  /\ UNCHANGED << redis, owner >>

-----------------------------------------------------------------------------
(* logout.                                                                 *)

\* HGETALL: a session that is not there any more is refused.
Logout(c) ==
  \E t \in given :
    /\ owner[t] = PlayerOf[c] /\ session[t] # 0
    /\ Begin(c, "logout", "delete", t)
    /\ UNCHANGED << redis, owner, given >>

\* One DEL of the session and of its player's flag, whatever is there by now.
DeleteSession(c) ==
  /\ At(c, "logout", "delete")
  /\ session' = [session EXCEPT ![token[c]] = 0]
  /\ online' = [online EXCEPT ![PlayerOf[c]] = LoggedOut]
  /\ Goto(c, "report")
  /\ UNCHANGED << owner, given >>

AnswerLogout(c) ==
  /\ At(c, "logout", "report")
  /\ End(c)
  /\ UNCHANGED << redis, owner, given >>

-----------------------------------------------------------------------------
(* Failures and time.                                                      *)

\* Redis, MySQL or Kafka does not answer, or the pod stops: the request is over and
\* what it did so far stays.
Fail(c) ==
  /\ op[c] # "idle"
  /\ End(c)
  /\ UNCHANGED << redis, owner, given >>

Sooner(left) == IF left \in Nat \ {0} THEN left - 1 ELSE left

Tick ==
  /\ session' = [t \in Tokens |-> Sooner(session[t])]
  /\ online' = [p \in Players |-> Sooner(online[p])]
  /\ redis' # redis
  /\ UNCHANGED << owner, given, requests >>

LoginStep(c) ==
  \/ Login(c) \/ SaveSession(c) \/ ExpireSession(c) \/ SetOnline(c) \/ AnswerLogin(c)
  \/ Logout(c) \/ DeleteSession(c) \/ AnswerLogout(c)

LoginNext == Tick \/ \E c \in Clients : LoginStep(c) \/ Fail(c)

LoginSpec == LoginInit /\ [][LoginNext]_loginVars

-----------------------------------------------------------------------------
(* Properties.                                                             *)

\* The type invariant. A flag never lacks a time to live, as a session does for a while; a
\* request's next command is one of its own handler's, and is about a token of its own
\* player; what was handed out was drawn.
LoginTypeOK ==
  /\ session \in [Tokens -> Nat \cup {Forever}]
  /\ online \in [Players -> Nat \cup {LoggedOut}]
  /\ owner \in [Tokens -> Players \cup {None}]
  /\ given \subseteq Tokens
  /\ token \in [Clients -> Tokens \cup {None}]
  /\ op \in [Clients -> {"idle", "login", "logout"}]
  /\ pc \in [Clients -> {"start", "hset", "expire", "set", "delete", "report"}]
  /\ \A c \in Clients :
       /\ << op[c], pc[c] >> \in
            {<< "idle", "start" >>, << "login", "hset" >>, << "login", "expire" >>,
             << "login", "set" >>, << "login", "report" >>, << "logout", "delete" >>,
             << "logout", "report" >>}
       /\ op[c] # "idle" => (token[c] \in Tokens /\ owner[token[c]] = PlayerOf[c])
  /\ \A t \in given : owner[t] # None

Alive(t) == session[t] # 0

\* A handed-out token's session is never worth more than its player's flag: as long as
\* the session lives, the player counts as online, unless one of the player's sessions
\* was logged out and nobody has logged in since. (The flag is set after the session's
\* time to live, by every login again; logout of any session deletes it.)
OnlineCovers ==
  \A t \in given : Alive(t) =>
    \/ online[owner[t]] = LoggedOut
    \/ session[t] \in Nat /\ session[t] <= online[owner[t]]

\* A handed-out token does not work for ever, though the session is written by one
\* command and given its time to live by the next and either may fail (login).
GivenTokensEnd == \A t \in Tokens : t \in given ~> ~Alive(t)
=============================================================================
