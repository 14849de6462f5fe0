----------------------------- MODULE RoomService -----------------------------
(***************************************************************************)
(* services/room-service/main.py: one room, in Redis while it lasts and in *)
(* MySQL for the record, and the requests about it.                        *)
(*                                                                         *)
(* Requests are served concurrently, by the event loop of one replica and  *)
(* by several replicas, so anything may happen at every await: each action *)
(* below is one command sent to Redis, MySQL or Kafka.  A client has one   *)
(* request at a time, for one of the players it speaks for; a player whose *)
(* request was retried (the gateway gives up after five seconds, the       *)
(* service does not) has two clients.                                      *)
(* Room identifiers are random: nobody knows the room before the request   *)
(* that creates it was answered, and a room whose creation failed half-way *)
(* is never known to anybody.                                              *)
(***************************************************************************)
EXTENDS Integers, FiniteSets

CONSTANTS
  Clients,     \* those who send requests, one at a time each
  Players,     \* the player identifiers they send
  PlayersOf,   \* the players each client speaks for
  Creator,     \* the client that asks for the room
  MaxPlayers   \* the room's max_players

ASSUME RoomAssumption ==
  /\ IsFiniteSet(Clients) /\ Creator \in Clients
  /\ PlayersOf \in [Clients -> SUBSET Players]
  /\ \A c \in Clients : PlayersOf[c] # {}
  /\ MaxPlayers \in Nat /\ MaxPlayers >= 2

VARIABLES
  known,     \* was the room's identifier given out?
  room,      \* Redis: the hash room:<id>, "none" before, "gone" after it expired
  players,   \* Redis: the set room:<id>:players
  expires,   \* Redis: does that set have a time to live?
  record,    \* MySQL: each player's row in room_players, left_at or not
  op,        \* the request each client waits for, "idle" if none
  who,       \* the player it is, or was last, about
  pc,        \* the command it sends next
  answer     \* how its last request was answered

vars == << known, room, players, expires, record, op, who, pc, answer >>

redis == << room, players, expires >>

Init ==
  /\ known = FALSE
  /\ room = "none" /\ players = {} /\ expires = FALSE
  /\ record = [p \in Players |-> "none"]
  /\ op = [c \in Clients |-> "idle"]
  /\ who = [c \in Clients |-> CHOOSE p \in PlayersOf[c] : TRUE]
  /\ pc = [c \in Clients |-> "start"]
  /\ answer = [c \in Clients |-> "none"]

-----------------------------------------------------------------------------
(* Requests begin, move on and are answered.                               *)

Begin(c, o, first) ==
  /\ op[c] = "idle"
  /\ op' = [op EXCEPT ![c] = o]
  /\ \E p \in PlayersOf[c] : who' = [who EXCEPT ![c] = p]
  /\ pc' = [pc EXCEPT ![c] = first]
  /\ answer' = [answer EXCEPT ![c] = "none"]

At(c, o, here) == op[c] = o /\ pc[c] = here

Goto(c, there) == pc' = [pc EXCEPT ![c] = there] /\ UNCHANGED << op, who, answer >>

Answer(c, a) ==
  /\ op' = [op EXCEPT ![c] = "idle"]
  /\ pc' = [pc EXCEPT ![c] = "start"]
  /\ answer' = [answer EXCEPT ![c] = a]
  /\ UNCHANGED who

\* A request that is refused by its handler's first look.
Refuse(c) ==
  /\ op[c] = "idle"
  /\ answer' = [answer EXCEPT ![c] = "failed"]
  /\ UNCHANGED << op, who, pc >>

\* SADD: a set that does not exist yet is created, without a time to live.
Add(p) ==
  /\ players' = players \cup {p}
  /\ expires' = (expires /\ players # {})

\* SREM: the last member's removal deletes the set and its time to live.
Remove(p) ==
  /\ players' = players \ {p}
  /\ expires' = (expires /\ players' # {})

-----------------------------------------------------------------------------
(* create_room.                                                            *)

\* The owner must be online; whether so is another service's business.
CheckOwner(c) ==
  /\ c = Creator
  /\ (room = "none" /\ Begin(c, "create", "save")) \/ Refuse(c)
  /\ UNCHANGED << known, redis, record >>

\* One transaction: the hash, the set with the owner in it, a time to live on both.
SaveRoom(c) ==
  /\ At(c, "create", "save")
  /\ room' = "open" /\ players' = {who[c]} /\ expires' = TRUE
  /\ Goto(c, "record")
  /\ UNCHANGED << known, record >>

\* The rows in rooms and in room_players; the first of them alone is not looked at
\* by anything here.
RecordOwner(c) ==
  /\ At(c, "create", "record")
  /\ record' = [record EXCEPT ![who[c]] = "in"]
  /\ Goto(c, "publish")
  /\ UNCHANGED << known, redis >>

-----------------------------------------------------------------------------
(* join_room.                                                              *)

JoinFindRoom(c) ==
  /\ known
  /\ IF room = "open"
     THEN Begin(c, "join", "count")
     ELSE Refuse(c)
  /\ UNCHANGED << known, redis, record >>

\* A mutation: one player too many is let in.
HasSpaceOneMore == Cardinality(players) <= MaxPlayers

HasSpace == Cardinality(players) < MaxPlayers

\* A mutation: whoever finds the room full is told so, and let in all the same.
JoinCheckSpaceNoReturn(c) ==
  /\ At(c, "join", "count")
  /\ pc' = [pc EXCEPT ![c] = "add"]
  /\ answer' = [answer EXCEPT ![c] = IF HasSpace THEN "none" ELSE "failed"]
  /\ UNCHANGED << known, redis, record, op, who >>

\* SCARD, and the refusal of whoever finds the room full.
JoinCheckSpace(c) ==
  /\ At(c, "join", "count")
  /\ IF HasSpace THEN Goto(c, "add") ELSE Answer(c, "failed")
  /\ UNCHANGED << known, redis, record >>

JoinAdd(c) ==
  /\ At(c, "join", "add")
  /\ Add(who[c])
  /\ Goto(c, "record")
  /\ UNCHANGED << known, room, record >>

\* A mutation: a row that exists keeps its left_at.
RejoinedKeepsLeftAt(old) == IF old = "none" THEN "in" ELSE old

\* INSERT ... ON DUPLICATE KEY UPDATE left_at=NULL, whatever the row was before.
Rejoined(old) == "in"

JoinRecord(c) ==
  /\ At(c, "join", "record")
  /\ record' = [record EXCEPT ![who[c]] = Rejoined(@)]
  /\ Goto(c, "publish")
  /\ UNCHANGED << known, redis >>

-----------------------------------------------------------------------------
(* leave_room.                                                             *)

LeaveFindRoom(c) ==
  /\ known
  /\ IF room = "open"
     THEN Begin(c, "leave", "remove")
     ELSE Refuse(c)
  /\ UNCHANGED << known, redis, record >>

LeaveRemove(c) ==
  /\ At(c, "leave", "remove")
  /\ Remove(who[c])
  /\ Goto(c, "record")
  /\ UNCHANGED << known, room, record >>

\* UPDATE ... SET left_at: nothing where there is no row.
LeaveRecord(c) ==
  /\ At(c, "leave", "record")
  /\ record' = [record EXCEPT ![who[c]] = IF @ = "none" THEN "none" ELSE "out"]
  /\ Goto(c, "publish")
  /\ UNCHANGED << known, redis >>

-----------------------------------------------------------------------------
(* All three end with an event and the answer, create_room's being the     *)
(* room's identifier; failures; time.                                      *)

Publish(c) ==
  /\ op[c] # "idle" /\ pc[c] = "publish"
  /\ Answer(c, "ok")
  /\ known' = (known \/ op[c] = "create")
  /\ UNCHANGED << redis, record >>

\* Redis, MySQL or Kafka does not answer, or the pod stops: the request is over and
\* what it did so far stays.
Fail(c) ==
  /\ op[c] # "idle"
  /\ Answer(c, "failed")
  /\ UNCHANGED << known, redis, record >>

\* Two hours after its creation the room expires, and so does its set of players
\* if it has kept its time to live.
ExpireRoom ==
  /\ room = "open"
  /\ room' = "gone"
  /\ players' = IF expires THEN {} ELSE players
  /\ expires' = FALSE
  /\ UNCHANGED << known, record, op, who, pc, answer >>

Create(c) == CheckOwner(c) \/ SaveRoom(c) \/ RecordOwner(c)
Join(c)   == JoinFindRoom(c) \/ JoinCheckSpace(c) \/ JoinAdd(c) \/ JoinRecord(c)
Leave(c)  == LeaveFindRoom(c) \/ LeaveRemove(c) \/ LeaveRecord(c)

Next ==
  \/ \E c \in Clients : Create(c) \/ Join(c) \/ Leave(c) \/ Publish(c) \/ Fail(c)
  \/ ExpireRoom

Spec == Init /\ [][Next]_vars

-----------------------------------------------------------------------------
(* Properties.                                                             *)

\* What a request may be about to do.
Commands ==
  {<< "idle", "start" >>,
   << "create", "save" >>, << "create", "record" >>, << "create", "publish" >>,
   << "join", "count" >>, << "join", "add" >>, << "join", "record" >>, << "join", "publish" >>,
   << "leave", "remove" >>, << "leave", "record" >>, << "leave", "publish" >>}

RequestsOK ==
  /\ op \in [Clients -> {"idle", "create", "join", "leave"}]
  /\ who \in [Clients -> Players]
  /\ pc \in [Clients -> {"start", "save", "count", "add", "remove", "record", "publish"}]
  /\ \A c \in Clients : << op[c], pc[c] >> \in Commands
  /\ answer \in [Clients -> {"none", "ok", "failed"}]
  /\ \A c \in Clients : op[c] # "idle" => answer[c] = "none"

\* The type invariant. A request's next command is one of its own handler's, and one
\* that was answered sends no more of them; only a room that was saved is known.
TypeOK ==
  /\ known \in BOOLEAN
  /\ room \in {"none", "open", "gone"}
  /\ players \subseteq Players /\ IsFiniteSet(players)
  /\ expires \in BOOLEAN
  /\ record \in [Players -> {"none", "in", "out"}]
  /\ RequestsOK

\* SCARD and SADD are two commands, so a room can be overfull, but only by as many
\* players as there can be requests between the two: whoever counts after that finds
\* the room full, however long it goes on (join_room).
OverfullBound == Cardinality(players) <= MaxPlayers + Cardinality(Clients) - 1

\* Redis and MySQL are written one after the other, without a transaction across
\* them and with failures in between. Still, where every player has one request at a
\* time, an answered success means that both agree on that player, also after a leave
\* and a second join and after a retry of what had failed half-way.
RecordsAgree ==
  \A c \in Clients :
    (room = "open" /\ answer[c] = "ok" /\ \A d \in Clients \ {c} : who[c] \notin PlayersOf[d])
      => (who[c] \in players <=> record[who[c]] = "in")
=============================================================================
