-------------------------- MODULE RoomRecordsProof --------------------------
(***************************************************************************)
(* Why Redis and MySQL agree on a player whose request was answered with   *)
(* success (RoomService!RecordsAgree), for any number of clients and       *)
(* players and wherever requests fail.                                     *)
(*                                                                         *)
(* A request about a player whom no other client speaks for is alone in    *)
(* changing what the two stores hold of that player.  So each of its       *)
(* commands finds what the one before left, whatever earlier attempts did. *)
(***************************************************************************)
EXTENDS RoomServiceProof

Alone(c) == \A d \in Clients \ {c} : who[c] \notin PlayersOf[d]

\* What the stores hold of a request's player, once it has come so far.
SoFar(c) ==
  /\ At(c, "create", "record") \/ At(c, "join", "record") => who[c] \in players
  /\ At(c, "create", "publish") \/ At(c, "join", "publish")
       => who[c] \in players /\ record[who[c]] = "in"
  /\ At(c, "leave", "record") => who[c] \notin players
  /\ At(c, "leave", "publish") => who[c] \notin players /\ record[who[c]] # "in"
  /\ answer[c] = "ok" => (who[c] \in players <=> record[who[c]] = "in")

\* The room is made once, by its creator, before anybody else knows of it.
Orderly(c) ==
  /\ who[c] \in PlayersOf[c]
  /\ op[c] = "create" => c = Creator
  /\ At(c, "create", "save") => room = "none"
  /\ op[c] = "create" /\ pc[c] # "save" => room # "none"
  /\ op[c] \in {"join", "leave"} => known
  /\ answer[c] = "ok" => op[c] = "idle" /\ known

Agreeing ==
  /\ known => room # "none"
  /\ \A c \in Clients : Orderly(c)
  /\ room = "open" => \A c \in Clients : Alone(c) => SoFar(c)

-----------------------------------------------------------------------------
(* What a client's step leaves to the others.                              *)

\* The others' requests stay where they are.
Apart(c) ==
  \A d \in Clients \ {c} : /\ op'[d] = op[d] /\ pc'[d] = pc[d]
                           /\ who'[d] = who[d] /\ answer'[d] = answer[d]

\* Nothing changes but what is about the request's player.
OnlyWho(c) ==
  \A p \in Players \ {who[c]} : (p \in players' <=> p \in players) /\ record'[p] = record[p]

LEMMA Stays ==
  ASSUME TypeOK, NEW c \in Clients
  PROVE  /\ \A h : Goto(c, h) => /\ Apart(c) /\ op'[c] = op[c] /\ pc'[c] = h
                                 /\ who'[c] = who[c] /\ answer'[c] = answer[c]
         /\ \A a : Answer(c, a) => /\ Apart(c) /\ op'[c] = "idle" /\ pc'[c] = "start"
                                   /\ who'[c] = who[c] /\ answer'[c] = a
         /\ \A o, h : Begin(c, o, h) => /\ Apart(c) /\ op'[c] = o /\ pc'[c] = h
                                        /\ who'[c] \in PlayersOf[c] /\ answer'[c] = "none"
         /\ Refuse(c) => /\ Apart(c) /\ op'[c] = "idle" /\ pc'[c] = pc[c]
                         /\ who'[c] = who[c] /\ answer'[c] = "failed"
<1>1. \A h : Goto(c, h) => /\ Apart(c) /\ op'[c] = op[c] /\ pc'[c] = h
                           /\ who'[c] = who[c] /\ answer'[c] = answer[c]
  BY DEF TypeOK, RequestsOK, Goto, Apart
<1>2. \A a : Answer(c, a) => /\ Apart(c) /\ op'[c] = "idle" /\ pc'[c] = "start"
                             /\ who'[c] = who[c] /\ answer'[c] = a
  BY DEF TypeOK, RequestsOK, Answer, Apart
<1>3. \A o, h : Begin(c, o, h) => /\ Apart(c) /\ op'[c] = o /\ pc'[c] = h
                                  /\ who'[c] \in PlayersOf[c] /\ answer'[c] = "none"
  <2> SUFFICES ASSUME NEW o, NEW h, Begin(c, o, h)
               PROVE  /\ Apart(c) /\ op'[c] = o /\ pc'[c] = h
                      /\ who'[c] \in PlayersOf[c] /\ answer'[c] = "none"
    OBVIOUS
  <2>1. PICK p \in PlayersOf[c] : who' = [who EXCEPT ![c] = p]
    BY DEF Begin
  <2> QED
    BY <2>1 DEF TypeOK, RequestsOK, Begin, Apart
<1>4. Refuse(c) => /\ Apart(c) /\ op'[c] = "idle" /\ pc'[c] = pc[c]
                   /\ who'[c] = who[c] /\ answer'[c] = "failed"
  BY DEF TypeOK, RequestsOK, Refuse, Apart
<1> QED
  BY <1>1, <1>2, <1>3, <1>4

\* So it is enough to look at the client whose step it is.
LEMMA OwnStep ==
  ASSUME TypeOK, Agreeing, NEW c \in Clients, Apart(c), OnlyWho(c), room' = room,
         known => known', known' => room # "none",
         Orderly(c)', room = "open" /\ Alone(c)' => SoFar(c)'
  PROVE  Agreeing'
<1>1. ASSUME NEW d \in Clients \ {c} PROVE Orderly(d)'
  BY <1>1 DEF Agreeing, Orderly, Apart, At
<1>2. ASSUME NEW d \in Clients \ {c}, room = "open", Alone(d)' PROVE SoFar(d)'
  <2>1. who'[d] = who[d] /\ who[d] \in Players
    BY <1>2 DEF Apart, TypeOK, RequestsOK
  <2>2. Alone(d)
    <3> SUFFICES ASSUME NEW e \in Clients \ {d} PROVE who[d] \notin PlayersOf[e]
      BY DEF Alone
    <3> QED
      BY <1>2, <2>1 DEF Alone
  <2>3. who[d] # who[c]
    BY <2>2 DEF Alone, Agreeing, Orderly
  <2>4. (who[d] \in players' <=> who[d] \in players) /\ record'[who[d]] = record[who[d]]
    BY <2>1, <2>3 DEF OnlyWho
  <2>5. SoFar(d)
    BY <1>2, <2>2 DEF Agreeing
  <2> QED
    BY <2>1, <2>4, <2>5 DEF SoFar, Apart, At
<1> QED
  BY <1>1, <1>2 DEF Agreeing

-----------------------------------------------------------------------------
(* The steps.                                                              *)

LEMMA CreateAgrees ==
  ASSUME TypeOK, Agreeing, NEW c \in Clients, Create(c)
  PROVE  Agreeing'
<1>1. CASE CheckOwner(c)
  <2>1. UNCHANGED << known, room, players, record >> /\ c = Creator
    BY <1>1 DEF CheckOwner, redis
  <2>2. CASE room = "none" /\ Begin(c, "create", "save")
    <3>1. Orderly(c)' /\ SoFar(c)'
      BY <2>1, <2>2, Stays DEF Orderly, SoFar, At
    <3> QED
      BY <2>1, <2>2, <3>1, Stays, OwnStep DEF OnlyWho, Agreeing
  <2>3. CASE Refuse(c)
    <3>1. Orderly(c)' /\ SoFar(c)'
      BY <2>1, <2>3, Stays DEF Orderly, SoFar, At, Agreeing
    <3> QED
      BY <2>1, <2>3, <3>1, Stays, OwnStep DEF OnlyWho, Agreeing
  <2> QED
    BY <1>1, <2>2, <2>3 DEF CheckOwner
<1>2. CASE SaveRoom(c)
  <2>1. /\ Apart(c) /\ op'[c] = "create" /\ pc'[c] = "record" /\ answer'[c] = answer[c]
        /\ who'[c] = who[c] /\ known' = known /\ room' = "open" /\ players' = {who[c]}
    BY <1>2, Stays DEF SaveRoom, At
  <2>2. c = Creator /\ ~known /\ answer[c] # "ok"
    BY <1>2 DEF SaveRoom, Agreeing, Orderly, At
  <2>3. Orderly(c)' /\ SoFar(c)'
    BY <2>1, <2>2 DEF Agreeing, Orderly, SoFar, At
  <2>4. ASSUME NEW d \in Clients \ {c} PROVE Orderly(d)' /\ SoFar(d)'
    <3>1. op[d] \notin {"create", "join", "leave"} /\ answer[d] # "ok" /\ who[d] \in PlayersOf[d]
      BY <2>2 DEF Agreeing, Orderly
    <3> QED
      BY <2>1, <3>1 DEF Apart, Orderly, SoFar, At
  <2> QED
    BY <2>1, <2>3, <2>4 DEF Agreeing
<1>3. CASE RecordOwner(c)
  <2>1. /\ Apart(c) /\ op'[c] = "create" /\ pc'[c] = "publish" /\ answer'[c] = answer[c]
        /\ who'[c] = who[c] /\ UNCHANGED << known, room, players >>
        /\ record' = [record EXCEPT ![who[c]] = "in"] /\ At(c, "create", "record")
    BY <1>3, Stays DEF RecordOwner, At, redis
  <2>2. who[c] \in Players /\ OnlyWho(c) /\ record'[who[c]] = "in"
    BY <2>1 DEF TypeOK, RequestsOK, OnlyWho
  <2>3. Orderly(c)'
    BY <2>1 DEF Agreeing, Orderly, At
  <2>4. room = "open" /\ Alone(c)' => SoFar(c)'
    <3> SUFFICES ASSUME room = "open", Alone(c)' PROVE SoFar(c)'
      OBVIOUS
    <3>1. Alone(c)
      BY <2>1 DEF Alone
    <3>2. who[c] \in players
      BY <2>1, <3>1 DEF Agreeing, SoFar
    <3> QED
      BY <2>1, <2>2, <3>2 DEF SoFar, At, Agreeing, Orderly
  <2> QED
    BY <2>1, <2>2, <2>3, <2>4, OwnStep DEF Agreeing
<1> QED
  BY <1>1, <1>2, <1>3 DEF Create

\* The first look of a join or a leave, and SCARD: the stores are as they were.
LEMMA LookAgrees ==
  ASSUME TypeOK, Agreeing, NEW c \in Clients,
         JoinFindRoom(c) \/ LeaveFindRoom(c) \/ JoinCheckSpace(c) \/ Fail(c)
  PROVE  Agreeing'
<1>1. UNCHANGED << known, room, players, record >>
  BY DEF JoinFindRoom, LeaveFindRoom, JoinCheckSpace, Fail, redis
<1>2. /\ Apart(c) /\ who'[c] \in PlayersOf[c] /\ answer'[c] # "ok"
      /\ op'[c] \in {"idle", "join", "leave"} /\ (op'[c] # "idle" => known)
      /\ op'[c] # "idle" => pc'[c] \in {"count", "add", "remove"}
  BY Stays DEF JoinFindRoom, LeaveFindRoom, JoinCheckSpace, Fail, Agreeing, Orderly, At
<1>3. Orderly(c)'
  BY <1>1, <1>2 DEF Orderly, At
<1>4. SoFar(c)'
  BY <1>2 DEF SoFar, At
<1> QED
  BY <1>1, <1>2, <1>3, <1>4, OwnStep DEF OnlyWho, Agreeing

\* SADD or SREM, and the row: what the request's player is in the stores.
LEMMA WriteAgrees ==
  ASSUME TypeOK, Agreeing, NEW c \in Clients,
         JoinAdd(c) \/ JoinRecord(c) \/ LeaveRemove(c) \/ LeaveRecord(c)
  PROVE  Agreeing'
<1>1. /\ UNCHANGED << known, room >> /\ Apart(c)
      /\ op'[c] = op[c] /\ op[c] \in {"join", "leave"} /\ who'[c] = who[c] /\ answer'[c] = answer[c]
      /\ pc'[c] \in {"record", "publish"}
  BY Stays DEF JoinAdd, JoinRecord, LeaveRemove, LeaveRecord, redis, At
<1>2. who[c] \in Players
  BY DEF TypeOK, RequestsOK
<1>3. OnlyWho(c)
  BY <1>2 DEF JoinAdd, JoinRecord, LeaveRemove, LeaveRecord, redis, OnlyWho, Add, Remove, TypeOK
<1>4. Orderly(c)'
  BY <1>1 DEF Agreeing, Orderly, At
<1>5. answer[c] # "ok"
  BY <1>1 DEF Agreeing, Orderly
<1>6. ASSUME room = "open", Alone(c)' PROVE SoFar(c)'
  <2>1. SoFar(c)
    BY <1>1, <1>6 DEF Alone, Agreeing
  <2>2. CASE JoinAdd(c)
    <3>1. op[c] = "join" /\ pc'[c] = "record" /\ who[c] \in players'
      BY <2>2, Stays DEF JoinAdd, At, Add
    <3> QED
      BY <1>1, <1>5, <3>1 DEF SoFar, At
  <2>3. CASE JoinRecord(c)
    <3>1. /\ op[c] = "join" /\ pc[c] = "record" /\ pc'[c] = "publish" /\ players' = players
          /\ record'[who[c]] = "in"
      BY <1>2, <2>3, Stays DEF JoinRecord, At, redis, Rejoined, TypeOK
    <3> QED
      BY <1>1, <1>5, <2>1, <3>1 DEF SoFar, At
  <2>4. CASE LeaveRemove(c)
    <3>1. op[c] = "leave" /\ pc'[c] = "record" /\ who[c] \notin players'
      BY <2>4, Stays DEF LeaveRemove, At, Remove
    <3> QED
      BY <1>1, <1>5, <3>1 DEF SoFar, At
  <2>5. CASE LeaveRecord(c)
    <3>1. /\ op[c] = "leave" /\ pc[c] = "record" /\ pc'[c] = "publish" /\ players' = players
          /\ record'[who[c]] # "in"
      BY <1>2, <2>5, Stays DEF LeaveRecord, At, redis, TypeOK
    <3> QED
      BY <1>1, <1>5, <2>1, <3>1 DEF SoFar, At
  <2> QED
    BY <2>2, <2>3, <2>4, <2>5
<1> QED
  BY <1>1, <1>3, <1>4, <1>6, OwnStep DEF Agreeing

LEMMA PublishAgrees ==
  ASSUME TypeOK, Agreeing, NEW c \in Clients, Publish(c)
  PROVE  Agreeing'
<1>1. /\ Apart(c) /\ op'[c] = "idle" /\ pc'[c] = "start" /\ who'[c] = who[c] /\ answer'[c] = "ok"
      /\ UNCHANGED << room, players, record >> /\ known' = (known \/ op[c] = "create")
  BY Stays DEF Publish, redis
<1>2. op[c] \in {"create", "join", "leave"} /\ pc[c] = "publish"
  BY DEF Publish, TypeOK, RequestsOK
<1>3. known' /\ room # "none"
  BY <1>1, <1>2 DEF Agreeing, Orderly
<1>4. Orderly(c)'
  BY <1>1, <1>3 DEF Agreeing, Orderly, At
<1>5. ASSUME room = "open", Alone(c)' PROVE SoFar(c)'
  <2>1. SoFar(c)
    BY <1>1, <1>5 DEF Alone, Agreeing
  <2> QED
    BY <1>1, <1>2, <2>1 DEF SoFar, At
<1> QED
  BY <1>1, <1>3, <1>4, <1>5, OwnStep DEF OnlyWho

LEMMA AgreeStep ==
  ASSUME TypeOK, Agreeing, [Next]_vars
  PROVE  Agreeing'
<1>1. CASE ExpireRoom
  BY <1>1 DEF ExpireRoom, Agreeing, Orderly, At
<1>2. CASE UNCHANGED vars
  BY <1>2 DEF vars, Agreeing, Orderly, SoFar, Alone, At
<1> QED
  BY <1>1, <1>2, CreateAgrees, LookAgrees, WriteAgrees, PublishAgrees DEF Next, Join, Leave

\* RecordsAgree is an invariant: with players that have one request at a time, Redis
\* and MySQL agree on whoever was answered with success, however many clients there
\* are and whatever failed before (create_room, join_room, leave_room).
THEOREM RecordsAgreeing == Spec => []RecordsAgree
<1>1. Init => TypeOK
  BY InitType
<1>2. Init => Agreeing
  BY RoomAssumption DEF Init, Agreeing, Orderly, SoFar, At
<1>3. TypeOK /\ Agreeing /\ [Next]_vars => TypeOK' /\ Agreeing'
  BY StepType, AgreeStep
<1>4. Agreeing => RecordsAgree
  BY DEF Agreeing, RecordsAgree, Alone, SoFar
<1> QED
  BY <1>1, <1>2, <1>3, <1>4, PTL DEF Spec
=============================================================================
