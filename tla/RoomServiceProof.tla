-------------------------- MODULE RoomServiceProof --------------------------
(***************************************************************************)
(* What holds of RoomService for any number of clients and any room size:  *)
(* its types, and how far over its limit a room can get.                   *)
(***************************************************************************)
EXTENDS RoomService, FiniteSetTheorems, TLAPS

-----------------------------------------------------------------------------
(* Requests stay well formed as they begin, move on and are answered.      *)

LEMMA RequestType ==
  ASSUME RequestsOK, NEW c \in Clients, NEW o, NEW h, << o, h >> \in Commands,
         op' = [op EXCEPT ![c] = o], pc' = [pc EXCEPT ![c] = h],
         answer' \in [Clients -> {"none", "ok", "failed"}], who' \in [Clients -> Players],
         \A d \in Clients : op'[d] # "idle" => answer'[d] = "none"
  PROVE  RequestsOK'
<1>1. /\ o \in {"idle", "create", "join", "leave"}
      /\ h \in {"start", "save", "count", "add", "remove", "record", "publish"}
  BY DEF Commands
<1>2. \A d \in Clients : /\ op'[d] = IF d = c THEN o ELSE op[d]
                         /\ pc'[d] = IF d = c THEN h ELSE pc[d]
  BY DEF RequestsOK
<1>3. \A d \in Clients : << op'[d], pc'[d] >> \in Commands
  BY <1>2 DEF RequestsOK
<1> QED
  BY <1>1, <1>3 DEF RequestsOK

\* A request that goes on to a command of the same handler (Goto).
LEMMA GotoType ==
  ASSUME RequestsOK, NEW c \in Clients, NEW h, << op[c], h >> \in Commands, Goto(c, h)
  PROVE  RequestsOK'
<1>1. op' = [op EXCEPT ![c] = op[c]] /\ pc' = [pc EXCEPT ![c] = h] /\ answer' = answer /\ who' = who
  BY DEF Goto, RequestsOK
<1> QED
  BY <1>1, RequestType DEF RequestsOK

\* A request that is over (Answer).
LEMMA AnswerType ==
  ASSUME RequestsOK, NEW c \in Clients, NEW a \in {"ok", "failed"}, Answer(c, a)
  PROVE  RequestsOK'
<1>1. << "idle", "start" >> \in Commands
  BY DEF Commands
<1>2. answer' \in [Clients -> {"none", "ok", "failed"}] /\ who' = who
  BY DEF Answer, RequestsOK
<1> QED
  BY <1>1, <1>2, RequestType DEF Answer, RequestsOK

\* A request that arrives (Begin), and one that is refused at once (Refuse).
LEMMA BeginType ==
  ASSUME RequestsOK, NEW c \in Clients, NEW o, NEW h, << o, h >> \in Commands,
         Begin(c, o, h) \/ Refuse(c)
  PROVE  RequestsOK'
<1>1. answer' \in [Clients -> {"none", "ok", "failed"}]
  BY DEF Begin, Refuse, RequestsOK
<1>2. CASE Begin(c, o, h)
  <2>1. who' \in [Clients -> Players]
    <3>1. PICK p \in PlayersOf[c] : who' = [who EXCEPT ![c] = p]
      BY <1>2 DEF Begin
    <3>2. PlayersOf[c] \in SUBSET Players
      BY RoomAssumption
    <3> QED
      BY <3>1, <3>2 DEF RequestsOK
  <2>2. \A d \in Clients : op'[d] # "idle" => answer'[d] = "none"
    BY <1>2 DEF Begin, RequestsOK
  <2> QED
    BY <1>1, <1>2, <2>1, <2>2, RequestType DEF Begin
<1>3. CASE Refuse(c)
  BY <1>1, <1>3 DEF Refuse, RequestsOK
<1> QED
  BY <1>2, <1>3

-----------------------------------------------------------------------------
(* The type invariant.                                                     *)

LEMMA InitType == Init => TypeOK
<1> SUFFICES ASSUME Init PROVE TypeOK
  OBVIOUS
<1>1. IsFiniteSet(players)
  BY FS_EmptySet DEF Init
<1>2. who \in [Clients -> Players]
  BY RoomAssumption DEF Init
<1>3. RequestsOK
  BY <1>2 DEF Init, RequestsOK, Commands
<1> QED
  BY <1>1, <1>3 DEF Init, TypeOK

\* create_room's commands: it is the only handler that makes the room.
LEMMA CreateType ==
  ASSUME TypeOK, NEW c \in Clients, Create(c)
  PROVE  TypeOK'
<1> USE DEF TypeOK
<1>1. CASE CheckOwner(c)
  <2>1. << "create", "save" >> \in Commands
    BY DEF Commands
  <2>2. RequestsOK'
    BY <1>1, <2>1, BeginType DEF CheckOwner
  <2> QED
    BY <1>1, <2>2 DEF CheckOwner, redis
<1>2. CASE SaveRoom(c)
  <2>1. << op[c], "record" >> \in Commands
    BY <1>2 DEF SaveRoom, At, Commands
  <2>2. RequestsOK'
    BY <1>2, <2>1, GotoType DEF SaveRoom
  <2>3. players' \subseteq Players /\ IsFiniteSet(players')
    <3>1. players' = {who[c]} /\ who[c] \in Players
      BY <1>2 DEF SaveRoom, RequestsOK
    <3> QED
      BY <3>1, FS_Singleton
  <2> QED
    BY <1>2, <2>2, <2>3 DEF SaveRoom
<1>3. CASE RecordOwner(c)
  <2>1. << op[c], "publish" >> \in Commands
    BY <1>3 DEF RecordOwner, At, Commands
  <2>2. RequestsOK'
    BY <1>3, <2>1, GotoType DEF RecordOwner
  <2>3. record' \in [Players -> {"none", "in", "out"}]
    BY <1>3 DEF RecordOwner
  <2> QED
    BY <1>3, <2>2, <2>3 DEF RecordOwner, redis
<1> QED
  BY <1>1, <1>2, <1>3 DEF Create

\* join_room's commands.
LEMMA JoinType ==
  ASSUME TypeOK, NEW c \in Clients, Join(c)
  PROVE  TypeOK'
<1> USE DEF TypeOK
<1>1. CASE JoinFindRoom(c)
  <2>1. << "join", "count" >> \in Commands
    BY DEF Commands
  <2>2. RequestsOK'
    BY <1>1, <2>1, BeginType DEF JoinFindRoom
  <2> QED
    BY <1>1, <2>2 DEF JoinFindRoom, redis
<1>2. CASE JoinCheckSpace(c)
  <2>1. << op[c], "add" >> \in Commands
    BY <1>2 DEF JoinCheckSpace, At, Commands
  <2>2. RequestsOK'
    BY <1>2, <2>1, GotoType, AnswerType DEF JoinCheckSpace
  <2> QED
    BY <1>2, <2>2 DEF JoinCheckSpace, redis
<1>3. CASE JoinAdd(c)
  <2>1. << op[c], "record" >> \in Commands
    BY <1>3 DEF JoinAdd, At, Commands
  <2>2. RequestsOK'
    BY <1>3, <2>1, GotoType DEF JoinAdd
  <2>3. players' \subseteq Players /\ IsFiniteSet(players') /\ expires' \in BOOLEAN
    BY <1>3, FS_AddElement DEF JoinAdd, Add, RequestsOK
  <2> QED
    BY <1>3, <2>2, <2>3 DEF JoinAdd
<1>4. CASE JoinRecord(c)
  <2>1. << op[c], "publish" >> \in Commands
    BY <1>4 DEF JoinRecord, At, Commands
  <2>2. RequestsOK'
    BY <1>4, <2>1, GotoType DEF JoinRecord
  <2>3. record' \in [Players -> {"none", "in", "out"}]
    BY <1>4 DEF JoinRecord, Rejoined
  <2> QED
    BY <1>4, <2>2, <2>3 DEF JoinRecord, redis
<1> QED
  BY <1>1, <1>2, <1>3, <1>4 DEF Join

\* leave_room's commands.
LEMMA LeaveType ==
  ASSUME TypeOK, NEW c \in Clients, Leave(c)
  PROVE  TypeOK'
<1> USE DEF TypeOK
<1>1. CASE LeaveFindRoom(c)
  <2>1. << "leave", "remove" >> \in Commands
    BY DEF Commands
  <2>2. RequestsOK'
    BY <1>1, <2>1, BeginType DEF LeaveFindRoom
  <2> QED
    BY <1>1, <2>2 DEF LeaveFindRoom, redis
<1>2. CASE LeaveRemove(c)
  <2>1. << op[c], "record" >> \in Commands
    BY <1>2 DEF LeaveRemove, At, Commands
  <2>2. RequestsOK'
    BY <1>2, <2>1, GotoType DEF LeaveRemove
  <2>3. players' \subseteq Players /\ IsFiniteSet(players') /\ expires' \in BOOLEAN
    BY <1>2, FS_RemoveElement DEF LeaveRemove, Remove
  <2> QED
    BY <1>2, <2>2, <2>3 DEF LeaveRemove
<1>3. CASE LeaveRecord(c)
  <2>1. << op[c], "publish" >> \in Commands
    BY <1>3 DEF LeaveRecord, At, Commands
  <2>2. RequestsOK'
    BY <1>3, <2>1, GotoType DEF LeaveRecord
  <2>3. record' \in [Players -> {"none", "in", "out"}]
    BY <1>3 DEF LeaveRecord
  <2> QED
    BY <1>3, <2>2, <2>3 DEF LeaveRecord, redis
<1> QED
  BY <1>1, <1>2, <1>3 DEF Leave

\* What a step of each kind does to the types.
LEMMA StepType == TypeOK /\ [Next]_vars => TypeOK'
<1> SUFFICES ASSUME TypeOK, [Next]_vars PROVE TypeOK'
  OBVIOUS
<1>1. CASE \E c \in Clients : Create(c) \/ Join(c) \/ Leave(c)
  BY <1>1, CreateType, JoinType, LeaveType
<1>2. ASSUME NEW c \in Clients, Publish(c) \/ Fail(c) PROVE TypeOK'
  <2>1. RequestsOK'
    BY <1>2, AnswerType DEF Publish, Fail, TypeOK
  <2> QED
    BY <1>2, <2>1 DEF Publish, Fail, TypeOK, redis
<1>3. CASE ExpireRoom
  <2>1. IsFiniteSet(players') /\ players' \subseteq Players
    BY <1>3, FS_EmptySet DEF ExpireRoom, TypeOK
  <2>2. RequestsOK'
    BY <1>3 DEF ExpireRoom, TypeOK, RequestsOK
  <2> QED
    BY <1>3, <2>1, <2>2 DEF ExpireRoom, TypeOK
<1>4. CASE UNCHANGED vars
  BY <1>4 DEF vars, TypeOK, RequestsOK
<1> QED
  BY <1>1, <1>2, <1>3, <1>4 DEF Next

\* TypeOK is an invariant: every request stays within its handler, however many
\* there are and wherever they fail.
THEOREM TypeCorrect == Spec => []TypeOK
<1>1. Init => TypeOK
  BY InitType
<1>2. TypeOK /\ [Next]_vars => TypeOK'
  BY StepType
<1> QED
  BY <1>1, <1>2, PTL DEF Spec

-----------------------------------------------------------------------------
(* How overfull a room can be.  OverfullBound alone is not inductive: a    *)
(* join between SCARD and SADD may add a player however full the room has  *)
(* become.  Bounded counts these joins as if they had added theirs.        *)

Adding == {c \in Clients : At(c, "join", "add")}

Bounded ==
  Cardinality(players) + Cardinality(Adding) <= MaxPlayers - 1 + Cardinality(Clients)

IInv == TypeOK /\ Bounded

\* The counts involved are natural numbers.
LEMMA Counts ==
  ASSUME TypeOK
  PROVE  /\ Cardinality(players) \in Nat
         /\ IsFiniteSet(Adding) /\ Cardinality(Adding) \in Nat
         /\ Cardinality(Clients) \in Nat
         /\ Cardinality(Adding) <= Cardinality(Clients)
<1>1. Adding \in SUBSET Clients
  BY DEF Adding
<1> QED
  BY <1>1, FS_Subset, FS_CardinalityType, RoomAssumption DEF TypeOK

\* A step that lets no client be about to add and adds no player keeps the bound.
LEMMA FewerAdding ==
  ASSUME TypeOK, TypeOK', Bounded, Adding' \subseteq Adding,
         Cardinality(players') <= Cardinality(players)
  PROVE  Bounded'
<1>1. Cardinality(Adding') <= Cardinality(Adding)
  BY Counts, FS_Subset
<1>2. /\ Cardinality(players') \in Nat
      /\ Cardinality(Adding') \in Nat
  BY FS_CardinalityType, FS_Subset, Counts DEF TypeOK
<1> QED
  BY <1>1, <1>2, Counts, RoomAssumption DEF Bounded

\* Neither beginning nor answering a request, nor any command but join_room's count,
\* makes a client be about to add.
LEMMA NobodyAdds ==
  ASSUME TypeOK, NEW c \in Clients,
         \/ \E o, h : h # "add" /\ Begin(c, o, h)
         \/ Refuse(c)
         \/ \E h : h # "add" /\ Goto(c, h)
         \/ \E a : Answer(c, a)
  PROVE  Adding' \subseteq Adding
<1>1. \A d \in Clients \ {c} : op'[d] = op[d] /\ pc'[d] = pc[d]
  BY DEF Begin, Refuse, Goto, Answer, TypeOK, RequestsOK
<1>2. \/ pc'[c] # "add"
      \/ op'[c] = op[c] /\ pc'[c] = pc[c]
  BY DEF Begin, Refuse, Goto, Answer, TypeOK, RequestsOK
<1> QED
  BY <1>1, <1>2 DEF Adding, At

\* One step keeps the bound.
LEMMA BoundedStep ==
  ASSUME TypeOK, TypeOK', Bounded, [Next]_vars
  PROVE  Bounded'
<1>1. ASSUME NEW c \in Clients, CheckOwner(c) \/ RecordOwner(c) \/ JoinFindRoom(c)
                \/ JoinRecord(c) \/ LeaveFindRoom(c) \/ LeaveRecord(c) \/ Publish(c) \/ Fail(c)
      PROVE  Bounded'
  <2>1. Adding' \subseteq Adding
    BY <1>1, NobodyAdds DEF CheckOwner, RecordOwner, JoinFindRoom, JoinRecord, LeaveFindRoom,
       LeaveRecord, Publish, Fail
  <2>2. players' = players
    BY <1>1 DEF CheckOwner, RecordOwner, JoinFindRoom, JoinRecord, LeaveFindRoom,
       LeaveRecord, Publish, Fail, redis
  <2> QED
    BY <2>1, <2>2, FewerAdding, Counts
<1>2. ASSUME NEW c \in Clients, SaveRoom(c) PROVE Bounded'
  <2>1. Cardinality(players') = 1
    BY <1>2, FS_Singleton DEF SaveRoom
  <2>2. Adding' \subseteq Adding
    BY <1>2, NobodyAdds DEF SaveRoom
  <2>3. Cardinality(Adding') <= Cardinality(Clients) /\ Cardinality(Adding') \in Nat
    BY <2>2, Counts, FS_Subset, FS_CardinalityType, RoomAssumption DEF Adding
  <2> QED
    BY <2>1, <2>3, Counts, RoomAssumption DEF Bounded
<1>3. ASSUME NEW c \in Clients, JoinCheckSpace(c) PROVE Bounded'
  <2>1. players' = players
    BY <1>3 DEF JoinCheckSpace, redis
  <2>2. CASE HasSpace
    <3>1. Adding' \in SUBSET Clients
      BY DEF Adding
    <3>2. Cardinality(Adding') <= Cardinality(Clients) /\ Cardinality(Adding') \in Nat
      BY <3>1, FS_Subset, FS_CardinalityType, RoomAssumption
    <3> QED
      BY <2>1, <2>2, <3>2, Counts, RoomAssumption DEF HasSpace, Bounded
  <2>3. CASE ~HasSpace
    <3>1. Adding' \subseteq Adding
      BY <1>3, <2>3, NobodyAdds DEF JoinCheckSpace
    <3> QED
      BY <2>1, <3>1, FewerAdding, Counts
  <2> QED
    BY <2>2, <2>3
<1>4. ASSUME NEW c \in Clients, JoinAdd(c) PROVE Bounded'
  <2>1. Adding' = Adding \ {c} /\ c \in Adding
    BY <1>4 DEF JoinAdd, At, Goto, Adding, TypeOK, RequestsOK
  <2>2. Cardinality(Adding') = Cardinality(Adding) - 1
    BY <2>1, Counts, FS_RemoveElement
  <2>3. Cardinality(players') <= Cardinality(players) + 1 /\ Cardinality(players') \in Nat
    <3>1. IsFiniteSet(players) /\ players' = players \cup {who[c]}
      BY <1>4 DEF JoinAdd, Add, TypeOK
    <3>2. Cardinality(players \cup {who[c]})
            = IF who[c] \in players THEN Cardinality(players) ELSE Cardinality(players) + 1
      BY <3>1, FS_AddElement
    <3> QED
      BY <3>1, <3>2, Counts
  <2> QED
    BY <2>2, <2>3, Counts, RoomAssumption DEF Bounded
<1>5. ASSUME NEW c \in Clients, LeaveRemove(c) PROVE Bounded'
  <2>1. Adding' \subseteq Adding
    BY <1>5, NobodyAdds DEF LeaveRemove
  <2>2. Cardinality(players') <= Cardinality(players)
    <3>1. IsFiniteSet(players) /\ players' = players \ {who[c]}
      BY <1>5 DEF LeaveRemove, Remove, TypeOK
    <3>2. Cardinality(players \ {who[c]})
            = IF who[c] \in players THEN Cardinality(players) - 1 ELSE Cardinality(players)
      BY <3>1, FS_RemoveElement
    <3> QED
      BY <3>1, <3>2, Counts
  <2> QED
    BY <2>1, <2>2, FewerAdding
<1>6. CASE ExpireRoom
  <2>1. Adding' = Adding
    BY <1>6 DEF ExpireRoom, Adding, At
  <2>2. Cardinality(players') <= Cardinality(players)
    BY <1>6, FS_EmptySet, Counts DEF ExpireRoom
  <2> QED
    BY <2>1, <2>2, FewerAdding
<1>7. CASE UNCHANGED vars
  BY <1>7 DEF vars, Bounded, Adding, At
<1> QED
  BY <1>1, <1>2, <1>3, <1>4, <1>5, <1>6, <1>7 DEF Next, Create, Join, Leave

\* OverfullBound is an invariant: with n clients a room of m never holds more than
\* m + n - 1 players, however long its joins and leaves go on.
THEOREM OverfullBounded == Spec => []OverfullBound
<1>1. Init => IInv
  <2> SUFFICES ASSUME Init PROVE IInv
    OBVIOUS
  <2>1. TypeOK
    BY InitType
  <2>2. Adding = {}
    BY DEF Init, Adding, At
  <2>3. Cardinality(players) = 0 /\ Cardinality(Adding) = 0
    BY <2>2, FS_EmptySet DEF Init
  <2> QED
    BY <2>1, <2>3, Counts, RoomAssumption DEF IInv, Bounded
<1>2. IInv /\ [Next]_vars => IInv'
  BY StepType, BoundedStep DEF IInv
<1>3. IInv => OverfullBound
  BY Counts, RoomAssumption DEF IInv, Bounded, OverfullBound
<1> QED
  BY <1>1, <1>2, <1>3, PTL DEF Spec
=============================================================================
