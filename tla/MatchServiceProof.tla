-------------------------- MODULE MatchServiceProof --------------------------
(***************************************************************************)
(* Proofs about MatchService, for any number of clients, players and       *)
(* modes, and clocks that are apart by any amount.                         *)
(***************************************************************************)
EXTENDS MatchService, LoginServiceProof, FiniteSetTheorems

-----------------------------------------------------------------------------
(* Types.                                                                  *)

MatchTypeOK ==
  /\ now \in Skew..Horizon
  /\ score \in [Members -> Nat \cup {None}]
  /\ asked \in [Clients -> Members \cup {None}]
  /\ stamp \in [Clients -> Nat \cup {None}]
  /\ \A c \in Clients : stamp[c] # None => asked[c] # None
  /\ told \in [member : Members, place : Nat, overtaking : Nat] \cup {None}

\* Sets of members are finite, so that they have numbers of members.
LEMMA Counted ==
  ASSUME NEW S \in SUBSET Members
  PROVE  IsFiniteSet(S) /\ Cardinality(S) \in Nat
BY MatchAssumption, FS_Subset, FS_CardinalityType

\* Who is in front of a member, or will be, are members.
LEMMA FrontTypes ==
  ASSUME MatchTypeOK, NEW m
  PROVE  Ahead(m) \in SUBSET Members /\ Coming(m) \in SUBSET Members
BY DEF MatchTypeOK, Ahead, Queued, Coming

LEMMA MatchTypeStep ==
  ASSUME MatchTypeOK, [MatchNext]_matchVars
  PROVE  MatchTypeOK'
<1>0. Skew \in Nat /\ Horizon \in Nat
  BY MatchAssumption
<1>1. ASSUME NEW c \in Clients, Join(c)
      PROVE  MatchTypeOK'
  <2>1. \A mode \in Modes : << mode, PlayerOf[c] >> \in Members
    BY LoginAssumption DEF Members
  <2>2. stamp[c] = None
    BY <1>1 DEF Join, MatchTypeOK
  <2>. QED
    BY <1>1, <2>1, <2>2 DEF Join, MatchTypeOK
<1>2. ASSUME NEW c \in Clients, TakeTime(c)
      PROVE  MatchTypeOK'
  <2>1. Clock \subseteq Nat
    BY <1>0 DEF Clock, MatchTypeOK
  <2>. QED
    BY <1>2, <2>1 DEF TakeTime, MatchTypeOK
<1>3. ASSUME NEW c \in Clients, Enqueue(c)
      PROVE  MatchTypeOK'
  BY <1>3 DEF Enqueue, JoinOver, MatchTypeOK
<1>4. ASSUME NEW c \in Clients, Abort(c)
      PROVE  MatchTypeOK'
  BY <1>4 DEF Abort, JoinOver, MatchTypeOK
<1>5. ASSUME NEW m \in Members, Status(m)
      PROVE  MatchTypeOK'
  <2>1. Place(m) \in Nat /\ Cardinality(Coming(m) \ Ahead(m)) \in Nat
    BY FrontTypes, Counted DEF Place
  <2>. QED
    BY <1>5, <2>1 DEF Status, MatchTypeOK
<1>6. ASSUME TimePasses
      PROVE  MatchTypeOK'
  BY <1>0, <1>6 DEF TimePasses, MatchTypeOK
<1>7. CASE UNCHANGED matchVars
  BY <1>7 DEF matchVars, MatchTypeOK
<1>. QED
  BY <1>1, <1>2, <1>3, <1>4, <1>5, <1>6, <1>7 DEF MatchNext

\* A step of the two services is one of either.
LEMMA Split ==
  ASSUME [Next]_vars
  PROVE  /\ [LoginNext]_loginVars /\ [MatchNext]_matchVars
         /\ UNCHANGED loginVars \/ UNCHANGED matchVars
BY DEF Next, vars

\* Composed with the queue, the login service is itself: its properties are those of the
\* composition (Spec).
LEMMA LoginAlone == Spec => LoginSpec
<1>1. Init => LoginInit
  BY DEF Init
<1>2. [Next]_vars => [LoginNext]_loginVars
  BY Split
<1>. QED
  BY <1>1, <1>2, PTL DEF Spec, LoginSpec

\* Both services' variables keep their types (login, logout, join_match, match_status).
THEOREM MatchTypeCorrect == Spec => []TypeOK
<1>1. Init => MatchTypeOK
  BY MatchAssumption DEF Init, MatchTypeOK
<1>2. MatchTypeOK /\ [Next]_vars => MatchTypeOK'
  BY Split, MatchTypeStep
<1>3. LoginTypeOK /\ MatchTypeOK => TypeOK
  BY DEF TypeOK, MatchTypeOK
<1>. QED
  BY <1>1, <1>2, <1>3, LoginAlone, LoginTypeCorrect, PTL DEF Spec

\* The flag covers the sessions handed out, with match requests going on as well (login,
\* logout, join_match).
THEOREM MatchFlagCovers == Spec => []OnlineCovers
BY LoginAlone, FlagCovers, PTL

-----------------------------------------------------------------------------
(* Who is in the queue.                                                    *)

HadLogin(p) == \E t \in Tokens : owner[t] = p

\* Wherever a player shows up on the way into the queue, the player has logged in once.
LoginInv ==
  /\ \A p \in Players : online[p] # 0 => HadLogin(p)
  /\ \A c \in Clients : asked[c] # None => HadLogin(asked[c][2])
  /\ \A m \in Queued : HadLogin(m[2])

\* A token stays its player's, so that to have logged in is for ever.
LEMMA OwnersStay ==
  ASSUME LoginTypeOK, [LoginNext]_loginVars
  PROVE  \A p \in Players : HadLogin(p) => HadLogin(p)'
<1>1. UNCHANGED owner \/ \E c \in Clients : Login(c)
  BY DEF LoginNext, LoginStep, loginVars, SaveSession, ExpireSession, SetOnline, AnswerLogin,
         Logout, DeleteSession, AnswerLogout, Fail, Tick
<1>2. ASSUME NEW c \in Clients, Login(c)
      PROVE  \A t \in Tokens : owner[t] # None => owner'[t] = owner[t]
  BY <1>2, Drawn DEF LoginTypeOK
<1>. QED
  BY <1>1, <1>2, LoginAssumption DEF HadLogin

\* Only a login raises the flag, and a logout that lowers it follows on one.
LEMMA FlagRaised ==
  ASSUME LoginTypeOK, LoginInv, [LoginNext]_loginVars, NEW p \in Players, online'[p] # 0
  PROVE  HadLogin(p)
<1>1. online[p] # 0 => HadLogin(p)
  BY DEF LoginInv
<1>2. ASSUME NEW c \in Clients, SetOnline(c) \/ DeleteSession(c)
      PROVE  online'[p] = online[p] \/ HadLogin(p)
  <2>1. token[c] \in Tokens /\ owner[token[c]] = PlayerOf[c]
    BY <1>2 DEF SetOnline, DeleteSession, At, LoginTypeOK
  <2>2. p # PlayerOf[c] => online'[p] = online[p]
    BY <1>2 DEF SetOnline, DeleteSession, LoginTypeOK
  <2>. QED
    BY <2>1, <2>2 DEF HadLogin
<1>3. ASSUME Tick
      PROVE  online[p] # 0
  BY <1>3 DEF Tick, Sooner
<1>4. \/ UNCHANGED online \/ Tick
      \/ \E c \in Clients : SetOnline(c) \/ DeleteSession(c)
  BY DEF LoginNext, LoginStep, loginVars, redis, Login, SaveSession, ExpireSession, AnswerLogin,
         Logout, AnswerLogout, Fail
<1>. QED
  BY <1>1, <1>2, <1>3, <1>4

LEMMA LoginInvStep ==
  ASSUME LoginTypeOK, MatchTypeOK, LoginInv, [Next]_vars
  PROVE  LoginInv'
<1>1. /\ \A m \in Members : m[2] \in Players
      /\ \A c \in Clients : asked[c] # None => asked[c] \in Members
  BY DEF MatchTypeOK, Members
<1>2. CASE [LoginNext]_loginVars /\ UNCHANGED matchVars
  <2>1. \A p \in Players : online'[p] # 0 => HadLogin(p)'
    BY <1>2, FlagRaised, OwnersStay
  <2>2. \A c \in Clients : asked[c] # None => HadLogin(asked[c][2])'
    BY <1>1, <1>2, OwnersStay DEF LoginInv, matchVars
  <2>3. \A m \in Queued : HadLogin(m[2])'
    BY <1>1, <1>2, OwnersStay DEF LoginInv, Queued, matchVars
  <2>. QED
    BY <1>2, <2>1, <2>2, <2>3 DEF LoginInv, Queued, matchVars
<1>3. CASE MatchNext /\ UNCHANGED loginVars
  <2>0. \A p : HadLogin(p)' <=> HadLogin(p)
    BY <1>3 DEF HadLogin, loginVars
  <2>1. \A p \in Players : online'[p] # 0 => HadLogin(p)'
    BY <1>3, <2>0 DEF LoginInv, loginVars, redis
  <2>2. ASSUME NEW c \in Clients, asked'[c] # None
        PROVE  HadLogin(asked'[c][2])
    <3>1. CASE asked'[c] = asked[c]
      BY <2>2, <3>1 DEF LoginInv
    <3>2. ASSUME NEW d \in Clients, Join(d), asked'[c] # asked[c]
          PROVE  HadLogin(asked'[c][2])
      <4>1. \E mode \in Modes : asked'[c] = << mode, PlayerOf[d] >>
        BY <3>2 DEF Join, MatchTypeOK
      <4>2. PlayerOf[d] \in Players /\ online[PlayerOf[d]] # 0
        BY <3>2, LoginAssumption DEF Join, IsOnline
      <4>. QED
        BY <4>1, <4>2 DEF LoginInv
    <3>3. (~\E d \in Clients : Join(d)) => asked'[c] = asked[c]
      BY <1>3, <2>2 DEF MatchNext, TakeTime, Enqueue, Abort, JoinOver, Status, TimePasses,
         MatchTypeOK
    <3>. QED
      BY <3>1, <3>2, <3>3
  <2>3. ASSUME NEW m \in Members, score'[m] # None
        PROVE  HadLogin(m[2])
    <3>1. CASE score'[m] = score[m]
      BY <2>3, <3>1 DEF LoginInv, Queued
    <3>2. ASSUME NEW c \in Clients, Enqueue(c), score'[m] # score[m]
          PROVE  HadLogin(m[2])
      <4>1. m = asked[c] /\ asked[c] # None
        BY <3>2 DEF Enqueue, MatchTypeOK
      <4>. QED
        BY <4>1 DEF LoginInv
    <3>3. (~\E c \in Clients : Enqueue(c)) => score' = score
      BY <1>3 DEF MatchNext, Join, TakeTime, Abort, Status, TimePasses
    <3>. QED
      BY <3>1, <3>2, <3>3
  <2>. QED
    BY <2>0, <2>1, <2>2, <2>3 DEF LoginInv, Queued
<1>. QED
  BY <1>2, <1>3, Split DEF Next, vars

\* Nobody queues who has not logged in, though the flag is looked at long before the ZADD
\* (join_match).
THEOREM QueuedLoggedIn == Spec => []QueuedHadLogin
<1>1. Init => LoginInv
  BY DEF Init, LoginInit, LoginInv, Queued
<1>2. LoginTypeOK /\ MatchTypeOK /\ LoginInv /\ [Next]_vars => LoginInv'
  BY LoginInvStep
<1>3. LoginInv => QueuedHadLogin
  BY DEF LoginInv, QueuedHadLogin, HadLogin
<1>4. TypeOK => LoginTypeOK /\ MatchTypeOK
  BY DEF TypeOK, MatchTypeOK
<1>. QED
  BY <1>1, <1>2, <1>3, <1>4, MatchTypeCorrect, PTL DEF Spec

-----------------------------------------------------------------------------
(* Places in the queue.                                                    *)

\* Who is in front of m, or has read the time that will bring it there.
Before(m) == Ahead(m) \cup Coming(m)

\* Once every clock has passed the time of m, no step but a join of m itself brings anybody
\* in front of it who was not there or on the way there.
LEMMA NobodyElse ==
  ASSUME MatchTypeOK, [MatchNext]_matchVars, NEW m \in Queued, Past(m),
         score'[m] = score[m]
  PROVE  Past(m)' /\ m \in Queued' /\ Before(m)' \subseteq Before(m)
<1>0. Skew \in Nat /\ now \in Nat /\ score[m] \in Nat /\ m \in Members
  BY MatchAssumption DEF MatchTypeOK, Queued
<1>1. Past(m)' /\ m \in Queued'
  <2>1. now' = now \/ now' = now + 1
    BY DEF MatchNext, matchVars, Join, TakeTime, Enqueue, Abort, Status, TimePasses
  <2>. QED
    BY <1>0, <2>1 DEF Past, Queued
<1>2. \A n, s : InFront(n, s, m)' <=> InFront(n, s, m)
  BY DEF InFront
\* A place in front of m was there, or is that of a join that was coming.
<1>3. ASSUME NEW n \in Ahead(m)'
      PROVE  n \in Before(m)
  <2>0. n \in Members /\ n # m /\ score'[n] # None /\ InFront(n, score'[n], m)
    BY <1>2 DEF Ahead, Queued
  <2>1. CASE score'[n] = score[n]
    BY <2>0, <2>1 DEF Before, Ahead, Queued
  <2>2. ASSUME NEW c \in Clients, Enqueue(c), score'[n] # score[n]
        PROVE  n \in Before(m)
    <3>1. asked[c] = n /\ score'[n] = stamp[c] /\ stamp[c] # None
      BY <2>0, <2>2 DEF Enqueue, MatchTypeOK
    <3>. QED
      BY <2>0, <3>1 DEF Before, Coming
  <2>3. (~\E c \in Clients : Enqueue(c)) => score' = score
    BY DEF MatchNext, matchVars, Join, TakeTime, Abort, Status, TimePasses
  <2>. QED
    BY <2>1, <2>2, <2>3
\* A join that is coming in front of m was coming already: a time read now is too late.
<1>4. ASSUME NEW n \in Coming(m)'
      PROVE  n \in Before(m)
  <2>1. PICK d \in Clients : /\ stamp'[d] # None /\ asked'[d] = n /\ n # m
                             /\ InFront(n, stamp'[d], m)
    BY <1>2 DEF Coming
  <2>2. ASSUME NEW c \in Clients, TakeTime(c), stamp'[d] # stamp[d]
        PROVE  FALSE
    <3>1. stamp'[d] \in Clock
      BY <2>2 DEF TakeTime, MatchTypeOK
    <3>2. score[m] < stamp'[d] /\ stamp'[d] \in Int
      BY <1>0, <3>1 DEF Clock, Past
    <3>. QED
      BY <1>0, <2>1, <3>2 DEF InFront
  <2>3. CASE stamp'[d] = stamp[d]
    <3>1. asked'[d] = asked[d]
      <4>1. asked[d] # None
        BY <2>1, <2>3 DEF MatchTypeOK
      <4>. QED
        BY <2>1, <4>1 DEF MatchNext, matchVars, Join, TakeTime, Enqueue, Abort, JoinOver, Status,
           TimePasses, MatchTypeOK
    <3>. QED
      BY <2>1, <2>3, <3>1 DEF Before, Coming
  <2>4. (~\E c \in Clients : TakeTime(c)) => stamp'[d] = stamp[d]
    BY <2>1 DEF MatchNext, matchVars, Join, Enqueue, Abort, JoinOver, Status, TimePasses,
       MatchTypeOK
  <2>. QED
    BY <2>2, <2>3, <2>4
<1>. QED
  BY <1>1, <1>3, <1>4 DEF Before

\* The member last told about is where it was, and no more members are in front of it, or on
\* their way there, than the answer and the joins then under way allow.
ToldInv ==
  told # None =>
    /\ told.member \in Queued /\ Past(told.member)
    /\ Cardinality(Before(told.member)) + 1 <= told.place + told.overtaking

\* An answer is right when it is given.
LEMMA ToldRight ==
  ASSUME MatchTypeOK, NEW m \in Members, Status(m)
  PROVE  ToldInv'
<1>. DEFINE late == Coming(m) \ Ahead(m)
<1>1. /\ Ahead(m) \in SUBSET Members /\ late \in SUBSET Members
      /\ Before(m) = Ahead(m) \cup late /\ Ahead(m) \cap late = {}
  BY FrontTypes DEF Before
<1>. HIDE DEF late
<1>2. Cardinality(Before(m)) = Cardinality(Ahead(m)) + Cardinality(late)
  <2>1. /\ IsFiniteSet(Ahead(m)) /\ IsFiniteSet(late)
        /\ Cardinality(Ahead(m)) \in Nat /\ Cardinality(late) \in Nat
    BY <1>1, Counted
  <2>2. Cardinality(Ahead(m) \cap late) = 0
    BY <1>1, FS_EmptySet
  <2>3. Cardinality(Ahead(m) \cup late)
          = Cardinality(Ahead(m)) + Cardinality(late) - Cardinality(Ahead(m) \cap late)
    BY <2>1, FS_Union
  <2>4. Cardinality(Ahead(m) \cup late) = Cardinality(Ahead(m)) + Cardinality(late)
    BY <2>1, <2>2, <2>3
  <2>. QED
    BY <1>1, <2>4
<1>3. told' = [member |-> m, place |-> 1 + Cardinality(Ahead(m)),
               overtaking |-> Cardinality(late)]
  BY DEF Status, Place, late
<1>4. m \in Queued' /\ Past(m)' /\ Before(m)' = Before(m)
  BY DEF Status, Queued, Past, Before, Ahead, Coming, InFront
<1>5. Cardinality(Ahead(m)) \in Nat /\ Cardinality(late) \in Nat
  BY <1>1, Counted
<1>. QED
  BY <1>2, <1>3, <1>4, <1>5 DEF ToldInv

LEMMA ToldInvStep ==
  ASSUME MatchTypeOK, MatchTypeOK', ToldInv, [MatchNext]_matchVars
  PROVE  ToldInv'
<1>1. CASE told' = told /\ told # None /\ score'[told.member] = score[told.member]
  <2>. DEFINE m == told.member
  <2>1. m \in Queued /\ Past(m) /\ Cardinality(Before(m)) + 1 <= told.place + told.overtaking
    BY <1>1 DEF ToldInv
  <2>2. Past(m)' /\ m \in Queued' /\ Before(m)' \subseteq Before(m)
    BY <1>1, <2>1, NobodyElse
  <2>3. Before(m) \in SUBSET Members
    BY FrontTypes DEF Before
  <2>4. Cardinality(Before(m)') <= Cardinality(Before(m))
    BY <2>2, <2>3, Counted, FS_Subset
  <2>5. /\ Cardinality(Before(m)') \in Nat /\ Cardinality(Before(m)) \in Nat
        /\ told.place + told.overtaking \in Nat
    BY <1>1, <2>2, <2>3, Counted DEF MatchTypeOK
  <2>6. Cardinality(Before(m)') + 1 <= told.place + told.overtaking
    BY <2>1, <2>4, <2>5
  <2>. QED
    BY <1>1, <2>2, <2>6 DEF ToldInv
<1>2. CASE told' = None
  BY <1>2 DEF ToldInv
<1>3. ASSUME NEW m \in Members, Status(m)
      PROVE  ToldInv'
  BY <1>3, ToldRight
<1>4. ASSUME NEW c \in Clients, Enqueue(c), told' # None
      PROVE  told' = told /\ told # None /\ score'[told.member] = score[told.member]
  BY <1>4 DEF Enqueue, MatchTypeOK
<1>5. (\A m \in Members : ~Status(m)) /\ (\A c \in Clients : ~Enqueue(c))
        => told' = told /\ score' = score
  BY DEF MatchNext, matchVars, Join, TakeTime, Abort, TimePasses
<1>. QED
  BY <1>1, <1>2, <1>3, <1>4, <1>5

\* A place that was answered gets worse by no more than the joins that were then on their
\* way with an earlier time, on however many replicas and however far their clocks are apart
\* (join_match, match_status).
THEOREM PlacesHold == Spec => []ToldPlaceHolds
<1>1. Init => ToldInv
  BY DEF Init, ToldInv
<1>2. MatchTypeOK /\ MatchTypeOK' /\ ToldInv /\ [Next]_vars => ToldInv'
  BY Split, ToldInvStep
<1>3. MatchTypeOK /\ ToldInv => ToldPlaceHolds
  <2>. SUFFICES ASSUME MatchTypeOK, ToldInv, told # None
                PROVE  Place(told.member) <= told.place + told.overtaking
    BY DEF ToldPlaceHolds
  <2>. DEFINE m == told.member
  <2>1. Ahead(m) \subseteq Before(m) /\ Before(m) \in SUBSET Members
    BY FrontTypes DEF Before
  <2>2. Cardinality(Ahead(m)) <= Cardinality(Before(m))
    BY <2>1, Counted, FS_Subset
  <2>3. Cardinality(Ahead(m)) \in Nat /\ Cardinality(Before(m)) \in Nat
    BY <2>1, Counted
  <2>. QED
    BY <2>2, <2>3 DEF ToldInv, Place, MatchTypeOK
<1>4. TypeOK => MatchTypeOK
  BY DEF TypeOK, MatchTypeOK
<1>. QED
  BY <1>1, <1>2, <1>3, <1>4, MatchTypeCorrect, PTL DEF Spec
==============================================================================
