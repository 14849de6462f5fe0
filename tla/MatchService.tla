---------------------------- MODULE MatchService ----------------------------
(***************************************************************************)
(* services/match-service/main.py: the matchmaking queue, composed with    *)
(* the login service through the online flag that join_match looks at.     *)
(*                                                                         *)
(* The queue is a sorted set whose scores are the times of joining;        *)
(* nothing takes a member out of it.  The time is read from the clock of   *)
(* the replica that serves the request and sent with the ZADD, so joins    *)
(* may arrive in another order than that of their times, and the times may *)
(* be in another order than the joins.                                     *)
(***************************************************************************)
EXTENDS LoginService

CONSTANTS
  Modes,     \* "ranked" and "casual"
  Lexical,   \* Redis's order of members with equal scores: that of their names
  Skew,      \* how far the replicas' clocks may be apart
  Horizon    \* bound: the time at which the model's time ends

Members == Modes \X Players

ASSUME MatchAssumption ==
  /\ IsFiniteSet(Members)
  /\ \A m, n \in Members : << m, n >> \in Lexical <=> (m # n /\ << n, m >> \notin Lexical)
  /\ Skew \in Nat /\ Horizon \in Nat /\ Skew <= Horizon
  /\ None \notin Members /\ None \notin Nat
  /\ None \notin [member : Members, place : Nat, overtaking : Nat]

VARIABLES
  now,     \* the time on the replica whose clock is ahead of the others
  score,   \* Redis: the sorted set match:queue, None for who is not in it
  asked,   \* the member each client's join is about, None if it has none under way
  stamp,   \* the time that join has read, None before
  told     \* the last answer of match_status about a member whose time is past, None if
           \* that member has joined again since

matchVars == << now, score, asked, stamp, told >>
vars == << loginVars, matchVars >>

Init ==
  /\ LoginInit
  /\ now = Skew
  /\ score = [m \in Members |-> None]
  /\ asked = [c \in Clients |-> None]
  /\ stamp = [c \in Clients |-> None]
  /\ told = None

-----------------------------------------------------------------------------
(* The sorted set.                                                         *)

Queued == {m \in Members : score[m] # None}

\* Would member n, with score s, stand in front of m?
InFront(n, s, m) == s < score[m] \/ (s = score[m] /\ << n, m >> \in Lexical)

Ahead(m) == {n \in Queued \ {m} : InFront(n, score[n], m)}

\* ZRANK, counted from 1.
Place(m) == 1 + Cardinality(Ahead(m))

\* Joins that have read their time and will come out in front of m.
Coming(m) == {asked[c] : c \in {d \in Clients :
                stamp[d] # None /\ asked[d] # m /\ InFront(asked[d], stamp[d], m)}}

-----------------------------------------------------------------------------
(* join_match: EXISTS, the time, then ZADD.                                *)

\* A mutation: whoever asks may queue.
IsOnlineAlways(p) == TRUE

IsOnline(p) == online[p] \in Nat \ {0}

\* A player who is not online is refused.
Join(c) ==
  /\ asked[c] = None /\ IsOnline(PlayerOf[c])
  /\ \E mode \in Modes : asked' = [asked EXCEPT ![c] = << mode, PlayerOf[c] >>]
  /\ UNCHANGED << now, score, stamp, told >>

\* A mutation: time.monotonic() in place of time.time(), each process counting from a
\* start of its own.
ClockSinceStart == 0..now

\* What time.time() may return.
Clock == (now - Skew)..now

TakeTime(c) ==
  /\ asked[c] # None /\ stamp[c] = None
  /\ \E t \in Clock : stamp' = [stamp EXCEPT ![c] = t]
  /\ UNCHANGED << now, score, asked, told >>

JoinOver(c) ==
  /\ asked' = [asked EXCEPT ![c] = None]
  /\ stamp' = [stamp EXCEPT ![c] = None]

\* A member that is there already gets the new score. The event and the answer, which
\* follow, change nothing here, whether they fail or not.
Enqueue(c) ==
  /\ stamp[c] # None
  /\ score' = [score EXCEPT ![asked[c]] = stamp[c]]
  /\ told' = IF told # None /\ told.member = asked[c] THEN None ELSE told
  /\ JoinOver(c)
  /\ UNCHANGED now

Abort(c) ==
  /\ asked[c] # None
  /\ JoinOver(c)
  /\ UNCHANGED << now, score, told >>

-----------------------------------------------------------------------------
(* match_status: ZRANK, for any member.  A member that is there stays      *)
(* there, so that ZSCORE, which follows, finds it.                         *)

\* All clocks have passed the time that m joined with.
Past(m) == score[m] < now - Skew

\* The answer is the place. Beside it is remembered how many members, not yet in front of
\* m, have joins on their way to there. A member whose time is not past yet may be overtaken
\* by joins that have still to come; what it was told is not remembered.
Status(m) ==
  /\ m \in Queued /\ Past(m)
  /\ told' = [member |-> m, place |-> Place(m), overtaking |-> Cardinality(Coming(m) \ Ahead(m))]
  /\ UNCHANGED << now, score, asked, stamp >>

TimePasses ==
  /\ now < Horizon
  /\ now' = now + 1
  /\ UNCHANGED << score, asked, stamp, told >>

MatchNext ==
  \/ \E c \in Clients : Join(c) \/ TakeTime(c) \/ Enqueue(c) \/ Abort(c)
  \/ \E m \in Members : Status(m)
  \/ TimePasses

\* The two services share nothing but the flag, which this one only reads, and their
\* clients, who wait for one request at a time.
Next ==
  /\ \/ LoginNext /\ UNCHANGED matchVars
     \/ MatchNext /\ UNCHANGED loginVars
  /\ \A c \in Clients : op'[c] = "idle" \/ asked'[c] = None

\* Keys expire; nothing else need happen.
Spec == Init /\ [][Next]_vars /\ WF_vars(Tick /\ UNCHANGED matchVars)

-----------------------------------------------------------------------------
(* Properties.                                                             *)

\* Over LoginService's, the match requests.
TypeOK ==
  /\ LoginTypeOK
  /\ now \in Skew..Horizon
  /\ score \in [Members -> Nat \cup {None}]
  /\ asked \in [Clients -> Members \cup {None}]
  /\ stamp \in [Clients -> Nat \cup {None}]
  /\ \A c \in Clients : stamp[c] # None => asked[c] # None
  /\ told \in [member : Members, place : Nat, overtaking : Nat] \cup {None}

\* Nobody is in the queue who never logged in: between the look at the flag and the
\* ZADD the player may go offline, and stay queued for ever, but not come from nowhere.
QueuedHadLogin ==
  \A m \in Queued : \E t \in Tokens : owner[t] = m[2]

\* How much worse a place can get after match_status answered it: by no more than the joins
\* that had read an earlier time when the answer was given and whose ZADD was on its way.
\* Whoever comes later is put behind, whichever replica serves the join and however long the
\* ZADD takes; a player who joins again loses the own place and nobody else's (join_match,
\* match_status).
ToldPlaceHolds ==
  told # None => Place(told.member) <= told.place + told.overtaking
=============================================================================
