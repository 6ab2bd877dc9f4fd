------------------------------ MODULE Friends -------------------------------
(***************************************************************************)
(* FriendsService, for one pair of users: the rows of the friendships      *)
(* table between them and the requests that read a row, decide, and write  *)
(* it one await later.  Rows of other pairs are independent.               *)
(*                                                                         *)
(* Most requests may overlap and do no harm.  Three pairs race, and raced  *)
(* records which of them have been in flight at once so far:               *)
(*   "crossing"     friend requests of both users                          *)
(*   "turning"      a request that turns a declined row round, an answer   *)
(*   "disagreeing"  an accept and a decline                                *)
(***************************************************************************)
EXTENDS FiniteSets

CONSTANTS
  Ann, Bob,
  RowIds,       \* ids of rows; each is used once
  Requests,     \* requests that may be in flight
  Absent, Idle

Users == {Ann, Bob}
Other(u) == IF u = Ann THEN Bob ELSE Ann

VARIABLES
  row,       \* requester and status of each row; the addressee is the other user
  used,      \* the ids given to rows so far
  request,
  wants,     \* history: whether each user last asked or accepted, or declined or removed
  raced      \* history: the kinds of requests that have overlapped and race

vars == <<row, used, request, wants, raced>>

FriendshipStatus == {"PENDING", "ACCEPTED", "DECLINED"}
Row == [from : Users, status : FriendshipStatus]
Request ==
  [at : {"create"}, user : Users]
    \cup [at : {"reopen", "remove"}, user : Users, row : RowIds]
    \cup [at : {"answer"}, user : Users, row : RowIds, answer : {"ACCEPTED", "DECLINED"}]

ASSUME FriendsAssumption == Ann # Bob /\ Absent \notin Row /\ Idle \notin Request

TypeOK ==
  /\ row \in [RowIds -> Row \cup {Absent}]
  /\ used \subseteq RowIds
  /\ request \in [Requests -> Request \cup {Idle}]
  /\ wants \in [Users -> BOOLEAN]
  /\ raced \subseteq {"crossing", "turning", "disagreeing"}

Init ==
  /\ row = [r \in RowIds |-> Absent]
  /\ used = {}
  /\ request = [q \in Requests |-> Idle]
  /\ wants = [u \in Users |-> FALSE]
  /\ raced = {}

Rows == {r \in RowIds : row[r] # Absent}

-----------------------------------------------------------------------------

IsSend(w) == w.at \in {"create", "reopen"}

\* Two requests in flight race when one may write over what the other has written
\* since it read; all other pairs may overlap freely.
Race(kind, a, b) ==
  \/ kind = "crossing" /\ IsSend(a) /\ IsSend(b) /\ a.user # b.user
  \/ kind = "turning" /\ {a.at, b.at} = {"reopen", "answer"}
  \/ kind = "disagreeing" /\ a.at = "answer" /\ b.at = "answer" /\ a.answer # b.answer

\* A request begins with what it has read, beside those in flight.
Begin(q, w) ==
  /\ request[q] = Idle
  /\ request' = [request EXCEPT ![q] = w]
  /\ raced' = raced \cup
       {kind \in {"crossing", "turning", "disagreeing"} :
          \E p \in Requests : request[p] # Idle /\ Race(kind, w, request[p])}

End(q) == request' = [request EXCEPT ![q] = Idle]

\* A row of the pair with this requester exists already: @@unique.
Taken(u, except) == \E r \in Rows \ except : row[r].from = u

-----------------------------------------------------------------------------
(* sendRequest.  A name ending in Mutant is a mistake the operator after   *)
(* it could have been written with; nothing uses it.                       *)

\* The rows in either direction.
ExistingMutant(u) == {r \in Rows : row[r].from = u}
Existing(u) == Rows

SendBegin(q, u) ==
  /\ \/ /\ Existing(u) = {}
        /\ Begin(q, [at |-> "create", user |-> u])
     \/ \E r \in Existing(u) :
          /\ row[r].status = "DECLINED"
          /\ Begin(q, [at |-> "reopen", user |-> u, row |-> r])
  /\ UNCHANGED <<row, used, wants>>

SendCreate(q) ==
  LET u == request[q].user IN
  /\ request[q] # Idle /\ request[q].at = "create"
  /\ End(q)
  /\ \/ /\ Taken(u, {})
        /\ UNCHANGED <<row, used, wants>>
     \/ /\ ~Taken(u, {})
        /\ \E r \in RowIds \ used :
             /\ row' = [row EXCEPT ![r] = [from |-> u, status |-> "PENDING"]]
             /\ used' = used \cup {r}
        /\ wants' = [wants EXCEPT ![u] = TRUE]
  /\ UNCHANGED raced

\* A declined row is turned round, whatever it has become since it was read.
SendReopen(q) ==
  LET u == request[q].user
      r == request[q].row
  IN
  /\ request[q] # Idle /\ request[q].at = "reopen"
  /\ End(q)
  /\ IF row[r] = Absent \/ Taken(u, {r})
     THEN UNCHANGED <<row, wants>>
     ELSE /\ row' = [row EXCEPT ![r] = [from |-> u, status |-> "PENDING"]]
          /\ wants' = [wants EXCEPT ![u] = TRUE]
  /\ UNCHANGED <<used, raced>>

-----------------------------------------------------------------------------
(* acceptRequest and declineRequest.                                       *)

\* Only the addressee answers, and only a pending request.
MayAnswerMutant(u, r) == row[r] # Absent /\ row[r].from # u
MayAnswerOwnMutant(u, r) == row[r] # Absent /\ row[r].status = "PENDING"
MayAnswer(u, r) == row[r] # Absent /\ row[r].from # u /\ row[r].status = "PENDING"

AnswerBegin(q, u, r, answer) ==
  /\ MayAnswer(u, r)
  /\ Begin(q, [at |-> "answer", user |-> u, row |-> r, answer |-> answer])
  /\ UNCHANGED <<row, used, wants>>

AcceptRequest(q, u, r) == AnswerBegin(q, u, r, "ACCEPTED")
DeclineRequest(q, u, r) == AnswerBegin(q, u, r, "DECLINED")

AnswerWrite(q) ==
  LET u == request[q].user
      r == request[q].row
  IN
  /\ request[q] # Idle /\ request[q].at = "answer"
  /\ End(q)
  /\ IF row[r] = Absent
     THEN UNCHANGED <<row, wants>>
     ELSE /\ row' = [row EXCEPT ![r].status = request[q].answer]
          /\ wants' = [wants EXCEPT ![u] = (request[q].answer = "ACCEPTED")]
  /\ UNCHANGED <<used, raced>>

-----------------------------------------------------------------------------
(* removeFriend.                                                           *)

RemoveBeginMutant(q, u) ==
  /\ \E r \in Rows : Begin(q, [at |-> "remove", user |-> u, row |-> r])
  /\ UNCHANGED <<row, used, wants>>

RemoveBegin(q, u) ==
  /\ \E r \in Rows :
       /\ row[r].status = "ACCEPTED"
       /\ Begin(q, [at |-> "remove", user |-> u, row |-> r])
  /\ UNCHANGED <<row, used, wants>>

RemoveWrite(q) ==
  LET r == request[q].row IN
  /\ request[q] # Idle /\ request[q].at = "remove"
  /\ End(q)
  /\ row' = [row EXCEPT ![r] = Absent]
  /\ wants' = IF row[r] = Absent THEN wants ELSE [wants EXCEPT ![request[q].user] = FALSE]
  /\ UNCHANGED <<used, raced>>

\* A database call fails, or the process dies, before the write.
Fail(q) ==
  /\ request[q] # Idle
  /\ End(q)
  /\ UNCHANGED <<row, used, wants, raced>>

\* The routes of FriendsController that change a friendship, and what interrupts them.
Next ==
  \E q \in Requests :
    \/ \E u \in Users :
         \/ SendBegin(q, u) \/ RemoveBegin(q, u)
         \/ \E r \in RowIds : AcceptRequest(q, u, r) \/ DeclineRequest(q, u, r)
    \/ SendCreate(q) \/ SendReopen(q) \/ AnswerWrite(q) \/ RemoveWrite(q) \/ Fail(q)

Spec == Init /\ [][Next]_vars

-----------------------------------------------------------------------------

\* Two users have one row, so that removing, declining or accepting it settles
\* how they stand (friends.service.ts:87-94), unless they ask each other at once:
\* the unique index lets the two directions through.
OneRow ==
  "crossing" \notin raced => \A r, s \in Rows : r = s

\* Nobody is a friend who has not asked or accepted, or who has declined or
\* removed since (friends.service.ts:133-138), while no requests have raced.
FriendsByConsent ==
  raced = {} =>
    \A r \in Rows : row[r].status = "ACCEPTED" => \A u \in Users : wants[u]

\* A friendship ends by removal: only a request that read the row before it was
\* accepted turns it back into something else (friends.service.ts:105-107, 163).
FriendshipEndsByRemoval ==
  [][\A r \in Rows :
       row[r].status = "ACCEPTED" /\ raced \cap {"turning", "disagreeing"} = {} =>
         row'[r] \in {row[r], Absent}]_vars

\* The row of the pair.
bond == IF Rows = {} THEN Absent ELSE row[CHOOSE r \in Rows : TRUE]

Contract == INSTANCE FriendshipContract

\* While no requests have raced, each of them is one step of the contract or none,
\* however many overlap.
KeepsContract ==
  /\ Contract!ContractInit
  /\ [][raced = {} => [Contract!ContractNext]_(Contract!contractVars)]_vars
=============================================================================
