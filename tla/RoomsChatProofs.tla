-------------------------- MODULE RoomsChatProofs ---------------------------
(***************************************************************************)
(* Proofs about Rooms, the occupants of a room, and about Chat, what is    *)
(* said in one: each stands on its own.                                    *)
(*                                                                         *)
(* The occupancy bound holds for every capacity and any finite number of   *)
(* users and requests.  It is not inductive: a request that has been let   *)
(* in but has not added its user yet must be counted.                      *)
(*                                                                         *)
(* The properties of Chat hold for any clients, messages, cap, page and    *)
(* number of handlers waiting for Redis.  They follow from the order in    *)
(* which messages were pushed: there is a sequence of all of them that the *)
(* feed follows, and the list in Redis is its end read backwards.          *)
(***************************************************************************)
EXTENDS Rooms, Chat, SequenceTheorems, FiniteSetTheorems, TLAPS

\* Requests that will add their user, come what may, or that have read a count
\* that lets them.
LetIn(r) ==
  \/ request[r].at = "admitted"
  \/ request[r].at = "count" /\ ~request[r].full

Entering == {r \in Requests : LetIn(r)}
EnteringUsers == {request[r].user : r \in Entering}
Claimed == occupants \cup EnteringUsers

ClaimBound == Cardinality(Claimed) + 1 <= Capacity + Cardinality(Requests)

Inv == RoomsTypeOK /\ ClaimBound

-----------------------------------------------------------------------------

\* The claim of a state in numbers.
ClaimCounted ==
  /\ IsFiniteSet(Claimed)
  /\ Cardinality(EnteringUsers) <= Cardinality(Requests)
  /\ Cardinality(Claimed) <= Cardinality(occupants) + Cardinality(EnteringUsers)
  /\ Cardinality(occupants) <= Cardinality(Claimed)
  /\ Cardinality(Requests) \in Nat \ {0}
  /\ Cardinality(occupants) \in Nat
  /\ Cardinality(EnteringUsers) \in Nat
  /\ Cardinality(Claimed) \in Nat

\* Each request brings at most one user.
LEMMA EnteringBound == RoomsTypeOK => ClaimCounted
<1> SUFFICES ASSUME RoomsTypeOK PROVE ClaimCounted
  OBVIOUS
<1> USE RoomsAssumption
<1> DEFINE UserOf == [r \in Entering |-> request[r].user]
<1>1. IsFiniteSet(Entering) /\ Cardinality(Entering) <= Cardinality(Requests)
  BY FS_Subset DEF Entering
<1>2. UserOf \in Surjection(Entering, EnteringUsers)
  BY DEF Surjection, EnteringUsers
<1>3. IsFiniteSet(EnteringUsers) /\ Cardinality(EnteringUsers) <= Cardinality(Entering)
  BY <1>1, <1>2, FS_Surjection
<1>4. IsFiniteSet(occupants) /\ occupants \subseteq Users
  BY FS_Subset DEF RoomsTypeOK
<1>5. /\ IsFiniteSet(Claimed)
      /\ Cardinality(Claimed) =
           Cardinality(occupants) + Cardinality(EnteringUsers)
             - Cardinality(occupants \cap EnteringUsers)
  BY <1>3, <1>4, FS_Union DEF Claimed
<1>6. IsFiniteSet(occupants \cap EnteringUsers)
  BY <1>4, FS_Subset
<1>7. Cardinality(occupants) <= Cardinality(Claimed)
  BY <1>5, FS_Subset DEF Claimed
<1>8. Cardinality(Requests) \in Nat \ {0}
  BY FS_CardinalityType, FS_EmptySet
<1>9. /\ Cardinality(occupants) \in Nat /\ Cardinality(EnteringUsers) \in Nat
       /\ Cardinality(Claimed) \in Nat /\ Cardinality(Entering) \in Nat
       /\ Cardinality(occupants \cap EnteringUsers) \in Nat
  BY <1>1, <1>3, <1>4, <1>5, <1>6, FS_CardinalityType
<1> QED
  BY <1>1, <1>3, <1>5, <1>7, <1>8, <1>9 DEF ClaimCounted

\* A step that claims no new place keeps the bound.
LEMMA NoNewClaim ==
  ASSUME Inv, RoomsTypeOK', Claimed' \subseteq Claimed
  PROVE  ClaimBound'
<1>1. IsFiniteSet(Claimed) /\ Cardinality(Claimed) \in Nat /\ Cardinality(Requests) \in Nat
  BY EnteringBound DEF Inv, ClaimCounted
<1>2. Cardinality(Claimed') <= Cardinality(Claimed) /\ Cardinality(Claimed') \in Nat
  BY <1>1, FS_Subset, FS_CardinalityType
<1> QED
  BY <1>1, <1>2, RoomsAssumption DEF Inv, ClaimBound

LEMMA TypeStep == RoomsTypeOK /\ [RoomsNext]_roomVars => RoomsTypeOK'
<1> SUFFICES ASSUME RoomsTypeOK, [RoomsNext]_roomVars PROVE RoomsTypeOK'
  OBVIOUS
<1>1. ASSUME NEW r \in Requests,
             \/ \E u \in Users : JoinBegin(r, u) \/ LeaveBegin(r, u)
             \/ Refuse(r) \/ Fail(r)
      PROVE  RoomsTypeOK'
  BY <1>1 DEF RoomsTypeOK, JoinBegin, LeaveBegin, Refuse, Fail, Go, InRequest, Idle
<1>2. ASSUME NEW r \in Requests, Count(r) \/ Admit(r)
      PROVE  RoomsTypeOK'
  <2>1. request[r].user \in Users
    BY <1>2 DEF RoomsTypeOK, Count, Admit, InRequest, Idle
  <2>2. Full \in BOOLEAN
    BY DEF Full
  <2> QED
    BY <1>2, <2>1, <2>2 DEF RoomsTypeOK, Count, Admit, Go, InRequest
<1>3. ASSUME NEW r \in Requests, Add(r) \/ RemoveUser(r)
      PROVE  RoomsTypeOK'
  <2>1. request[r].user \in Users
    BY <1>3 DEF RoomsTypeOK, Add, RemoveUser, InRequest, Idle
  <2> QED
    BY <1>3, <2>1 DEF RoomsTypeOK, Add, RemoveUser, Go
<1>4. CASE UNCHANGED roomVars
  BY <1>4 DEF RoomsTypeOK, roomVars
<1> QED
  BY <1>1, <1>2, <1>3, <1>4 DEF RoomsNext

LEMMA CountStep ==
  ASSUME Inv, RoomsTypeOK', NEW r \in Requests, Count(r)
  PROVE  ClaimBound'
<1>1. CASE Full
  <2>1. \A q \in Requests : LetIn(q)' => LetIn(q) /\ request'[q] = request[q]
    BY <1>1 DEF Inv, RoomsTypeOK, LetIn, Count, Go, InRequest, Idle
  <2>2. Claimed' \subseteq Claimed
    BY <2>1 DEF Claimed, EnteringUsers, Entering, Count
  <2> QED
    BY <2>2, NoNewClaim
<1>2. CASE ~Full
  <2>1. ClaimCounted'
    BY EnteringBound, PTL
  <2>2. Cardinality(occupants') < Capacity
    <3>1. Cardinality(occupants) \in Nat
      BY EnteringBound DEF Inv, ClaimCounted
    <3> QED
      BY <1>2, <3>1, RoomsAssumption DEF Full, Count
  <2> QED
    BY <2>1, <2>2, RoomsAssumption DEF ClaimCounted, ClaimBound
<1> QED
  BY <1>1, <1>2

\* Every other step claims nothing: an admitted user has read a count that let
\* them in, or is in the room.
LEMMA OtherStep ==
  ASSUME Inv, RoomsTypeOK', NEW r \in Requests,
         \/ \E u \in Users : JoinBegin(r, u) \/ LeaveBegin(r, u)
         \/ Admit(r) \/ Refuse(r) \/ Add(r) \/ RemoveUser(r) \/ Fail(r)
  PROVE  ClaimBound'
<1>1. \A q \in Requests : LetIn(q)' =>
        request'[q].user \in occupants \/ (LetIn(q) /\ request'[q].user = request[q].user)
  BY DEF Inv, RoomsTypeOK, LetIn, JoinBegin, LeaveBegin, Admit, Refuse, Add, RemoveUser, Fail, Go,
     InRequest, Idle, MayEnter
<1>2. \A u \in occupants' : u \in Claimed
  BY DEF Inv, RoomsTypeOK, Claimed, EnteringUsers, Entering, LetIn, JoinBegin, LeaveBegin, Admit,
     Refuse, Add, RemoveUser, Fail
<1>3. Claimed' \subseteq Claimed
  BY <1>1, <1>2 DEF Claimed, EnteringUsers, Entering
<1> QED
  BY <1>3, NoNewClaim

LEMMA InvInit == RoomsInit => Inv
<1> SUFFICES ASSUME RoomsInit PROVE Inv
  OBVIOUS
<1>1. RoomsTypeOK
  BY DEF RoomsInit, RoomsTypeOK
<1>2. Claimed = {}
  BY DEF RoomsInit, Claimed, EnteringUsers, Entering, LetIn, Idle
<1>3. Cardinality(Requests) \in Nat \ {0}
  BY <1>1, EnteringBound DEF ClaimCounted
<1> QED
  BY <1>1, <1>2, <1>3, FS_EmptySet, RoomsAssumption DEF Inv, ClaimBound

LEMMA InvStep == Inv /\ [RoomsNext]_roomVars => Inv'
<1> SUFFICES ASSUME Inv, [RoomsNext]_roomVars PROVE Inv'
  OBVIOUS
<1>1. RoomsTypeOK'
  BY TypeStep DEF Inv
<1>2. CASE UNCHANGED roomVars
  BY <1>1, <1>2 DEF Inv, ClaimBound, Claimed, EnteringUsers, Entering, LetIn, roomVars
<1>3. CASE RoomsNext
  BY <1>1, <1>3, CountStep, OtherStep DEF RoomsNext, Inv
<1> QED
  BY <1>2, <1>3

\* Every variable keeps its type, whatever requests overlap or fail.
THEOREM RoomsTypeCorrect == RoomsSpec => []RoomsTypeOK
<1>1. RoomsInit => RoomsTypeOK
  BY InvInit DEF Inv
<1> QED
  BY <1>1, TypeStep, PTL DEF RoomsSpec

\* However joins and leaves interleave, fail or are dropped, a room is never
\* overbooked by as many users as there are requests in flight.
THEOREM OccupancyBounded == RoomsSpec => []OccupancyBound
<1>1. RoomsInit => Inv
  BY InvInit
<1>2. Inv /\ [RoomsNext]_roomVars => Inv'
  BY InvStep
<1>3. Inv => OccupancyBound
  BY EnteringBound, RoomsAssumption DEF Inv, ClaimBound, ClaimCounted, OccupancyBound
<1> QED
  BY <1>1, <1>2, <1>3, PTL DEF RoomsSpec

\* Overlapping requests are the only reason for a room to be overbooked: one request
\* at a time never lets anybody into a full room.
THEOREM OneAtATime ==
  Cardinality(Requests) = 1 => (RoomsSpec => [](Cardinality(occupants) <= Capacity))
<1>1. Cardinality(Requests) = 1 /\ Inv => Cardinality(occupants) <= Capacity
  BY EnteringBound, RoomsAssumption DEF Inv, ClaimBound, ClaimCounted
<1>2. RoomsInit => Inv
  BY InvInit
<1>3. Inv /\ [RoomsNext]_roomVars => Inv'
  BY InvStep
<1>4. CASE Cardinality(Requests) = 1
  <2>1. Inv => Cardinality(occupants) <= Capacity
    BY <1>1, <1>4
  <2> QED
    BY <1>2, <1>3, <2>1, PTL DEF RoomsSpec
<1> QED
  BY <1>4

-----------------------------------------------------------------------------
(* Chat.                                                                   *)

\* m comes before n in q.
Before(q, m, n) == \E i, j \in DOMAIN q : i < j /\ q[i] = m /\ q[j] = n

\* What is stored while an insert is unanswered overlaps it; the id of a message is
\* stored once, and only what is stored is lost.
HistorySound ==
  /\ IsInjective(history)
  /\ lost \subseteq ToSet(history) \ creating
  /\ \A i, j \in DOMAIN history :
       i < j /\ history[i] \in creating => <<history[i], history[j]>> \in overlap

\* A message is in flight, broadcast or lost, and only one of them.
Exclusive ==
  /\ (ToSet(sent) \cup Pending) \cap lost = {}
  /\ ToSet(history) \subseteq creating \cup Pending \cup ToSet(sent) \cup lost

\* q holds the messages pushed, the oldest first.
PushedAs(q) ==
  /\ q \in Seq(Messages) /\ IsInjective(q)
  /\ ToSet(q) \subseteq ToSet(history) \ creating
  /\ ToSet(q) \subseteq ToSet(sent) \cup Pending \cup lost
  /\ ToSet(sent) \cup Pending \subseteq ToSet(q)

\* The feed follows q.
FeedFollows(q) ==
  \A m, n \in Messages : SentBefore(m, n) => Before(q, m, n)

\* The list is the end of q, read backwards, and the whole of it until it has been
\* trimmed.
CacheEnds(q) ==
  /\ Len(cache) <= Len(q)
  /\ Len(cache) >= CacheSize \/ Len(cache) = Len(q)
  /\ \A i \in DOMAIN cache : cache[i] = q[Len(q) + 1 - i]

\* A message is pushed after those that history has before it, unless they overlap it
\* or their handler failed.
PushedInOrder(q) ==
  \A i, j \in DOMAIN history :
    i < j /\ history[j] \in ToSet(q) =>
      \/ <<history[i], history[j]>> \in overlap
      \/ history[i] \in lost
      \/ Before(q, history[i], history[j])

Pushes(q) == PushedAs(q) /\ FeedFollows(q) /\ CacheEnds(q) /\ PushedInOrder(q)

CapKept == ~cut => Len(cache) <= CacheSize + Cardinality(Untrimmed)

IInv ==
  /\ TypeOK /\ HistorySound /\ Exclusive /\ CapKept /\ NothingMissed
  /\ \E q \in Seq(Messages) : Pushes(q)
-----------------------------------------------------------------------------
(* Sequences of any elements.                                              *)

LEMMA Grows ==
  ASSUME NEW S, NEW q \in Seq(S), NEW e \in S
  PROVE  LET p == Append(q, e) IN
         /\ p \in Seq(S) /\ Len(p) = Len(q) + 1 /\ Len(q) \in Nat
         /\ DOMAIN q = 1 .. Len(q) /\ DOMAIN p = 1 .. Len(q) + 1
         /\ \A i \in 1 .. Len(q) : p[i] = q[i]
         /\ p[Len(q) + 1] = e
BY AppendProperties, LenProperties

LEMMA AppendedSeq ==
  ASSUME NEW S, NEW q \in Seq(S), NEW e \in S
  PROVE  /\ Append(q, e) \in Seq(S)
         /\ ToSet(Append(q, e)) = ToSet(q) \cup {e}
         /\ IsInjective(q) /\ e \notin ToSet(q) => IsInjective(Append(q, e))
<1> DEFINE p == Append(q, e)
<1>1. /\ p \in Seq(S) /\ DOMAIN p = 1 .. Len(q) + 1 /\ DOMAIN q = 1 .. Len(q)
      /\ \A i \in 1 .. Len(q) : p[i] = q[i]
      /\ p[Len(q) + 1] = e
      /\ Len(q) \in Nat
  BY Grows
<1> HIDE DEF p
<1>2. ToSet(p) = ToSet(q) \cup {e}
  BY <1>1 DEF ToSet
<1>3. IsInjective(q) /\ e \notin ToSet(q) => IsInjective(p)
  BY <1>1 DEF ToSet, IsInjective
<1> QED
  BY <1>1, <1>2, <1>3 DEF p

\* The order in a sequence, and in one that has grown.
LEMMA BeforeAppended ==
  ASSUME NEW S, NEW q \in Seq(S), NEW e \in S
  PROVE  /\ \A m, n : Before(q, m, n) => Before(Append(q, e), m, n)
         /\ \A m \in ToSet(q) : Before(Append(q, e), m, e)
<1> DEFINE p == Append(q, e)
<1>1. /\ DOMAIN p = 1 .. Len(q) + 1 /\ DOMAIN q = 1 .. Len(q)
      /\ \A i \in 1 .. Len(q) : p[i] = q[i]
      /\ p[Len(q) + 1] = e
      /\ Len(q) \in Nat
  BY Grows
<1> HIDE DEF p
<1>2. \A m, n : Before(q, m, n) => Before(p, m, n)
  BY <1>1 DEF Before
<1>3. \A m \in ToSet(q) : Before(p, m, e)
  <2> SUFFICES ASSUME NEW i \in 1 .. Len(q) PROVE Before(p, q[i], e)
    BY <1>1 DEF ToSet
  <2>1. i \in DOMAIN p /\ Len(q) + 1 \in DOMAIN p /\ i < Len(q) + 1 /\ p[i] = q[i]
    BY <1>1
  <2> QED
    BY <1>1, <2>1 DEF Before
<1> QED
  BY <1>2, <1>3 DEF p

LEMMA BeforeStrict ==
  ASSUME NEW S, NEW q \in Seq(S), IsInjective(q), NEW m, NEW n, Before(q, m, n)
  PROVE  m # n /\ ~Before(q, n, m)
<1>1. DOMAIN q = 1 .. Len(q) /\ Len(q) \in Nat
  BY LenProperties
<1> QED
  BY <1>1 DEF Before, IsInjective

-----------------------------------------------------------------------------
(* The queue of handlers.                                                  *)

LEMMA Kinds ==
  ASSUME NEW w \in Waiting
  PROVE  w.at \in {"lpush", "ltrim"} /\ w.message \in Messages
BY DEF Waiting

LEMMA Queue ==
  ASSUME TypeOK
  PROVE  /\ Len(pipe) \in Nat /\ DOMAIN pipe = 1 .. Len(pipe)
         /\ \A i \in 1 .. Len(pipe) :
              /\ pipe[i] \in Waiting /\ pipe[i].message \in Pending
              /\ pipe[i].message \in Messages /\ pipe[i].at \in {"lpush", "ltrim"}
         /\ Len(sent) \in Nat /\ DOMAIN sent = 1 .. Len(sent)
         /\ Len(cache) \in Nat /\ DOMAIN cache = 1 .. Len(cache)
         /\ Len(history) \in Nat /\ DOMAIN history = 1 .. Len(history)
         /\ \A m \in Pending : \E i \in 1 .. Len(pipe) : pipe[i].message = m
<1>1. pipe \in Seq(Waiting) /\ \A i \in 1 .. Len(pipe) : pipe[i] \in Waiting
  BY ElementOfSeq DEF TypeOK
<1>2. /\ Len(pipe) \in Nat /\ DOMAIN pipe = 1 .. Len(pipe)
      /\ Len(sent) \in Nat /\ DOMAIN sent = 1 .. Len(sent)
      /\ Len(cache) \in Nat /\ DOMAIN cache = 1 .. Len(cache)
      /\ Len(history) \in Nat /\ DOMAIN history = 1 .. Len(history)
  BY LenProperties DEF TypeOK
<1> QED
  BY <1>1, <1>2, Kinds DEF Pending, ToSet

\* The three ways in which a handler goes on: w is put behind the others, the oldest
\* handler becomes w and goes behind the others, the oldest handler is through.
Grown(w) ==
  /\ DOMAIN pipe = 1 .. Len(pipe) /\ DOMAIN pipe' = 1 .. Len(pipe) + 1
  /\ \A i \in 1 .. Len(pipe) : pipe'[i] = pipe[i]
  /\ pipe'[Len(pipe) + 1] = w
  /\ Len(pipe) \in Nat
Popped ==
  /\ DOMAIN pipe = 1 .. Len(pipe) /\ DOMAIN pipe' = 1 .. Len(pipe) - 1
  /\ \A i \in 1 .. Len(pipe) - 1 : pipe'[i] = pipe[i + 1]
  /\ Head(pipe) = pipe[1] /\ Head(pipe) \in Waiting
  /\ Len(pipe) \in Nat /\ Len(pipe) > 0
Moved(w) ==
  /\ DOMAIN pipe = 1 .. Len(pipe) /\ DOMAIN pipe' = 1 .. Len(pipe)
  /\ \A i \in 1 .. Len(pipe) - 1 : pipe'[i] = pipe[i + 1]
  /\ pipe'[Len(pipe)] = w
  /\ Head(pipe) = pipe[1] /\ Head(pipe) \in Waiting
  /\ Len(pipe) \in Nat /\ Len(pipe) > 0
PipeTyped == pipe \in Seq(Waiting) /\ Len(pipe) <= MaxPipe

LEMMA AwaitGrows ==
  ASSUME TypeOK, NEW w \in Waiting, Await(pipe, w)
  PROVE  Grown(w) /\ PipeTyped' /\ Pending' = Pending \cup {w.message}
<1>1. /\ pipe' \in Seq(Waiting) /\ Len(pipe') = Len(pipe) + 1
      /\ DOMAIN pipe' = 1 .. Len(pipe) + 1
      /\ \A i \in 1 .. Len(pipe) : pipe'[i] = pipe[i]
      /\ pipe'[Len(pipe) + 1] = w
  BY Grows DEF Await, TypeOK
<1>2. Grown(w) /\ PipeTyped'
  BY <1>1, Queue, ChatAssumption DEF Grown, PipeTyped, Await
<1>3. DOMAIN pipe = 1 .. Len(pipe) /\ Len(pipe) \in Nat
  BY Queue
<1>4. ToSet(pipe') = ToSet(pipe) \cup {w}
  <2>1. \A i \in 1 .. Len(pipe) + 1 : i \in 1 .. Len(pipe) \/ i = Len(pipe) + 1
    BY <1>3
  <2> QED
    BY <1>1, <1>3, <2>1 DEF ToSet
<1>5. Pending' = Pending \cup {w.message}
  BY <1>4 DEF Pending
<1> QED
  BY <1>2, <1>5

LEMMA TailPops ==
  ASSUME TypeOK, pipe # <<>>, pipe' = Tail(pipe)
  PROVE  Popped /\ PipeTyped' /\ Pending' \subseteq Pending
         /\ Pending \subseteq Pending' \cup {Head(pipe).message}
<1>1. /\ Head(pipe) \in Waiting /\ pipe' \in Seq(Waiting) /\ Len(pipe') = Len(pipe) - 1
      /\ \A i \in 1 .. Len(pipe') : pipe'[i] = pipe[i + 1]
  BY HeadTailProperties DEF TypeOK
<1>2. DOMAIN pipe' = 1 .. Len(pipe')
  BY <1>1, LenProperties
<1>3. Len(pipe) > 0
  BY Queue, EmptySeq DEF TypeOK
<1>4. Head(pipe) = pipe[1]
  BY <1>3 DEF TypeOK
<1>5. Popped /\ PipeTyped'
  BY <1>1, <1>2, <1>3, <1>4, Queue, ChatAssumption DEF Popped, PipeTyped, TypeOK
<1>6. Pending' \subseteq Pending
  BY <1>5, Queue DEF Pending, ToSet, Popped
<1>7. ASSUME NEW i \in 1 .. Len(pipe), i # 1 PROVE pipe[i].message \in Pending'
  <2>1. i - 1 \in DOMAIN pipe' /\ pipe'[i - 1] = pipe[i]
    BY <1>5, <1>7 DEF Popped
  <2> QED
    BY <2>1 DEF Pending, ToSet
<1> QED
  BY <1>4, <1>5, <1>6, <1>7, Queue

LEMMA AwaitMoves ==
  ASSUME TypeOK, pipe # <<>>, NEW w \in Waiting, Await(Tail(pipe), w),
         w.message = Head(pipe).message
  PROVE  Moved(w) /\ PipeTyped' /\ Pending' = Pending
<1> DEFINE q == Tail(pipe)
<1>1. /\ Head(pipe) \in Waiting /\ q \in Seq(Waiting) /\ Len(q) = Len(pipe) - 1
      /\ \A i \in 1 .. Len(q) : q[i] = pipe[i + 1]
  BY HeadTailProperties DEF TypeOK
<1>2. /\ pipe' \in Seq(Waiting) /\ Len(pipe') = Len(q) + 1
      /\ DOMAIN pipe' = 1 .. Len(q) + 1
      /\ \A i \in 1 .. Len(q) : pipe'[i] = q[i]
      /\ pipe'[Len(q) + 1] = w
  BY <1>1, Grows DEF Await
<1>3. Len(pipe) > 0
  BY Queue, EmptySeq DEF TypeOK
<1>4. Head(pipe) = pipe[1]
  BY <1>3 DEF TypeOK
<1> HIDE DEF q
<1>5. Len(pipe) \in Nat /\ Len(pipe') = Len(pipe) /\ Len(q) + 1 = Len(pipe)
  BY <1>1, <1>2, Queue
<1>6. Moved(w) /\ PipeTyped'
  BY <1>1, <1>2, <1>3, <1>4, <1>5, Queue, ChatAssumption DEF Moved, PipeTyped, TypeOK
<1>7. Pending' \subseteq Pending
  <2> SUFFICES ASSUME NEW i \in DOMAIN pipe' PROVE pipe'[i].message \in Pending
    BY DEF Pending, ToSet
  <2>1. CASE i = Len(pipe)
    BY <1>4, <1>5, <1>6, <2>1, Queue, <1>3 DEF Moved
  <2>2. CASE i # Len(pipe)
    <3>1. i + 1 \in 1 .. Len(pipe) /\ pipe'[i] = pipe[i + 1]
      BY <1>6, <2>2 DEF Moved
    <3> QED
      BY <3>1, Queue
  <2> QED
    BY <2>1, <2>2
<1>8. ASSUME NEW i \in 1 .. Len(pipe) PROVE pipe[i].message \in Pending'
  <2>1. CASE i = 1
    <3>1. Len(pipe) \in DOMAIN pipe' /\ pipe'[Len(pipe)].message = pipe[i].message
      BY <1>4, <1>6, <2>1 DEF Moved
    <3> QED
      BY <3>1 DEF Pending, ToSet
  <2>2. CASE i # 1
    <3>1. i - 1 \in DOMAIN pipe' /\ pipe'[i - 1] = pipe[i]
      BY <1>6, <2>2 DEF Moved
    <3> QED
      BY <3>1 DEF Pending, ToSet
  <2> QED
    BY <2>1, <2>2
<1> QED
  BY <1>6, <1>7, <1>8, Queue

-----------------------------------------------------------------------------
(* The feed: no step changes the order of what is in it.                   *)

\* A message that is pushed comes behind all others.
LEMMA FeedPushed ==
  ASSUME TypeOK, NEW m \in Messages, sent' = sent,
         Grown([at |-> "lpush", message |-> m]),
         NEW x, NEW y, SentBefore(x, y)'
  PROVE  SentBefore(x, y) \/ (x \in ToSet(sent) \cup Pending /\ y = m)
<1> DEFINE w == [at |-> "lpush", message |-> m]
<1>1. w.at = "lpush" /\ w.message = m
  OBVIOUS
<1>2. Grown(w)
  OBVIOUS
<1> HIDE DEF w
<1>3. \A j \in DOMAIN pipe' : \/ j \in DOMAIN pipe /\ pipe'[j] = pipe[j]
                              \/ j = Len(pipe) + 1 /\ pipe'[j] = w
  BY <1>2 DEF Grown
<1>4. CASE \E k, l \in DOMAIN sent' : k < l /\ sent'[k] = x /\ sent'[l] = y
  BY <1>4 DEF SentBefore
<1>5. CASE x \in ToSet(sent)' /\ y \in Pending'
  <2>1. y \in Pending \/ y = m
    BY <1>1, <1>3, <1>5 DEF Pending, ToSet
  <2> QED
    BY <1>5, <2>1 DEF SentBefore, ToSet
<1>6. ASSUME NEW i \in DOMAIN pipe', NEW j \in DOMAIN pipe', Sooner(i, j)',
             pipe'[i].message = x, pipe'[j].message = y
      PROVE  SentBefore(x, y) \/ (x \in Pending /\ y = m)
  <2>1. CASE i \in DOMAIN pipe /\ j \in DOMAIN pipe
    BY <1>2, <1>6, <2>1 DEF SentBefore, Sooner, Grown
  <2>2. CASE i = Len(pipe) + 1
    BY <1>1, <1>2, <1>6, <2>2 DEF Sooner, Grown
  <2>3. CASE i \in DOMAIN pipe /\ j = Len(pipe) + 1
    BY <1>1, <1>2, <1>6, <2>3, Queue DEF Grown
  <2> QED
    BY <1>3, <2>1, <2>2, <2>3
<1> QED
  BY <1>4, <1>5, <1>6 DEF SentBefore

\* The oldest handler goes ahead of the others.
LEMMA HeadAhead ==
  ASSUME TypeOK, pipe # <<>>, NEW j \in 2 .. Len(pipe),
         Head(pipe).at = "ltrim" \/ pipe[j].at = "lpush"
  PROVE  SentBefore(Head(pipe).message, pipe[j].message)
<1>1. pipe[1] = Head(pipe) /\ 1 \in DOMAIN pipe /\ j \in DOMAIN pipe /\ 1 < j
  BY Queue DEF TypeOK
<1>2. pipe[1].at = "ltrim" \/ pipe[1].at = "lpush"
  BY <1>1, Queue
<1>3. pipe[j].at = "ltrim" \/ pipe[j].at = "lpush"
  BY <1>1, Queue
<1> QED
  BY <1>1, <1>2, <1>3 DEF SentBefore, Sooner

\* A handler that goes on from its lpush to its ltrim keeps its place in the feed.
LEMMA FeedTrimmed ==
  ASSUME TypeOK, pipe # <<>>, sent' = sent, Pending' = Pending, NEW w, Moved(w),
         w.at = "ltrim", w.message = Head(pipe).message, Head(pipe).at = "lpush",
         NEW x, NEW y, SentBefore(x, y)'
  PROVE  SentBefore(x, y)
<1>1. ASSUME NEW j \in DOMAIN pipe'
      PROVE  \/ j \in 1 .. Len(pipe) - 1 /\ j + 1 \in DOMAIN pipe /\ pipe'[j] = pipe[j + 1]
             \/ j = Len(pipe) /\ pipe'[j] = w
  BY DEF Moved
<1>2. CASE \E k, l \in DOMAIN sent' : k < l /\ sent'[k] = x /\ sent'[l] = y
  BY <1>2 DEF SentBefore
<1>3. CASE x \in ToSet(sent)' /\ y \in Pending'
  BY <1>3 DEF SentBefore, ToSet
<1>4. ASSUME NEW i \in DOMAIN pipe', NEW j \in DOMAIN pipe', Sooner(i, j)',
             pipe'[i].message = x, pipe'[j].message = y
      PROVE  SentBefore(x, y)
  <2>1. CASE i \in 1 .. Len(pipe) - 1 /\ j \in 1 .. Len(pipe) - 1
    <3>1. i + 1 \in DOMAIN pipe /\ j + 1 \in DOMAIN pipe
      BY <2>1 DEF Moved
    <3>2. pipe'[i] = pipe[i + 1] /\ pipe'[j] = pipe[j + 1] /\ (i < j => i + 1 < j + 1)
      BY <2>1 DEF Moved
    <3>3. Sooner(i + 1, j + 1)
      BY <1>4, <3>2 DEF Sooner
    <3> QED
      BY <1>4, <3>1, <3>2, <3>3 DEF SentBefore
  <2>2. CASE i = Len(pipe) /\ j \in 1 .. Len(pipe) - 1
    <3>1. pipe'[i] = w /\ pipe'[j] = pipe[j + 1] /\ ~(i < j) /\ j + 1 \in 2 .. Len(pipe)
      BY <1>1, <2>2 DEF Moved
    <3>2. pipe[j + 1].at = "lpush"
      BY <1>4, <3>1 DEF Sooner
    <3> QED
      BY <1>4, <3>1, <3>2, HeadAhead
  <2>3. CASE i \in 1 .. Len(pipe) - 1 /\ j = Len(pipe)
    <3>1. pipe'[i] = pipe[i + 1] /\ pipe'[j] = w /\ i + 1 \in DOMAIN pipe
      BY <1>1, <2>3 DEF Moved
    <3>2. pipe[i + 1].at = "ltrim"
      BY <1>4, <3>1 DEF Sooner
    <3>3. 1 \in DOMAIN pipe /\ pipe[1] = Head(pipe)
      BY DEF Moved
    <3>4. Sooner(i + 1, 1)
      BY <3>2, <3>3 DEF Sooner
    <3> QED
      BY <1>4, <3>1, <3>3, <3>4 DEF SentBefore
  <2>4. CASE i = Len(pipe) /\ j = Len(pipe)
    BY <1>1, <1>4, <2>4 DEF Sooner, Moved
  <2> QED
    BY <1>1, <2>1, <2>2, <2>3, <2>4
<1> QED
  BY <1>2, <1>3, <1>4 DEF SentBefore

\* Nor does the queue when its oldest handler is through.
LEMMA QueuePopped ==
  ASSUME TypeOK, Popped, NEW i \in DOMAIN pipe', NEW j \in DOMAIN pipe', Sooner(i, j)'
  PROVE  SentBefore(pipe'[i].message, pipe'[j].message)
<1>1. i + 1 \in DOMAIN pipe /\ j + 1 \in DOMAIN pipe
  BY DEF Popped
<1>2. pipe'[i] = pipe[i + 1] /\ pipe'[j] = pipe[j + 1] /\ (i < j => i + 1 < j + 1)
  BY DEF Popped
<1>3. Sooner(i + 1, j + 1)
  BY <1>2 DEF Sooner
<1> QED
  BY <1>1, <1>2, <1>3 DEF SentBefore

\* What is broadcast goes from the head of the queue to the end of sent.
LEMMA FeedSent ==
  ASSUME TypeOK, pipe # <<>>, Popped, Pending' \subseteq Pending, Head(pipe).at = "ltrim",
         sent' = Append(sent, Head(pipe).message),
         NEW x, NEW y, SentBefore(x, y)'
  PROVE  SentBefore(x, y)
<1> DEFINE h == Head(pipe).message
<1>1. /\ DOMAIN sent' = 1 .. Len(sent) + 1 /\ DOMAIN sent = 1 .. Len(sent) /\ Len(sent) \in Nat
      /\ \A k \in 1 .. Len(sent) : sent'[k] = sent[k]
      /\ sent'[Len(sent) + 1] = h
      /\ h \in Messages /\ h \in Pending
  <2>1. h \in Messages /\ h \in Pending
    BY Queue DEF Popped
  <2> QED
    BY <2>1, Grows DEF TypeOK
<1>2. CASE \E k, l \in DOMAIN sent' : k < l /\ sent'[k] = x /\ sent'[l] = y
  <2> HIDE DEF h
  <2>1. PICK k, l \in DOMAIN sent' : k < l /\ sent'[k] = x /\ sent'[l] = y
    BY <1>2
  <2>2. k \in DOMAIN sent /\ sent[k] = x
    BY <1>1, <2>1
  <2>3. CASE l \in DOMAIN sent
    BY <1>1, <2>1, <2>2, <2>3 DEF SentBefore
  <2>4. CASE l = Len(sent) + 1
    BY <1>1, <2>1, <2>2, <2>4 DEF SentBefore, ToSet
  <2> QED
    BY <1>1, <2>3, <2>4
<1>3. CASE x \in ToSet(sent)' /\ y \in Pending'
  <2>1. CASE x \in ToSet(sent)
    BY <1>3, <2>1 DEF SentBefore
  <2>2. CASE x = h
    <3>1. PICK j \in DOMAIN pipe' : pipe'[j].message = y
      BY <1>3 DEF Pending, ToSet
    <3>2. j + 1 \in 2 .. Len(pipe) /\ pipe'[j] = pipe[j + 1]
      BY DEF Popped
    <3> QED
      BY <2>2, <3>1, <3>2, HeadAhead
  <2>3. x \in ToSet(sent) \cup {h}
    <3> HIDE DEF h
    <3> QED
      BY <1>1, <1>3 DEF ToSet
  <2> QED
    BY <2>1, <2>2, <2>3
<1> QED
  BY <1>2, <1>3, QueuePopped DEF SentBefore

\* What fails leaves the feed.
LEMMA FeedDropped ==
  ASSUME TypeOK, Popped, Pending' \subseteq Pending, sent' = sent,
         NEW x, NEW y, SentBefore(x, y)'
  PROVE  SentBefore(x, y)
<1>1. CASE \E k, l \in DOMAIN sent' : k < l /\ sent'[k] = x /\ sent'[l] = y
  BY <1>1 DEF SentBefore
<1>2. CASE x \in ToSet(sent)' /\ y \in Pending'
  BY <1>2 DEF SentBefore, ToSet
<1> QED
  BY <1>1, <1>2, QueuePopped DEF SentBefore

-----------------------------------------------------------------------------
(* The list in Redis.                                                      *)

\* How many messages wait for their ltrim.
Counted == IsFiniteSet(Untrimmed) /\ Cardinality(Untrimmed) \in Nat
LEMMA CountFinite == TypeOK => Counted
<1> USE DEF Counted
<1> SUFFICES ASSUME TypeOK PROVE Counted
  OBVIOUS
<1>1. Untrimmed \subseteq 1 .. Len(pipe) /\ IsFiniteSet(1 .. Len(pipe))
  BY Queue, FS_Interval DEF Untrimmed
<1> QED
  BY <1>1, FS_Subset, FS_CardinalityType

LEMMA CountGrown ==
  ASSUME TypeOK, NEW w, Grown(w)
  PROVE  Cardinality(Untrimmed') = Cardinality(Untrimmed) + IF w.at = "lpush" THEN 1 ELSE 0
<1>1. CASE w.at = "lpush"
  <2>1. Untrimmed' = Untrimmed \cup {Len(pipe) + 1} /\ Len(pipe) + 1 \notin Untrimmed
    BY <1>1 DEF Untrimmed, Grown
  <2> QED
    BY <1>1, <2>1, CountFinite, FS_AddElement DEF Counted
<1>2. CASE w.at # "lpush"
  <2>1. Untrimmed' = Untrimmed
    BY <1>2 DEF Untrimmed, Grown
  <2> QED
    BY <1>2, <2>1, CountFinite DEF Counted
<1> QED
  BY <1>1, <1>2

LEMMA CountShifted ==
  ASSUME TypeOK, Head(pipe).at # "lpush",
         \/ Popped
         \/ \E w : Moved(w) /\ w.at # "lpush"
  PROVE  Cardinality(Untrimmed') = Cardinality(Untrimmed)
<1>1. /\ \A i \in Untrimmed' : i + 1 \in Untrimmed
      /\ \A j \in Untrimmed : j - 1 \in Untrimmed'
      /\ Untrimmed \subseteq Nat /\ Untrimmed' \subseteq Nat
  <2>1. CASE Popped
    BY <2>1 DEF Popped, Untrimmed
  <2>2. ASSUME NEW w, Moved(w), w.at # "lpush"
        PROVE  /\ \A i \in Untrimmed' : i + 1 \in Untrimmed
               /\ \A j \in Untrimmed : j - 1 \in Untrimmed'
               /\ Untrimmed \subseteq Nat /\ Untrimmed' \subseteq Nat
    BY <2>2 DEF Moved, Untrimmed
  <2> QED
    BY <2>1, <2>2
<1> DEFINE f == [j \in Untrimmed |-> j - 1]
<1>2. f \in Bijection(Untrimmed, Untrimmed')
  <2>1. f \in [Untrimmed -> Untrimmed']
    BY <1>1
  <2>2. \A i, j \in Untrimmed : f[i] = f[j] => i = j
    BY <1>1
  <2>3. \A i \in Untrimmed' : \E j \in Untrimmed : f[j] = i
    <3> TAKE i \in Untrimmed'
    <3>1. i + 1 \in Untrimmed /\ f[i + 1] = i
      BY <1>1
    <3> QED
      BY <3>1
  <2> QED
    BY <2>1, <2>2, <2>3 DEF Bijection, Injection, Surjection, IsInjective
<1> QED
  BY <1>2, CountFinite, FS_Bijection DEF Counted, ExistsBijection

\* ltrim keeps the beginning of the list, which holds the newest.
LEMMA TrimmedList ==
  ASSUME NEW l \in Seq(Messages)
  PROVE  /\ Trimmed(l) \in Seq(Messages)
         /\ Len(Trimmed(l)) = IF Len(l) <= CacheSize THEN Len(l) ELSE CacheSize
         /\ DOMAIN Trimmed(l) = 1 .. Len(Trimmed(l))
         /\ \A i \in DOMAIN Trimmed(l) : i \in DOMAIN l /\ Trimmed(l)[i] = l[i]
<1> DEFINE t == SubSeq(l, 1, CacheSize)
<1>1. /\ Len(l) \in Nat /\ DOMAIN l = 1 .. Len(l) /\ \A i \in 1 .. Len(l) : l[i] \in Messages
      /\ CacheSize \in Nat \ {0}
  BY LenProperties, ElementOfSeq, ChatAssumption
<1>2. CASE Len(l) <= CacheSize
  BY <1>1, <1>2 DEF Trimmed
<1>3. CASE ~(Len(l) <= CacheSize)
  <2>1. \A i \in 1 .. CacheSize : l[i] \in Messages
    BY <1>1, <1>3
  <2>2. /\ t \in Seq(Messages)
        /\ Len(t) = IF 1 <= CacheSize THEN CacheSize - 1 + 1 ELSE 0
        /\ \A i \in 1 .. CacheSize - 1 + 1 : t[i] = l[1 + i - 1]
    BY <1>1, <2>1, SubSeqProperties
  <2> HIDE DEF t
  <2>3. Len(t) = CacheSize
    BY <1>1, <2>2
  <2>4. \A i \in 1 .. CacheSize : t[i] = l[i]
    <3> TAKE i \in 1 .. CacheSize
    <3>1. i \in 1 .. CacheSize - 1 + 1 /\ 1 + i - 1 = i
      BY <1>1
    <3> QED
      BY <2>2, <3>1
  <2>5. DOMAIN t = 1 .. CacheSize
    BY <2>2, <2>3, LenProperties
  <2>6. Trimmed(l) = t
    BY <1>3 DEF Trimmed, t
  <2> QED
    BY <1>1, <1>3, <2>2, <2>3, <2>4, <2>5, <2>6
<1> QED
  BY <1>2, <1>3

\* lpush puts a message in front.
LEMMA PushedList ==
  ASSUME NEW l \in Seq(Messages), NEW m \in Messages
  PROVE  /\ <<m>> \o l \in Seq(Messages)
         /\ Len(<<m>> \o l) = Len(l) + 1 /\ Len(l) \in Nat
         /\ DOMAIN (<<m>> \o l) = 1 .. Len(l) + 1 /\ DOMAIN l = 1 .. Len(l)
         /\ (<<m>> \o l)[1] = m
         /\ \A i \in 1 .. Len(l) : (<<m>> \o l)[i + 1] = l[i]
<1>1. <<m>> \in Seq(Messages) /\ Len(<<m>>) = 1 /\ <<m>>[1] = m
  OBVIOUS
<1>2. Len(l) \in Nat /\ DOMAIN l = 1 .. Len(l)
  BY LenProperties
<1> DEFINE p == <<m>> \o l
<1>3. /\ p \in Seq(Messages) /\ Len(p) = 1 + Len(l)
      /\ \A i \in 1 .. 1 + Len(l) : p[i] = IF i <= 1 THEN m ELSE l[i - 1]
  BY <1>1, ConcatProperties
<1> HIDE DEF p
<1>4. p[1] = m /\ \A i \in 1 .. Len(l) : p[i + 1] = l[i]
  BY <1>2, <1>3
<1>5. DOMAIN p = 1 .. Len(l) + 1
  BY <1>2, <1>3, LenProperties
<1> QED
  BY <1>2, <1>3, <1>4, <1>5 DEF p

-----------------------------------------------------------------------------
(* Initially, and each step.                                               *)

LEMMA IInvInit == Init => IInv
<1> SUFFICES ASSUME Init PROVE IInv
  OBVIOUS
<1> DEFINE none == <<>>
<1>1. /\ none \in Seq(Messages) /\ Len(none) = 0 /\ DOMAIN none = {} /\ ToSet(none) = {}
      /\ IsInjective(none) /\ none \in Seq(Waiting)
  BY EmptySeq DEF ToSet, IsInjective
<1>2. history = none /\ sent = none /\ cache = none /\ pipe = none
  BY DEF Init
<1> HIDE DEF none
<1>3. TypeOK
  <2>1. pipe \in Seq(Waiting) /\ Len(pipe) <= MaxPipe
    BY <1>1, <1>2, ChatAssumption
  <2>2. history \in Seq(Messages) /\ sent \in Seq(Messages) /\ cache \in Seq(Messages)
    BY <1>1, <1>2
  <2> QED
    BY <2>1, <2>2 DEF Init, TypeOK
<1>4. Pending = {} /\ Untrimmed = {}
  BY <1>1, <1>2 DEF Pending, Untrimmed
<1>5. CapKept
  BY <1>1, <1>2, <1>4, FS_EmptySet, ChatAssumption DEF CapKept
<1>6. HistorySound /\ Exclusive /\ NothingMissed
  BY <1>1, <1>2, <1>4 DEF Init, HistorySound, Exclusive, NothingMissed
<1>7. Pushes(none)
  BY <1>1, <1>2, <1>4
  DEF Init, Pushes, PushedAs, FeedFollows, CacheEnds, PushedInOrder, SentBefore
<1> QED
  BY <1>1, <1>3, <1>5, <1>6, <1>7 DEF IInv

\* A step that leaves the queue and what is sent alone leaves the feed alone.
LEMMA FeedStays ==
  ASSUME pipe' = pipe, sent' = sent
  PROVE  /\ Pending' = Pending /\ Untrimmed' = Untrimmed
         /\ \A x, y : SentBefore(x, y)' => SentBefore(x, y)
BY DEF Pending, Untrimmed, SentBefore, Sooner

\* A step that pushes nothing: what it must not change.
LEMMA NothingPushed ==
  ASSUME NEW q, Pushes(q),
         \A x, y : SentBefore(x, y)' => SentBefore(x, y),
         cache' = cache \/ CacheEnds(q)',
         history' = history, overlap' = overlap, lost \subseteq lost',
         creating' \subseteq creating,
         ToSet(sent)' \cup Pending' \subseteq ToSet(sent) \cup Pending,
         ToSet(sent) \cup Pending \cup lost \subseteq ToSet(sent)' \cup Pending' \cup lost'
  PROVE  Pushes(q)'
<1>1. PushedAs(q)'
  BY DEF Pushes, PushedAs
<1>2. FeedFollows(q)'
  BY DEF Pushes, FeedFollows
<1>3. CacheEnds(q)' /\ PushedInOrder(q)'
  BY DEF Pushes, CacheEnds, PushedInOrder
<1> QED
  BY <1>1, <1>2, <1>3 DEF Pushes

\* The steps of the clients, and of who takes messages back.
LEMMA PageStep ==
  ASSUME IInv,
         \/ \E c \in Clients : ChatJoin(c) \/ Load(c) \/ ChatLeave(c)
         \/ \E m \in Messages : SoftDelete(m)
  PROVE  IInv'
<1>1. PICK q \in Seq(Messages) : Pushes(q)
  BY DEF IInv
<1>2. /\ history' = history /\ creating' = creating /\ cache' = cache /\ pipe' = pipe /\ cut' = cut
      /\ sent' = sent /\ overlap' = overlap /\ lost' = lost
  BY DEF ChatJoin, Load, ChatLeave, SoftDelete, redis
<1>3. Pending' = Pending /\ Untrimmed' = Untrimmed /\ Pushes(q)'
  BY <1>1, <1>2, FeedStays, NothingPushed
<1>4. ToSet(history) \subseteq Messages
  BY ElementOfSeq, LenProperties DEF IInv, TypeOK, ToSet
<1>5. Page \subseteq ToSet(history)
  BY DEF Page, ToSet
<1>6. TypeOK'
  <2>1. deleted' \subseteq ToSet(history)
    BY DEF ChatJoin, Load, ChatLeave, SoftDelete, IInv, TypeOK
  <2>2. /\ loaded' \subseteq inRoom' /\ inRoom' \subseteq Clients
        /\ shown' \in [Clients -> SUBSET Messages]
    BY <1>4, <1>5 DEF ChatJoin, Load, ChatLeave, SoftDelete, pages, IInv, TypeOK
  <2> QED
    BY <1>2, <2>1, <2>2 DEF IInv, TypeOK
<1>7. HistorySound' /\ Exclusive' /\ CapKept'
  BY <1>2, <1>3 DEF IInv, HistorySound, Exclusive, CapKept
<1>8. NothingMissed'
  <2> SUFFICES ASSUME Len(history) <= Limit, NEW d \in loaded',
                      NEW m \in ToSet(history) \ (deleted' \cup InFlight \cup lost)
               PROVE  m \in shown'[d]
    BY <1>2, <1>3 DEF NothingMissed, InFlight
  <2>1. deleted \subseteq deleted' /\ d \in Clients
    BY <1>6 DEF ChatJoin, Load, ChatLeave, SoftDelete, TypeOK
  <2>2. CASE d \in loaded /\ shown'[d] = shown[d]
    BY <2>1, <2>2 DEF IInv, NothingMissed
  <2>3. CASE Load(d)
    <3>1. m \in Page
      <4>1. PICK i \in DOMAIN history : history[i] = m
        BY DEF ToSet
      <4>2. i \in 1 .. Len(history) /\ Len(history) \in Nat /\ Limit \in Nat
        BY Queue, ChatAssumption DEF IInv
      <4> DEFINE K(n) == {k \in 1 .. n : history[k] \notin deleted}
      <4>3. Cardinality(K(i)) <= i /\ Cardinality(K(i)) \in Nat
        <5>1. K(i) \subseteq 1 .. i /\ IsFiniteSet(1 .. i) /\ Cardinality(1 .. i) = i
          BY <4>2, FS_Interval
        <5> HIDE DEF K
        <5> QED
          BY <5>1, FS_Subset, FS_CardinalityType
      <4>4. Page = {history[j] : j \in {n \in DOMAIN history :
                                       history[n] \notin deleted /\ Cardinality(K(n)) <= Limit}}
        BY DEF Page
      <4> HIDE DEF K
      <4>5. Cardinality(K(i)) <= Limit /\ history[i] \notin deleted
        BY <2>1, <4>1, <4>2, <4>3
      <4> QED
        BY <4>1, <4>4, <4>5
    <3> QED
      BY <2>1, <2>3, <3>1 DEF Load, IInv, TypeOK
  <2>4. \/ d \in loaded /\ shown'[d] = shown[d]
        \/ Load(d)
    BY <2>1 DEF ChatJoin, Load, ChatLeave, SoftDelete, pages, IInv, TypeOK
  <2> QED
    BY <2>2, <2>3, <2>4
<1> QED
  BY <1>1, <1>3, <1>6, <1>7, <1>8 DEF IInv

LEMMA CreateStep ==
  ASSUME IInv, NEW m \in Messages, Create(m)
  PROVE  IInv'
<1>1. PICK q \in Seq(Messages) : Pushes(q)
  BY DEF IInv
<1>2. /\ m \notin ToSet(history) /\ history' = Append(history, m)
      /\ creating' = creating \cup {m} /\ overlap' = overlap \cup (creating \X {m})
      /\ deleted' = deleted /\ cache' = cache /\ pipe' = pipe /\ cut' = cut
      /\ inRoom' = inRoom /\ loaded' = loaded /\ shown' = shown /\ sent' = sent /\ lost' = lost
  BY DEF Create, redis, pages
<1>3. /\ DOMAIN history' = 1 .. Len(history) + 1 /\ DOMAIN history = 1 .. Len(history)
      /\ \A i \in 1 .. Len(history) : history'[i] = history[i]
      /\ history'[Len(history) + 1] = m
      /\ Len(history) \in Nat /\ Len(history') = Len(history) + 1
  BY <1>2, Grows DEF IInv, TypeOK
<1>4. /\ history' \in Seq(Messages) /\ ToSet(history') = ToSet(history) \cup {m}
      /\ IsInjective(history')
  BY <1>2, AppendedSeq DEF IInv, TypeOK, HistorySound
<1>5. Pending' = Pending /\ Untrimmed' = Untrimmed /\ FeedFollows(q)'
  BY <1>1, <1>2, FeedStays DEF Pushes, FeedFollows
<1>6. TypeOK'
  <2>1. creating \X {m} \subseteq Messages \X Messages
    BY ElementOfSeq, LenProperties DEF IInv, TypeOK, ToSet
  <2> QED
    BY <1>2, <1>4, <2>1 DEF IInv, TypeOK
<1>7. HistorySound'
  <2>1. \A i \in DOMAIN history : history[i] \in ToSet(history)
    BY DEF ToSet
  <2>2. ASSUME NEW i \in DOMAIN history', NEW j \in DOMAIN history', i < j,
               history'[i] \in creating'
        PROVE  <<history'[i], history'[j]>> \in overlap'
    <3>1. i \in DOMAIN history /\ history'[i] = history[i] /\ history[i] \in creating
      BY <1>2, <1>3, <2>1, <2>2
    <3>2. CASE j \in DOMAIN history
      BY <1>2, <1>3, <2>2, <3>1, <3>2 DEF IInv, HistorySound
    <3>3. CASE j = Len(history) + 1
      BY <1>2, <1>3, <3>1, <3>3
    <3> QED
      BY <1>3, <3>2, <3>3
  <2> QED
    BY <1>2, <1>4, <2>2 DEF IInv, HistorySound
<1>8. Exclusive' /\ CapKept'
  BY <1>2, <1>4, <1>5 DEF IInv, Exclusive, CapKept
<1>9. NothingMissed'
  BY <1>2, <1>3, <1>4, <1>5, ChatAssumption DEF IInv, NothingMissed, InFlight
<1>10. PushedAs(q)' /\ CacheEnds(q)'
  BY <1>1, <1>2, <1>4, <1>5 DEF Pushes, PushedAs, CacheEnds
<1>11. PushedInOrder(q)'
  <2>1. m \notin ToSet(q)
    BY <1>1, <1>2 DEF Pushes, PushedAs
  <2> QED
    BY <1>1, <1>2, <1>3, <2>1 DEF Pushes, PushedInOrder
<1> QED
  BY <1>1, <1>5, <1>6, <1>7, <1>8, <1>9, <1>10, <1>11 DEF IInv, Pushes

LEMMA PushStep ==
  ASSUME IInv, NEW m \in Messages, Push(m)
  PROVE  IInv'
<1> DEFINE w == [at |-> "lpush", message |-> m]
<1>1. PICK q \in Seq(Messages) : Pushes(q)
  BY DEF IInv
<1> DEFINE p == Append(q, m)
<1>2. /\ m \in creating /\ creating' = creating \ {m} /\ cache' = <<m>> \o cache
      /\ history' = history /\ deleted' = deleted /\ sent' = sent /\ overlap' = overlap
      /\ lost' = lost /\ cut' = cut /\ inRoom' = inRoom /\ loaded' = loaded /\ shown' = shown
  BY DEF Push, pages
<1>3. w \in Waiting /\ w.at = "lpush" /\ w.message = m
  BY DEF Waiting
<1>4. Grown(w) /\ PipeTyped' /\ Pending' = Pending \cup {m}
  BY <1>3, AwaitGrows DEF IInv, Push
<1>5. /\ cache' \in Seq(Messages) /\ Len(cache') = Len(cache) + 1 /\ Len(cache) \in Nat
      /\ DOMAIN cache' = 1 .. Len(cache) + 1 /\ DOMAIN cache = 1 .. Len(cache)
      /\ cache'[1] = m /\ \A i \in 1 .. Len(cache) : cache'[i + 1] = cache[i]
  BY <1>2, PushedList DEF IInv, TypeOK
<1>6. m \notin ToSet(q) /\ m \notin lost /\ m \in ToSet(history)
  BY <1>1, <1>2 DEF IInv, HistorySound, TypeOK, Pushes, PushedAs
<1>7. /\ p \in Seq(Messages) /\ ToSet(p) = ToSet(q) \cup {m} /\ IsInjective(p)
      /\ DOMAIN q = 1 .. Len(q) /\ Len(q) \in Nat /\ Len(p) = Len(q) + 1
      /\ \A i \in 1 .. Len(q) : p[i] = q[i]
      /\ p[Len(q) + 1] = m
  BY <1>1, <1>6, AppendedSeq, Grows DEF Pushes, PushedAs
<1>8. /\ \A x, y : Before(q, x, y) => Before(p, x, y)
      /\ \A x \in ToSet(q) : Before(p, x, m)
  BY BeforeAppended
<1>9. TypeOK'
  BY <1>2, <1>4, <1>5 DEF IInv, TypeOK, PipeTyped
<1>10. HistorySound' /\ Exclusive'
  BY <1>2, <1>4, <1>6 DEF IInv, HistorySound, Exclusive
<1>11. CapKept'
  <2>1. Cardinality(Untrimmed') = Cardinality(Untrimmed) + 1 /\ Cardinality(Untrimmed) \in Nat
    BY <1>3, <1>4, CountGrown, CountFinite DEF IInv, Counted
  <2> QED
    BY <1>2, <1>5, <2>1, ChatAssumption DEF IInv, CapKept
<1>12. NothingMissed'
  BY <1>2, <1>4 DEF IInv, NothingMissed, InFlight
<1>13. FeedFollows(p)'
  <2> SUFFICES ASSUME NEW x \in Messages, NEW y \in Messages, SentBefore(x, y)'
               PROVE  Before(p, x, y)
    BY DEF FeedFollows
  <2>1. SentBefore(x, y) \/ (x \in ToSet(sent) \cup Pending /\ y = m)
    BY <1>2, <1>4, FeedPushed DEF IInv
  <2> QED
    BY <1>1, <1>8, <2>1 DEF Pushes, PushedAs, FeedFollows
<1> HIDE DEF p, w
<1>14. PushedAs(p)'
  BY <1>1, <1>2, <1>4, <1>6, <1>7 DEF Pushes, PushedAs
<1>15. CacheEnds(p)'
  <2>1. /\ Len(cache) <= Len(q) /\ (Len(cache) >= CacheSize \/ Len(cache) = Len(q))
        /\ \A i \in 1 .. Len(cache) : cache[i] = q[Len(q) + 1 - i]
    BY <1>1, <1>5 DEF Pushes, CacheEnds
  <2>2. /\ Len(cache) \in Nat /\ Len(q) \in Nat /\ Len(p) = Len(q) + 1
        /\ Len(cache) <= Len(q) /\ (Len(cache) >= CacheSize \/ Len(cache) = Len(q))
    BY <1>5, <1>7, <2>1
  <2>3. ASSUME NEW i \in DOMAIN cache' PROVE cache'[i] = p[Len(p) + 1 - i]
    <3>1. CASE i = 1
      <4>1. Len(p) + 1 - i = Len(q) + 1
        BY <1>7, <3>1
      <4> QED
        BY <1>5, <1>7, <3>1, <4>1
    <3>2. CASE i # 1
      <4>1. i - 1 \in 1 .. Len(cache) /\ cache'[i] = cache[i - 1]
        <5>1. i - 1 \in 1 .. Len(cache) /\ (i - 1) + 1 = i
          BY <1>5, <3>2
        <5> QED
          BY <1>5, <5>1
      <4>2. /\ Len(q) + 1 - (i - 1) = Len(p) + 1 - i
            /\ Len(q) + 1 - (i - 1) \in 1 .. Len(q)
        <5>1. i \in Nat /\ i - 1 \in 1 .. Len(cache)
          BY <1>5, <4>1
        <5> QED
          BY <2>2, <5>1
      <4> QED
        BY <1>7, <2>1, <4>1, <4>2
    <3> QED
      BY <3>1, <3>2
  <2>4. /\ Len(cache) + 1 <= Len(p)
        /\ Len(cache) + 1 >= CacheSize \/ Len(cache) + 1 = Len(p)
    BY <2>2, ChatAssumption
  <2> QED
    BY <1>5, <2>3, <2>4 DEF CacheEnds
<1>16. PushedInOrder(p)'
  <2> SUFFICES ASSUME NEW i \in DOMAIN history, NEW j \in DOMAIN history,
                      i < j, history[j] \in ToSet(p)
               PROVE  \/ <<history[i], history[j]>> \in overlap
                      \/ history[i] \in lost
                      \/ Before(p, history[i], history[j])
    BY <1>2 DEF PushedInOrder
  <2>1. CASE history[j] \in ToSet(q)
    BY <1>1, <1>8, <2>1 DEF Pushes, PushedInOrder
  <2>2. CASE history[j] = m
    <3>1. history[i] \in creating \cup Pending \cup ToSet(sent) \cup lost
      BY DEF IInv, Exclusive, ToSet
    <3>2. CASE history[i] \in creating
      BY <3>2 DEF IInv, HistorySound
    <3>3. CASE history[i] \in Pending \cup ToSet(sent)
      BY <1>1, <1>8, <2>2, <3>3 DEF Pushes, PushedAs
    <3> QED
      BY <3>1, <3>2, <3>3
  <2> QED
    BY <1>7, <2>1, <2>2
<1> QED
  BY <1>7, <1>9, <1>10, <1>11, <1>12, <1>13, <1>14, <1>15, <1>16 DEF IInv, Pushes

LEMMA PushFailsStep ==
  ASSUME IInv, NEW m \in Messages, PushFails(m)
  PROVE  IInv'
<1>1. PICK q \in Seq(Messages) : Pushes(q)
  BY DEF IInv
<1>2. /\ m \in creating /\ creating' = creating \ {m} /\ lost' = lost \cup {m}
      /\ history' = history /\ deleted' = deleted /\ sent' = sent /\ overlap' = overlap
      /\ cache' = cache /\ pipe' = pipe /\ cut' = cut
      /\ inRoom' = inRoom /\ loaded' = loaded /\ shown' = shown
  BY DEF PushFails, redis, pages
<1>3. Pending' = Pending /\ Untrimmed' = Untrimmed /\ Pushes(q)'
  BY <1>1, <1>2, FeedStays, NothingPushed
<1>4. m \in ToSet(history) /\ m \notin ToSet(sent) \cup Pending
  BY <1>1, <1>2 DEF IInv, TypeOK, Pushes, PushedAs
<1>5. TypeOK' /\ CapKept'
  BY <1>2, <1>3 DEF IInv, TypeOK, CapKept
<1>6. HistorySound' /\ Exclusive' /\ NothingMissed'
  BY <1>2, <1>3, <1>4 DEF IInv, HistorySound, Exclusive, NothingMissed, InFlight
<1> QED
  BY <1>3, <1>5, <1>6 DEF IInv

LEMMA TrimStep ==
  ASSUME IInv, Trim
  PROVE  IInv'
<1> DEFINE w == [at |-> "ltrim", message |-> Head(pipe).message]
<1>1. PICK q \in Seq(Messages) : Pushes(q)
  BY DEF IInv
<1>2. /\ pipe # <<>> /\ Head(pipe).at = "lpush" /\ cache' = Trimmed(cache) /\ cut' = FALSE
      /\ history' = history /\ deleted' = deleted /\ creating' = creating /\ sent' = sent
      /\ overlap' = overlap /\ lost' = lost
      /\ inRoom' = inRoom /\ loaded' = loaded /\ shown' = shown
  BY DEF Trim, Answered, pages
<1>3. w \in Waiting /\ w.at = "ltrim" /\ w.message = Head(pipe).message
  BY <1>2, HeadTailProperties DEF IInv, TypeOK, Waiting
<1>4. Moved(w) /\ PipeTyped' /\ Pending' = Pending
  BY <1>2, <1>3, AwaitMoves DEF IInv, Trim
<1> HIDE DEF w
<1>5. \A x, y : SentBefore(x, y)' => SentBefore(x, y)
  BY <1>2, <1>3, <1>4, FeedTrimmed DEF IInv
<1>6. /\ cache' \in Seq(Messages) /\ DOMAIN cache' = 1 .. Len(cache')
      /\ Len(cache') = IF Len(cache) <= CacheSize THEN Len(cache) ELSE CacheSize
      /\ \A i \in DOMAIN cache' : i \in DOMAIN cache /\ cache'[i] = cache[i]
      /\ Len(cache) \in Nat
  BY <1>2, TrimmedList, Queue DEF IInv, TypeOK
<1>7. CacheEnds(q)'
  BY <1>1, <1>6, LenProperties, ChatAssumption DEF Pushes, CacheEnds
<1>8. Pushes(q)'
  BY <1>1, <1>2, <1>4, <1>5, <1>7, NothingPushed
<1>9. TypeOK'
  BY <1>2, <1>4, <1>6 DEF IInv, TypeOK, PipeTyped
<1>10. HistorySound' /\ Exclusive' /\ NothingMissed'
  BY <1>2, <1>4 DEF IInv, HistorySound, Exclusive, NothingMissed, InFlight
<1>11. CapKept'
  <2>1. Counted'
    BY <1>9, CountFinite, PTL
  <2>2. Len(cache') <= CacheSize
    BY <1>6, ChatAssumption
  <2> QED
    BY <1>6, <2>1, <2>2, ChatAssumption DEF CapKept, Counted
<1> QED
  BY <1>8, <1>9, <1>10, <1>11 DEF IInv

\* The oldest handler is the only one of its message, which has not been broadcast.
LEMMA HeadOnce ==
  ASSUME TypeOK, pipe # <<>>, NEW q \in Seq(Messages), Pushes(q)
  PROVE  /\ Head(pipe).message \notin ToSet(sent)
         /\ \A j \in 2 .. Len(pipe) : pipe[j].message # Head(pipe).message
         /\ Head(pipe).message \in Messages /\ Head(pipe).message \in Pending
<1> DEFINE h == Head(pipe)
<1>1. 1 \in DOMAIN pipe /\ h = pipe[1]
  BY Queue, EmptySeq DEF TypeOK
<1>2. h.message \in Messages /\ h.message \in Pending /\ h.at \in {"lpush", "ltrim"}
  BY <1>1, Queue
<1>3. \A x, y \in Messages : SentBefore(x, y) => x # y
  BY BeforeStrict DEF Pushes, PushedAs, FeedFollows
<1>4. h.message \notin ToSet(sent)
  BY <1>2, <1>3 DEF SentBefore
<1>5. ASSUME NEW j \in 2 .. Len(pipe) PROVE pipe[j].message # h.message
  <2>1. /\ j \in DOMAIN pipe /\ pipe[j].message \in Messages
        /\ pipe[j].at \in {"lpush", "ltrim"}
    BY Queue
  <2>2. CASE h.at = "ltrim" \/ pipe[j].at = "lpush"
    BY <1>2, <1>3, <2>1, <2>2, HeadAhead
  <2>3. CASE h.at = "lpush" /\ pipe[j].at = "ltrim"
    BY <1>1, <1>2, <1>3, <2>1, <2>3 DEF SentBefore, Sooner
  <2> QED
    BY <1>2, <2>1, <2>2, <2>3
<1> QED
  BY <1>2, <1>4, <1>5

LEMMA HeadGone ==
  ASSUME TypeOK, pipe # <<>>, NEW q \in Seq(Messages), Pushes(q), Popped
  PROVE  Head(pipe).message \notin Pending'
<1>1. ASSUME NEW i \in DOMAIN pipe' PROVE pipe'[i].message # Head(pipe).message
  <2>1. i + 1 \in 2 .. Len(pipe) /\ pipe'[i] = pipe[i + 1]
    BY DEF Popped
  <2> QED
    BY <2>1, HeadOnce
<1> QED
  BY <1>1 DEF Pending, ToSet

LEMMA SendMessageStep ==
  ASSUME IInv, SendMessage
  PROVE  IInv'
<1> DEFINE h == Head(pipe)
<1>1. PICK q \in Seq(Messages) : Pushes(q)
  BY DEF IInv
<1>2. /\ pipe # <<>> /\ h.at = "ltrim" /\ sent' = Append(sent, h.message)
      /\ history' = history /\ deleted' = deleted /\ creating' = creating /\ cache' = cache
      /\ overlap' = overlap /\ lost' = lost /\ cut' = cut /\ inRoom' = inRoom /\ loaded' = loaded
      /\ shown' = [c \in Clients |-> IF c \in inRoom THEN shown[c] \cup {h.message} ELSE shown[c]]
  BY DEF SendMessage, Answered, Broadcast
<1>3. /\ Popped /\ PipeTyped' /\ Pending' \subseteq Pending
      /\ Pending \subseteq Pending' \cup {h.message}
  BY <1>2, TailPops DEF IInv, SendMessage
<1>4. h.message \in Messages /\ h.message \in Pending
  BY <1>1, <1>2, HeadOnce DEF IInv
<1>5. \A x, y : SentBefore(x, y)' => SentBefore(x, y)
  BY <1>2, <1>3, FeedSent DEF IInv
<1>6. Cardinality(Untrimmed') = Cardinality(Untrimmed)
  BY <1>2, <1>3, CountShifted DEF IInv
<1> HIDE DEF h
<1>7. sent' \in Seq(Messages) /\ ToSet(sent') = ToSet(sent) \cup {h.message}
  BY <1>2, <1>4, AppendedSeq DEF IInv, TypeOK
<1>8. Pushes(q)'
  BY <1>1, <1>2, <1>3, <1>4, <1>5, <1>7, NothingPushed
<1>9. TypeOK'
  <2>1. shown' \in [Clients -> SUBSET Messages]
    BY <1>2, <1>4 DEF IInv, TypeOK
  <2> QED
    BY <1>2, <1>3, <1>7, <2>1 DEF IInv, TypeOK, PipeTyped
<1>10. HistorySound' /\ Exclusive' /\ CapKept'
  BY <1>2, <1>3, <1>4, <1>6, <1>7 DEF IInv, HistorySound, Exclusive, CapKept
<1>11. NothingMissed'
  <2> SUFFICES ASSUME Len(history) <= Limit, NEW c \in loaded,
                      NEW m \in ToSet(history) \ (deleted \cup creating \cup Pending' \cup lost)
               PROVE  m \in shown'[c]
    BY <1>2 DEF NothingMissed, InFlight
  <2>1. c \in inRoom /\ c \in Clients
    BY DEF IInv, TypeOK
  <2>2. m = h.message \/ m \notin Pending
    BY <1>3
  <2>3. m \notin Pending => m \in shown[c]
    BY DEF IInv, NothingMissed, InFlight
  <2> QED
    BY <1>2, <2>1, <2>2, <2>3
<1> QED
  BY <1>8, <1>9, <1>10, <1>11 DEF IInv

LEMMA TrimFailsStep ==
  ASSUME IInv, TrimFails
  PROVE  IInv'
<1> DEFINE h == Head(pipe)
<1>1. PICK q \in Seq(Messages) : Pushes(q)
  BY DEF IInv
<1>2. /\ pipe # <<>> /\ lost' = lost \cup {h.message} /\ cut' = TRUE
      /\ history' = history /\ deleted' = deleted /\ creating' = creating /\ cache' = cache
      /\ sent' = sent /\ overlap' = overlap
      /\ inRoom' = inRoom /\ loaded' = loaded /\ shown' = shown
  BY DEF TrimFails, Answered, pages
<1>3. /\ Popped /\ PipeTyped' /\ Pending' \subseteq Pending
      /\ Pending \subseteq Pending' \cup {h.message}
  BY <1>2, TailPops DEF IInv, TrimFails
<1>4. /\ h.message \in Messages /\ h.message \in Pending
      /\ h.message \notin ToSet(sent) /\ h.message \notin Pending'
  BY <1>1, <1>2, <1>3, HeadOnce, HeadGone DEF IInv
<1>5. \A x, y : SentBefore(x, y)' => SentBefore(x, y)
  BY <1>2, <1>3, FeedDropped DEF IInv
<1> HIDE DEF h
<1>6. Pushes(q)'
  BY <1>1, <1>2, <1>3, <1>4, <1>5, NothingPushed
<1>7. h.message \in ToSet(history) \ creating
  BY <1>1, <1>4 DEF Pushes, PushedAs
<1>8. TypeOK'
  BY <1>2, <1>3, <1>4 DEF IInv, TypeOK, PipeTyped
<1>9. HistorySound' /\ Exclusive' /\ CapKept'
  BY <1>2, <1>3, <1>4, <1>7 DEF IInv, HistorySound, Exclusive, CapKept
<1>10. NothingMissed'
  BY <1>2, <1>3 DEF IInv, NothingMissed, InFlight
<1> QED
  BY <1>6, <1>8, <1>9, <1>10 DEF IInv

LEMMA CrashStep ==
  ASSUME IInv, Crash
  PROVE  IInv'
<1>1. PICK q \in Seq(Messages) : Pushes(q)
  BY DEF IInv
<1>2. /\ creating' = {} /\ pipe' = <<>> /\ loaded' = {} /\ inRoom' = {}
      /\ lost' = lost \cup creating \cup Pending
      /\ cut' = (cut \/ \E w \in ToSet(pipe) : w.at = "lpush")
      /\ shown' = [c \in Clients |-> {}]
      /\ history' = history /\ deleted' = deleted /\ cache' = cache /\ sent' = sent
      /\ overlap' = overlap
  BY DEF Crash, Pending
<1>3. /\ pipe' \in Seq(Waiting) /\ Len(pipe') = 0 /\ DOMAIN pipe' = {}
      /\ Pending' = {} /\ Untrimmed' = {}
  BY <1>2, EmptySeq DEF Pending, ToSet, Untrimmed
<1>4. \A x, y : SentBefore(x, y)' => SentBefore(x, y)
  BY <1>2, <1>3 DEF SentBefore
<1>5. Pushes(q)'
  BY <1>1, <1>2, <1>3, <1>4, NothingPushed
<1>6. /\ ToSet(q) \subseteq ToSet(history) \ creating /\ ToSet(sent) \cup Pending \subseteq ToSet(q)
      /\ \A x \in ToSet(sent) : x \notin Pending
  <2>1. \A x \in Messages : ~SentBefore(x, x)
    BY <1>1, BeforeStrict DEF Pushes, PushedAs, FeedFollows
  <2>2. ToSet(sent) \subseteq Messages
    BY ElementOfSeq, LenProperties DEF IInv, TypeOK, ToSet
  <2> QED
    BY <1>1, <2>1, <2>2 DEF Pushes, PushedAs, SentBefore
<1>7. TypeOK'
  <2>1. Len(pipe') <= MaxPipe /\ shown' \in [Clients -> SUBSET Messages] /\ cut' \in BOOLEAN
    BY <1>2, <1>3, ChatAssumption DEF IInv, TypeOK
  <2>2. lost' \subseteq Messages
    <3>1. ToSet(history) \subseteq Messages
      BY ElementOfSeq, LenProperties DEF IInv, TypeOK, ToSet
    <3> QED
      BY <1>2, <3>1, Queue DEF IInv, TypeOK
  <2> QED
    BY <1>2, <1>3, <2>1, <2>2 DEF IInv, TypeOK
<1>8. HistorySound' /\ Exclusive'
  BY <1>2, <1>3, <1>6 DEF IInv, HistorySound, Exclusive, TypeOK
<1>9. CapKept'
  <2> SUFFICES ASSUME ~cut' PROVE Len(cache) <= CacheSize + 0
    BY <1>2, <1>3, FS_EmptySet DEF CapKept
  <2>1. ~cut /\ Untrimmed = {}
    BY <1>2 DEF Untrimmed, ToSet
  <2> QED
    BY <2>1, FS_EmptySet DEF IInv, CapKept
<1>10. NothingMissed'
  BY <1>2 DEF NothingMissed
<1> QED
  BY <1>5, <1>7, <1>8, <1>9, <1>10 DEF IInv

LEMMA StutterStep ==
  ASSUME IInv, UNCHANGED vars
  PROVE  IInv'
<1>1. PICK q \in Seq(Messages) : Pushes(q)
  BY DEF IInv
<1>2. Pushes(q)'
  BY <1>1, FeedStays, NothingPushed DEF vars
<1>3. Pending' = Pending /\ Untrimmed' = Untrimmed
  BY FeedStays DEF vars
<1>4. TypeOK' /\ HistorySound' /\ CapKept'
  BY <1>3 DEF IInv, TypeOK, HistorySound, CapKept, vars
<1>5. Exclusive' /\ NothingMissed'
  BY <1>3 DEF IInv, Exclusive, NothingMissed, InFlight, vars
<1> QED
  BY <1>2, <1>4, <1>5 DEF IInv

LEMMA IInvStep == IInv /\ [Next]_vars => IInv'
<1> SUFFICES ASSUME IInv, [Next]_vars PROVE IInv'
  OBVIOUS
<1>1. ASSUME NEW m \in Messages, Create(m) \/ Push(m) \/ PushFails(m) \/ SoftDelete(m)
      PROVE  IInv'
  BY <1>1, CreateStep, PushStep, PushFailsStep, PageStep
<1>2. CASE Trim \/ SendMessage \/ TrimFails \/ Crash
  BY <1>2, TrimStep, SendMessageStep, TrimFailsStep, CrashStep
<1>3. CASE \E c \in Clients : ChatJoin(c) \/ Load(c) \/ ChatLeave(c)
  BY <1>3, PageStep
<1>4. CASE UNCHANGED vars
  BY <1>4, StutterStep
<1> QED
  BY <1>1, <1>2, <1>3, <1>4 DEF Next

LEMMA IInvAlways == Spec => []IInv
BY IInvInit, IInvStep, PTL DEF Spec

-----------------------------------------------------------------------------
(* What follows from the invariant.                                        *)

\* Two messages of the sequence pushed are broadcast in that order.
LEMMA SentInOrder ==
  ASSUME TypeOK, NEW q \in Seq(Messages), Pushes(q),
         NEW k \in DOMAIN sent, NEW l \in DOMAIN sent, k < l
  PROVE  Before(q, sent[k], sent[l])
<1>1. sent[k] \in Messages /\ sent[l] \in Messages
  BY Queue, ElementOfSeq DEF TypeOK
<1> QED
  BY <1>1 DEF Pushes, FeedFollows, SentBefore

\* What was pushed after a message that has been broadcast has been broadcast after
\* it too, or its handler is still at work or has failed.
LEMMA PushedAfter ==
  ASSUME TypeOK, NEW q \in Seq(Messages), Pushes(q), NEW i \in DOMAIN sent,
         NEW p \in DOMAIN q, q[p] = sent[i],
         NEW r \in DOMAIN q, r > p
  PROVE  \/ \E l \in i + 1 .. Len(sent) : sent[l] = q[r]
         \/ q[r] \in Pending
         \/ q[r] \in lost
<1>1. q[r] \in ToSet(sent) \cup Pending \cup lost
  BY DEF Pushes, PushedAs, ToSet
<1>2. ASSUME NEW l \in DOMAIN sent, sent[l] = q[r] PROVE l \in i + 1 .. Len(sent)
  <2>1. Before(q, sent[i], sent[l])
    BY <1>2, LenProperties DEF Before
  <2>2. sent[i] # sent[l] /\ ~Before(q, sent[l], sent[i])
    BY <2>1, BeforeStrict DEF Pushes, PushedAs
  <2>3. ~(l < i) /\ l # i
    BY <2>2, SentInOrder
  <2> QED
    BY <2>3, Queue
<1> QED
  BY <1>1, <1>2 DEF ToSet

\* The size of what is pushed after a position of q.
LEMMA PartCounted ==
  ASSUME NEW q \in Seq(Messages), IsInjective(q), NEW p \in DOMAIN q
  PROVE  LET part == {q[r] : r \in p + 1 .. Len(q)} IN
         IsFiniteSet(part) /\ Cardinality(part) = Len(q) - p
<1> DEFINE D == p + 1 .. Len(q)
           part == {q[r] : r \in D}
           f == [r \in D |-> q[r]]
<1>1. Len(q) \in Nat /\ DOMAIN q = 1 .. Len(q) /\ p \in Nat /\ p >= 1 /\ p <= Len(q)
  BY LenProperties
<1>2. D \subseteq DOMAIN q
  BY <1>1
<1>3. f \in Bijection(D, part)
  <2>1. f \in [D -> part] /\ \A y \in part : \E r \in D : f[r] = y
    OBVIOUS
  <2>2. \A r, s \in D : f[r] = f[s] => r = s
    BY <1>2 DEF IsInjective
  <2> QED
    BY <2>1, <2>2 DEF Bijection, Injection, Surjection, IsInjective
<1>4. IsFiniteSet(D) /\ Cardinality(D) = Len(q) - p
  <2>1. IsFiniteSet(D) /\ Cardinality(D) = IF p + 1 > Len(q) THEN 0 ELSE Len(q) - (p + 1) + 1
    <3>1. p + 1 \in Int /\ Len(q) \in Int
      BY <1>1
    <3> QED
      BY <3>1, FS_Interval
  <2> HIDE DEF D
  <2> QED
    BY <1>1, <2>1
<1> HIDE DEF D, f
<1>5. IsFiniteSet(part) /\ Cardinality(part) = Cardinality(D)
  BY <1>3, <1>4, FS_Bijection DEF ExistsBijection
<1> QED
  BY <1>4, <1>5 DEF D

\* The size of a set of messages that are named by the positions of an interval.
LEMMA NamedCounted ==
  ASSUME NEW a \in Nat, NEW b \in Nat, a <= b + 1, NEW f, NEW T,
         T = {f[i] : i \in a .. b}
  PROVE  IsFiniteSet(T) /\ Cardinality(T) <= b + 1 - a /\ Cardinality(T) \in Nat
<1> DEFINE D == a .. b
           g == [i \in D |-> f[i]]
<1>1. g \in Surjection(D, T)
  BY DEF Surjection
<1>2. IsFiniteSet(D) /\ Cardinality(D) = b + 1 - a
  <2>1. IsFiniteSet(D) /\ Cardinality(D) = IF a > b THEN 0 ELSE b - a + 1
    BY FS_Interval
  <2> HIDE DEF D
  <2> QED
    BY <2>1
<1> HIDE DEF D, g
<1>3. IsFiniteSet(T) /\ Cardinality(T) <= Cardinality(D)
  BY <1>1, <1>2, FS_Surjection
<1> QED
  BY <1>2, <1>3, FS_CardinalityType

\* What is in the feed after a message that has been broadcast, counted.
LEMMA FewPushedAfter ==
  ASSUME IInv, NEW q \in Seq(Messages), Pushes(q), NEW i \in DOMAIN sent,
         NEW p \in DOMAIN q, q[p] = sent[i]
  PROVE  Len(q) + i <= p + Len(sent) + Len(pipe) + Cardinality(lost) /\ Cardinality(lost) \in Nat
<1> DEFINE part == {q[r] : r \in p + 1 .. Len(q)}
           S == {sent[l] : l \in i + 1 .. Len(sent)}
           P == {pipe[j].message : j \in 1 .. Len(pipe)}
           H == {history[k] : k \in 1 .. Len(history)}
<1>1. /\ Len(sent) \in Nat /\ i \in 1 .. Len(sent) /\ Len(pipe) \in Nat /\ Len(history) \in Nat
      /\ DOMAIN history = 1 .. Len(history) /\ DOMAIN pipe = 1 .. Len(pipe)
  BY Queue DEF IInv
<1>2. DOMAIN q = 1 .. Len(q) /\ Len(q) \in Nat /\ p \in 1 .. Len(q) /\ IsInjective(q)
  BY LenProperties DEF Pushes, PushedAs
<1>3. IsFiniteSet(part) /\ Cardinality(part) = Len(q) - p
  BY <1>2, PartCounted
<1>4. part \subseteq S \cup P \cup lost
  <2> SUFFICES ASSUME NEW r \in p + 1 .. Len(q) PROVE q[r] \in S \cup P \cup lost
    OBVIOUS
  <2>1. r \in DOMAIN q /\ r > p
    BY <1>2
  <2>2. \/ \E l \in i + 1 .. Len(sent) : sent[l] = q[r]
        \/ q[r] \in Pending
        \/ q[r] \in lost
    BY <2>1, PushedAfter DEF IInv
  <2>3. Pending \subseteq P
    BY <1>1 DEF Pending, ToSet
  <2> QED
    BY <2>2, <2>3
<1>5. IsFiniteSet(S) /\ Cardinality(S) <= Len(sent) - i /\ Cardinality(S) \in Nat
  <2> DEFINE a == i + 1
  <2>1. a \in Nat /\ Len(sent) \in Nat /\ a <= Len(sent) + 1
    BY <1>1
  <2>2. S = {sent[l] : l \in a .. Len(sent)}
    OBVIOUS
  <2> HIDE DEF S, a
  <2>3. IsFiniteSet(S) /\ Cardinality(S) <= Len(sent) + 1 - a /\ Cardinality(S) \in Nat
    BY <2>1, <2>2, NamedCounted
  <2>4. Len(sent) + 1 - a = Len(sent) - i
    BY <1>1 DEF a
  <2> QED
    BY <2>3, <2>4
<1>6. IsFiniteSet(P) /\ Cardinality(P) <= Len(pipe) /\ Cardinality(P) \in Nat
  <2> DEFINE f == [j \in 1 .. Len(pipe) |-> pipe[j].message]
  <2>1. P = {f[j] : j \in 1 .. Len(pipe)}
    OBVIOUS
  <2> HIDE DEF P, f
  <2>2. 1 \in Nat /\ Len(pipe) \in Nat /\ 1 <= Len(pipe) + 1
    BY <1>1
  <2>3. IsFiniteSet(P) /\ Cardinality(P) <= Len(pipe) + 1 - 1 /\ Cardinality(P) \in Nat
    BY <2>1, <2>2, NamedCounted
  <2> QED
    BY <2>2, <2>3
<1>7. IsFiniteSet(lost) /\ Cardinality(lost) \in Nat
  <2>1. IsFiniteSet(H)
    <3>1. 1 \in Nat /\ Len(history) \in Nat /\ 1 <= Len(history) + 1
      BY <1>1
    <3>2. H = {history[k] : k \in 1 .. Len(history)}
      OBVIOUS
    <3> HIDE DEF H
    <3> QED
      BY <3>1, <3>2, NamedCounted
  <2>2. lost \subseteq H
    BY <1>1 DEF IInv, HistorySound, ToSet
  <2> QED
    BY <2>1, <2>2, FS_Subset, FS_CardinalityType
<1> HIDE DEF part, S, P
<1>8. /\ IsFiniteSet(S \cup P) /\ IsFiniteSet(S \cap P)
      /\ Cardinality(S \cup P) = Cardinality(S) + Cardinality(P) - Cardinality(S \cap P)
      /\ Cardinality(S \cap P) \in Nat /\ Cardinality(S \cup P) \in Nat
  BY <1>5, <1>6, FS_Union, FS_Subset, FS_CardinalityType
<1> DEFINE U == S \cup P
<1> HIDE DEF U
<1>9. /\ IsFiniteSet(U \cup lost) /\ Cardinality(U \cup lost) \in Nat
      /\ Cardinality(U \cup lost) = Cardinality(U) + Cardinality(lost) - Cardinality(U \cap lost)
      /\ Cardinality(U \cap lost) \in Nat
  <2>1. IsFiniteSet(U)
    BY <1>8 DEF U
  <2> QED
    BY <1>7, <2>1, FS_Union, FS_Subset, FS_CardinalityType
<1>10. Cardinality(part) <= Cardinality(U \cup lost)
  BY <1>4, <1>9, FS_Subset DEF U
<1>11. Cardinality(U) <= Cardinality(S) + Cardinality(P) /\ Cardinality(U) \in Nat
  BY <1>5, <1>6, <1>8 DEF U
<1>12. /\ Len(q) - p <= Cardinality(U) + Cardinality(lost)
       /\ Cardinality(U) <= Len(sent) - i + Len(pipe)
  <2>1. Cardinality(U \cup lost) <= Cardinality(U) + Cardinality(lost)
    BY <1>7, <1>9, <1>11
  <2>2. Len(q) - p <= Cardinality(U \cup lost)
    BY <1>3, <1>10
  <2>3. /\ Len(q) \in Nat /\ p \in Nat /\ Len(sent) \in Nat /\ i \in Nat /\ Len(pipe) \in Nat
        /\ i <= Len(sent)
    BY <1>1, <1>2
  <2>4. Len(q) - p <= Cardinality(U) + Cardinality(lost)
    BY <1>7, <1>9, <1>11, <2>1, <2>2, <2>3
  <2>5. Cardinality(U) <= Len(sent) - i + Len(pipe)
    BY <1>5, <1>6, <1>11, <2>3
  <2> QED
    BY <2>4, <2>5
<1> QED
  <2> DEFINE k == Cardinality(lost)
             u == Cardinality(U)
  <2>1. k \in Nat /\ u \in Nat /\ Len(q) - p <= u + k /\ u <= Len(sent) - i + Len(pipe)
    BY <1>7, <1>11, <1>12
  <2>2. /\ Len(q) \in Nat /\ p \in Nat /\ Len(sent) \in Nat /\ i \in Nat
        /\ Len(pipe) \in Nat
    BY <1>1, <1>2
  <2> HIDE DEF k, u
  <2>3. ASSUME NEW a \in Nat, NEW b \in Nat, NEW c \in Nat, NEW d \in Nat, NEW e \in Nat,
               a - b <= u + k, u <= c - d + e
        PROVE  a + d <= b + c + e + k
    BY <2>1, <2>3
  <2>4. Len(q) + i <= p + Len(sent) + Len(pipe) + k
    BY <2>1, <2>2, <2>3
  <2> QED
    BY <2>1, <2>4 DEF k

LEMMA CacheFollows == IInv => CacheIsFeed
<1> SUFFICES ASSUME IInv PROVE CacheIsFeed
  OBVIOUS
<1>1. PICK q \in Seq(Messages) : Pushes(q)
  BY DEF IInv
<1>2. /\ Len(q) \in Nat /\ DOMAIN q = 1 .. Len(q) /\ IsInjective(q)
      /\ Len(cache) \in Nat /\ DOMAIN cache = 1 .. Len(cache)
      /\ Len(cache) <= Len(q) /\ (Len(cache) >= CacheSize \/ Len(cache) = Len(q))
      /\ CacheSize \in Nat
  BY <1>1, Queue, LenProperties, ChatAssumption DEF IInv, Pushes, PushedAs, CacheEnds
<1>3. ASSUME NEW i \in DOMAIN cache
      PROVE  Len(q) + 1 - i \in DOMAIN q /\ cache[i] = q[Len(q) + 1 - i]
  <2>1. i \in 1 .. Len(cache) /\ Len(cache) \in Nat /\ Len(q) \in Nat /\ Len(cache) <= Len(q)
    BY <1>2
  <2>2. Len(q) + 1 - i \in 1 .. Len(q)
    BY <2>1
  <2> QED
    BY <1>1, <1>2, <2>2 DEF Pushes, CacheEnds
<1>4. IsInjective(cache)
  <2> SUFFICES ASSUME NEW i \in DOMAIN cache, NEW j \in DOMAIN cache, cache[i] = cache[j]
               PROVE  i = j
    BY DEF IsInjective
  <2>1. Len(q) + 1 - i = Len(q) + 1 - j
    BY <1>2, <1>3 DEF IsInjective
  <2>2. i \in 1 .. Len(cache) /\ j \in 1 .. Len(cache) /\ Len(cache) \in Nat /\ Len(q) \in Nat
    BY <1>2
  <2> QED
    BY <2>1, <2>2
<1>5. ToSet(cache) \subseteq ToSet(q) /\ ToSet(q) \subseteq ToSet(sent) \cup Pending \cup lost
  BY <1>1, <1>3 DEF ToSet, Pushes, PushedAs
<1>6. ASSUME NEW i \in DOMAIN cache, NEW n \in Messages, SentBefore(cache[i], n)
      PROVE  \E j \in DOMAIN cache : j < i /\ cache[j] = n
  <2>1. cache[i] \in Messages
    BY <1>2, ElementOfSeq DEF IInv, TypeOK
  <2>2. PICK a, b \in DOMAIN q : a < b /\ q[a] = cache[i] /\ q[b] = n
    BY <1>1, <1>6, <2>1 DEF Pushes, FeedFollows, Before
  <2>3. a = Len(q) + 1 - i
    BY <1>2, <1>3, <2>2 DEF IsInjective
  <2> DEFINE j == Len(q) + 1 - b
  <2>4. /\ Len(q) \in Nat /\ i \in 1 .. Len(cache) /\ Len(cache) \in Nat
        /\ a \in 1 .. Len(q) /\ b \in 1 .. Len(q) /\ a < b
    BY <1>2, <2>2
  <2>5. j \in 1 .. Len(cache) /\ j < i /\ Len(q) + 1 - j = b
    BY <2>3, <2>4
  <2> QED
    BY <1>2, <1>3, <2>2, <2>5
<1>7. ASSUME NEW i \in DOMAIN sent,
             Len(sent) + Len(pipe) + Cardinality(lost) < CacheSize + i
      PROVE  sent[i] \in ToSet(cache)
  <2>1. PICK p \in DOMAIN q : q[p] = sent[i]
    BY <1>1 DEF Pushes, PushedAs, ToSet
  <2>2. Len(q) + i <= p + Len(sent) + Len(pipe) + Cardinality(lost) /\ Cardinality(lost) \in Nat
    BY <1>1, <2>1, FewPushedAfter
  <2>3. Len(sent) \in Nat /\ Len(pipe) \in Nat /\ i \in 1 .. Len(sent)
    BY Queue DEF IInv
  <2>4. /\ Len(q) \in Nat /\ p \in 1 .. Len(q) /\ Len(cache) \in Nat /\ CacheSize \in Nat
        /\ Len(cache) >= CacheSize \/ Len(cache) = Len(q)
    BY <1>2
  <2>5. Len(q) < p + CacheSize
    <3> DEFINE n == Len(sent) + Len(pipe) + Cardinality(lost)
    <3>1. i \in Nat /\ p \in Nat
      BY <2>3, <2>4
    <3>2. n \in Nat
      BY <2>2, <2>3
    <3>3. n < CacheSize + i
      BY <1>7
    <3>4. Len(q) + i <= p + n
      <4>1. p + n = p + Len(sent) + Len(pipe) + Cardinality(lost)
        BY <2>2, <2>3, <3>1
      <4> QED
        BY <2>2, <4>1
    <3> HIDE DEF n
    <3> QED
      BY <2>4, <3>1, <3>2, <3>3, <3>4
  <2> DEFINE j == Len(q) + 1 - p
  <2>6. j \in 1 .. Len(cache) /\ Len(q) + 1 - j = p
    BY <2>4, <2>5
  <2>7. cache[j] = sent[i]
    BY <1>2, <1>3, <2>1, <2>6
  <2> QED
    BY <1>2, <2>6, <2>7 DEF ToSet
<1> QED
  BY <1>4, <1>5, <1>6, <1>7 DEF CacheIsFeed, IInv, CapKept

LEMMA SentFollowsHistory == IInv => FeedFollowsHistory
<1> SUFFICES ASSUME IInv, NEW i \in DOMAIN history, NEW j \in DOMAIN history, i < j,
                    NEW k \in DOMAIN sent, NEW l \in DOMAIN sent, k < l,
                    sent[k] = history[j], sent[l] = history[i]
             PROVE  <<history[i], history[j]>> \in overlap
  BY DEF FeedFollowsHistory
<1>1. PICK q \in Seq(Messages) : Pushes(q)
  BY DEF IInv
<1>2. Before(q, history[j], history[i])
  BY <1>1, SentInOrder DEF IInv
<1>3. ~Before(q, history[i], history[j])
  BY <1>1, <1>2, BeforeStrict DEF Pushes, PushedAs
<1>4. history[j] \in ToSet(q) /\ history[i] \notin lost
  BY <1>1 DEF Pushes, PushedAs, IInv, Exclusive, ToSet
<1> QED
  BY <1>1, <1>3, <1>4 DEF Pushes, PushedInOrder

-----------------------------------------------------------------------------

\* Every variable keeps its type, and no more handlers wait than there are slots.
THEOREM TypeCorrect == Spec => []TypeOK
<1>1. IInv => TypeOK
  BY DEF IInv
<1> QED
  BY <1>1, IInvAlways, PTL

\* However handlers overlap, fail or die, the list in Redis is the end of what is
\* broadcast, in that order, but for messages that never are.
THEOREM CacheIsAlwaysFeed == Spec => []CacheIsFeed
BY CacheFollows, IInvAlways, PTL

\* Two messages are broadcast the other way round than history has them only when one
\* was stored while the insert of the other was unanswered.
THEOREM FeedAlwaysFollowsHistory == Spec => []FeedFollowsHistory
BY SentFollowsHistory, IInvAlways, PTL

\* Who joins and then loads a history that fits a page shows every message stored,
\* unless it was taken back, is in flight or failed.
THEOREM NothingEverMissed == Spec => []NothingMissed
<1>1. IInv => NothingMissed
  BY DEF IInv
<1> QED
  BY <1>1, IInvAlways, PTL

-----------------------------------------------------------------------------
(* More that follows.                                                      *)

\* A message is not both broadcast and on its way: two places in the feed would order
\* it before itself.
LEMMA PendingUnsent == IInv => Pending \cap ToSet(sent) = {}
<1> SUFFICES ASSUME IInv, NEW m \in Pending, m \in ToSet(sent) PROVE FALSE
  OBVIOUS
<1>1. PICK q \in Seq(Messages) : Pushes(q)
  BY DEF IInv
<1>2. m \in Messages /\ SentBefore(m, m)
  BY Queue DEF IInv, SentBefore
<1>3. Before(q, m, m)
  BY <1>1, <1>2 DEF Pushes, FeedFollows
<1> QED
  BY <1>1, <1>3, BeforeStrict DEF Pushes, PushedAs

LEMMA IInvEachOnce == IInv => EachMessageOnce
<1> SUFFICES ASSUME IInv PROVE EachMessageOnce
  OBVIOUS
<1>1. PICK q \in Seq(Messages) : Pushes(q)
  BY DEF IInv
<1>2. IsInjective(q) /\ ToSet(sent) \cup Pending \subseteq ToSet(history) \ creating
  BY <1>1 DEF Pushes, PushedAs
<1>3. ASSUME NEW k \in DOMAIN sent, NEW l \in DOMAIN sent, k < l
      PROVE  sent[k] # sent[l]
  BY <1>1, <1>2, <1>3, SentInOrder, BeforeStrict DEF IInv
<1>4. DOMAIN sent = 1 .. Len(sent) /\ Len(sent) \in Nat
  BY LenProperties DEF IInv, TypeOK
<1>5. IsInjective(sent)
  BY <1>3, <1>4 DEF IsInjective
<1>6. creating \subseteq ToSet(history)
  BY DEF IInv, TypeOK
<1>7. ToSet(history) = InFlight \cup ToSet(sent) \cup lost
  BY <1>2, <1>6 DEF IInv, Exclusive, HistorySound, InFlight
<1>8. creating \cap Pending = {}
  BY <1>2
<1>9. InFlight \cap (ToSet(sent) \cup lost) = {}
  BY <1>2, PendingUnsent DEF IInv, Exclusive, HistorySound, InFlight
<1>10. ToSet(sent) \cap lost = {}
  BY DEF IInv, Exclusive
<1> QED
  BY <1>5, <1>7, <1>8, <1>9, <1>10 DEF EachMessageOnce

\* However handlers overlap, fail or die, nobody is sent a message twice by one
\* chat:send, nor one that its sender was told had failed, and none is stored and
\* forgotten: what is neither in flight nor broadcast has failed.
THEOREM EachMessageAlwaysOnce == Spec => []EachMessageOnce
BY IInvEachOnce, IInvAlways, PTL

\* At rest, with no failure behind it, the list is the last CacheSize messages of the
\* feed, newest first.
ReplayExact ==
  pipe = <<>> /\ lost = {} =>
    /\ Len(cache) = IF Len(sent) <= CacheSize THEN Len(sent) ELSE CacheSize
    /\ \A i \in DOMAIN cache : cache[i] = sent[Len(sent) + 1 - i]

\* Two sequences that hold the same elements, each once and in the same order, are
\* the same.
LEMMA SameOrder ==
  ASSUME NEW S, NEW p \in Seq(S), NEW q \in Seq(S), IsInjective(p), IsInjective(q),
         ToSet(p) = ToSet(q),
         \A k, l \in DOMAIN p : k < l => Before(q, p[k], p[l])
  PROVE  Len(p) = Len(q) /\ \A k \in DOMAIN p : p[k] = q[k]
<1>1. /\ Len(p) \in Nat /\ DOMAIN p = 1 .. Len(p)
      /\ Len(q) \in Nat /\ DOMAIN q = 1 .. Len(q)
  BY LenProperties
<1> DEFINE at(k) == CHOOSE x \in DOMAIN q : q[x] = p[k]
<1>2. ASSUME NEW k \in DOMAIN p
      PROVE  at(k) \in DOMAIN q /\ q[at(k)] = p[k]
  BY DEF ToSet
<1> HIDE DEF at
<1>3. ASSUME NEW k \in DOMAIN p, NEW l \in DOMAIN p, k < l
      PROVE  at(k) < at(l)
  <2>1. PICK x \in DOMAIN q, y \in DOMAIN q : x < y /\ q[x] = p[k] /\ q[y] = p[l]
    BY <1>3 DEF Before
  <2>2. x = at(k) /\ y = at(l)
    BY <1>2, <2>1 DEF IsInjective
  <2> QED
    BY <2>1, <2>2
<1>4. ASSUME NEW x \in DOMAIN q
      PROVE  \E k \in DOMAIN p : at(k) = x
  <2>1. PICK k \in DOMAIN p : p[k] = q[x]
    BY DEF ToSet
  <2> QED
    BY <1>2, <2>1 DEF IsInjective
<1>5. ASSUME NEW n \in Nat, NEW m \in Nat, n <= Len(p), m <= Len(q),
             \A k \in 1 .. n : at(k) \in 1 .. m,
             \A x \in 1 .. m : \E k \in 1 .. n : at(k) = x
      PROVE  n = m
  <2> DEFINE f == [k \in 1 .. n |-> at(k)]
  <2>1. f \in [1 .. n -> 1 .. m] /\ \A x \in 1 .. m : \E k \in 1 .. n : f[k] = x
    BY <1>5
  <2>2. ASSUME NEW k \in 1 .. n, NEW l \in 1 .. n, f[k] = f[l]
        PROVE  k = l
    <3>1. k \in DOMAIN p /\ l \in DOMAIN p /\ at(k) = at(l)
      <4>1. 1 .. n \subseteq 1 .. Len(p)
        BY <1>1, <1>5
      <4> QED
        BY <1>1, <2>2, <4>1
    <3>2. at(k) \in Nat /\ ~(at(k) < at(l)) /\ ~(at(l) < at(k))
      BY <1>1, <1>2, <3>1
    <3>3. ~(k < l) /\ ~(l < k)
      BY <1>3, <3>1, <3>2
    <3> QED
      BY <3>3
  <2>3. f \in Bijection(1 .. n, 1 .. m)
    BY <2>1, <2>2 DEF Bijection, Injection, Surjection, IsInjective
  <2> HIDE DEF f
  <2>4. IsFiniteSet(1 .. n) /\ Cardinality(1 .. n) = IF 1 > n THEN 0 ELSE n - 1 + 1
    BY FS_Interval
  <2>5. Cardinality(1 .. m) = IF 1 > m THEN 0 ELSE m - 1 + 1
    BY FS_Interval
  <2>6. Cardinality(1 .. m) = Cardinality(1 .. n)
    BY <2>3, <2>4, FS_Bijection DEF ExistsBijection
  <2> QED
    BY <2>4, <2>5, <2>6
<1>6. Len(p) = Len(q)
  <2>1. \A k \in 1 .. Len(p) : at(k) \in 1 .. Len(q)
    BY <1>1, <1>2
  <2>2. \A x \in 1 .. Len(q) : \E k \in 1 .. Len(p) : at(k) = x
    BY <1>1, <1>4
  <2>3. Len(p) <= Len(p) /\ Len(q) <= Len(q)
    BY <1>1
  <2> QED
    BY <1>1, <1>5, <2>1, <2>2, <2>3
<1>7. ASSUME NEW k \in DOMAIN p
      PROVE  at(k) = k
  <2>1. k \in 1 .. Len(p) /\ at(k) \in 1 .. Len(q)
    BY <1>1, <1>2
  <2>2. \A j \in 1 .. k - 1 : at(j) \in 1 .. at(k) - 1
    <3> SUFFICES ASSUME NEW j \in 1 .. k - 1
                 PROVE  at(j) \in 1 .. at(k) - 1
      OBVIOUS
    <3>1. j \in DOMAIN p /\ j < k
      BY <1>1, <2>1
    <3>2. at(j) \in 1 .. Len(q) /\ at(j) < at(k)
      BY <1>1, <1>2, <1>3, <3>1
    <3> QED
      BY <2>1, <3>2
  <2>3. \A x \in 1 .. at(k) - 1 : \E j \in 1 .. k - 1 : at(j) = x
    <3> SUFFICES ASSUME NEW x \in 1 .. at(k) - 1
                 PROVE  \E j \in 1 .. k - 1 : at(j) = x
      OBVIOUS
    <3>1. x \in DOMAIN q
      BY <1>1, <2>1
    <3>2. PICK j \in DOMAIN p : at(j) = x
      BY <1>4, <3>1
    <3>3. at(j) < at(k) /\ at(j) \in Nat /\ at(k) \in Nat
      BY <2>1, <3>2
    <3>4. j # k /\ ~(k < j)
      BY <1>3, <3>3
    <3> QED
      BY <1>1, <2>1, <3>2, <3>4
  <2>4. k - 1 \in Nat /\ at(k) - 1 \in Nat /\ k - 1 <= Len(p) /\ at(k) - 1 <= Len(q)
    BY <1>1, <2>1
  <2>5. k - 1 = at(k) - 1
    BY <1>5, <2>2, <2>3, <2>4
  <2> QED
    BY <2>1, <2>5
<1> QED
  BY <1>2, <1>6, <1>7

\* With nothing in flight and nothing lost, what was pushed is what was broadcast.
LEMMA IInvReplay == IInv /\ (cut => lost # {}) => ReplayExact
<1> SUFFICES ASSUME IInv, ~cut, pipe = <<>>, lost = {}
             PROVE  /\ Len(cache) = IF Len(sent) <= CacheSize THEN Len(sent) ELSE CacheSize
                    /\ \A i \in DOMAIN cache : cache[i] = sent[Len(sent) + 1 - i]
  BY DEF ReplayExact
<1>1. PICK q \in Seq(Messages) : Pushes(q)
  BY DEF IInv
<1>2. Pending = {} /\ Untrimmed = {}
  BY DEF Pending, Untrimmed, ToSet
<1>3. ToSet(sent) = ToSet(q) /\ IsInjective(q) /\ IsInjective(sent)
  BY <1>1, <1>2, IInvEachOnce DEF Pushes, PushedAs, EachMessageOnce
<1>4. sent \in Seq(Messages) /\ TypeOK
  BY DEF IInv, TypeOK
<1>5. \A k, l \in DOMAIN sent : k < l => Before(q, sent[k], sent[l])
  BY <1>1, <1>4, SentInOrder
<1>6. Len(sent) = Len(q) /\ \A k \in DOMAIN sent : sent[k] = q[k]
  BY <1>3, <1>4, <1>5, SameOrder
<1>7. /\ Len(cache) \in Nat /\ DOMAIN cache = 1 .. Len(cache)
      /\ Len(sent) \in Nat /\ DOMAIN sent = 1 .. Len(sent)
  BY LenProperties, <1>4 DEF TypeOK
<1>8. Len(cache) <= CacheSize
  <2>1. Cardinality(Untrimmed) = 0
    BY <1>2, FS_EmptySet
  <2>2. Len(cache) <= CacheSize + Cardinality(Untrimmed)
    BY DEF IInv, CapKept
  <2> QED
    BY <2>1, <2>2, ChatAssumption
<1>9. /\ Len(cache) <= Len(q) /\ (Len(cache) >= CacheSize \/ Len(cache) = Len(q))
      /\ \A i \in DOMAIN cache : cache[i] = q[Len(q) + 1 - i]
  BY <1>1 DEF Pushes, CacheEnds
<1>10. Len(cache) = IF Len(sent) <= CacheSize THEN Len(sent) ELSE CacheSize
  <2>1. /\ Len(cache) \in Nat /\ Len(sent) \in Nat /\ CacheSize \in Nat
        /\ Len(cache) <= Len(sent) /\ (Len(cache) >= CacheSize \/ Len(cache) = Len(sent))
    BY <1>6, <1>7, <1>9, ChatAssumption
  <2> QED
    BY <1>8, <2>1
<1>11. ASSUME NEW i \in DOMAIN cache
       PROVE  cache[i] = sent[Len(sent) + 1 - i]
  <2>1. i \in 1 .. Len(cache) /\ Len(cache) <= Len(sent) /\ Len(cache) \in Nat /\ Len(sent) \in Nat
    BY <1>6, <1>7, <1>9
  <2>2. Len(sent) + 1 - i \in DOMAIN sent
    <3>1. Len(sent) + 1 - i \in 1 .. Len(sent)
      BY <2>1
    <3> QED
      BY <1>7, <3>1
  <2> QED
    BY <1>6, <1>9, <2>2
<1> QED
  BY <1>10, <1>11

\* An ltrim is dropped only with its handler.
LEMMA CutIsLoss == Spec => [](cut => lost # {})
<1>1. Init => (cut => lost # {})
  BY DEF Init
<1>2. TypeOK /\ (cut => lost # {}) /\ [Next]_vars => (cut => lost # {})'
  <2> SUFFICES ASSUME TypeOK, cut => lost # {}, [Next]_vars, cut' PROVE lost' # {}
    OBVIOUS
  <2>1. CASE TrimFails
    BY <2>1 DEF TrimFails
  <2>2. CASE Crash
    <3>1. lost \subseteq lost' /\ \A w \in ToSet(pipe) : w.message \in lost'
      BY <2>2 DEF Crash
    <3>2. cut \/ \E w \in ToSet(pipe) : w.at = "lpush"
      BY <2>2 DEF Crash
    <3> QED
      BY <3>1, <3>2
  <2>3. CASE UNCHANGED vars
    BY <2>3 DEF vars
  <2>4. CASE Trim
    BY <2>4 DEF Trim
  <2>5. ASSUME NEW m \in Messages, Create(m) \/ Push(m) \/ PushFails(m) \/ SoftDelete(m)
        PROVE  lost' # {}
    BY <2>5 DEF Create, Push, PushFails, SoftDelete, redis
  <2>6. CASE SendMessage
    BY <2>6 DEF SendMessage
  <2>7. ASSUME NEW c \in Clients, ChatJoin(c) \/ Load(c) \/ ChatLeave(c)
        PROVE  lost' # {}
    BY <2>7 DEF ChatJoin, Load, ChatLeave, redis
  <2> QED
    BY <2>1, <2>2, <2>3, <2>4, <2>5, <2>6, <2>7 DEF Next
<1> QED
  BY <1>1, <1>2, TypeCorrect, PTL DEF Spec

\* Whatever has overlapped, once no handler waits and none has failed, the list is
\* exactly the last CacheSize messages broadcast, in that order.
THEOREM ReplayAlwaysExact == Spec => []ReplayExact
BY IInvReplay, IInvAlways, CutIsLoss, PTL
=============================================================================
