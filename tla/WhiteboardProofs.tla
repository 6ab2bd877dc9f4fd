--------------------------- MODULE WhiteboardProofs ---------------------------
(***************************************************************************)
(* Proofs about Whiteboard, for any clients, strokes, cap and number of    *)
(* handlers waiting for Redis.  The order of the handlers in pipe is what  *)
(* everything rests on: what rewrites a board is followed there by the     *)
(* handlers of the strokes it does not carry, and what puts an erased      *)
(* stroke on a board by a handler that takes it off again.                 *)
(***************************************************************************)
EXTENDS Whiteboard, SequenceTheorems, FiniteSetTheorems, TLAPS

\* The list holds strokes that have been drawn and not been erased, each once.
ListSound ==
  /\ IsInjective(list)
  /\ \A s \in ToSet(list) : drawn[s] # {} /\ s \notin erased
  /\ \A s \in erased : drawn[s] # {}

\* A handler of a stroke runs for the socket that drew it, and one that is about to
\* say it is undone for a stroke that is not on the list any more.
HandlersSound ==
  \A i \in DOMAIN pipe :
    /\ pipe[i].by \in open \cup {Closed}
    /\ pipe[i].at \in Stages \cup {"find", "undone"} => drawn[pipe[i].stroke] = {pipe[i].by}
    /\ pipe[i].at = "undone" => pipe[i].stroke \notin ToSet(list)
    /\ pipe[i].at = "find" => (pipe[i].found \/ pipe[i].stroke \notin ToSet(list))

\* Whoever has not closed the chat since they opened the whiteboard is in the room.
Listening == open \ silenced \subseteq inRoom

Sends(w, c) == w.at = "init" /\ w.by = c

\* A client is sent the board once at a time.
OneInit ==
  \A c \in Clients : \A i, j \in DOMAIN pipe :
    Sends(pipe[i], c) /\ Sends(pipe[j], c) => i = j

\* A handler that is about to replace or empty boards leaves out no stroke of the
\* list but those whose broadcast comes behind it.
Draws(w, s) == w.at \in Stages /\ w.stroke = s
Carried(w) == IF w.at = "init" THEN w.strokes ELSE {}
BroadcastsFollow ==
  \A i \in DOMAIN pipe : \A s \in ToSet(list) :
    pipe[i].at \in {"init", "del"} =>
      s \in Carried(pipe[i]) \/ \E j \in DOMAIN pipe : j > i /\ Draws(pipe[j], s)

\* Who undoes a stroke does not show it, nor are they to be sent it first.
UndoerHides ==
  \A c \in Clients : \A i \in DOMAIN pipe :
    pipe[i].at = "find" /\ pipe[i].by = c =>
      /\ pipe[i].stroke \notin board[c]
      /\ \A k \in DOMAIN pipe : Sends(pipe[k], c) => k > i

\* The handler w will see to it that c does not show s.
Hides(w, c, s) ==
  \/ w.at = "undone" /\ w.stroke = s /\ w.by # c
  \/ w.at = "del" /\ w.by # c
  \/ Sends(w, c) /\ s \notin w.strokes

\* An erased stroke that was not overtaken is not broadcast any more; where it is
\* shown, or about to be sent, a handler that hides it comes behind.
Unheard == erased \ overtaken
NotDrawnAgain == \A s \in Unheard : ~Drawing(s)
HiddenInTheEnd ==
  \A c \in open \ silenced : \A s \in Unheard :
    /\ s \in board[c] => \E j \in DOMAIN pipe : Hides(pipe[j], c, s)
    /\ \A k \in DOMAIN pipe : Sends(pipe[k], c) /\ s \in pipe[k].strokes =>
         \E j \in DOMAIN pipe : j > k /\ Hides(pipe[j], c, s)

IInv ==
  /\ TypeOK /\ CapKept /\ SavedIsShown
  /\ ListSound /\ HandlersSound /\ Listening /\ OneInit /\ BroadcastsFollow
  /\ UndoerHides /\ NotDrawnAgain /\ HiddenInTheEnd

-----------------------------------------------------------------------------
(* Sequences of any elements.                                              *)

LEMMA AppendedSeq ==
  ASSUME NEW S, NEW q \in Seq(S), NEW e \in S
  PROVE  /\ Append(q, e) \in Seq(S)
         /\ ToSet(Append(q, e)) = ToSet(q) \cup {e}
         /\ IsInjective(q) /\ e \notin ToSet(q) => IsInjective(Append(q, e))
<1> DEFINE p == Append(q, e)
           n == Len(q)
<1>1. /\ p \in Seq(S) /\ DOMAIN p = 1 .. n + 1 /\ DOMAIN q = 1 .. n /\ n \in Nat
      /\ \A i \in 1 .. n : p[i] = q[i]
      /\ p[n + 1] = e
  BY AppendProperties, LenProperties
<1> HIDE DEF p, n
<1>2. \A i \in 1 .. n + 1 : i \in 1 .. n \/ i = n + 1
  BY <1>1
<1>3. ToSet(p) = ToSet(q) \cup {e}
  BY <1>1, <1>2 DEF ToSet
<1>4. ASSUME IsInjective(q), e \notin ToSet(q)
      PROVE  IsInjective(p)
  <2> SUFFICES ASSUME NEW i \in 1 .. n + 1, NEW j \in 1 .. n + 1, p[i] = p[j]
               PROVE  i = j
    BY <1>1 DEF IsInjective
  <2>1. \A k \in 1 .. n : p[k] # e
    BY <1>1, <1>4 DEF ToSet
  <2> QED
    BY <1>1, <1>2, <1>4, <2>1 DEF IsInjective
<1> QED
  BY <1>1, <1>3, <1>4 DEF p

\* A part of a sequence holds some of its elements, each no more often.
LEMMA PartOfSeq ==
  ASSUME NEW S, NEW q \in Seq(S), NEW m \in Nat \ {0}, NEW n \in 0 .. Len(q)
  PROVE  /\ SubSeq(q, m, n) \in Seq(S)
         /\ Len(SubSeq(q, m, n)) = IF m <= n THEN n - m + 1 ELSE 0
         /\ ToSet(SubSeq(q, m, n)) \subseteq ToSet(q)
         /\ IsInjective(q) => IsInjective(SubSeq(q, m, n))
<1> DEFINE p == SubSeq(q, m, n)
<1>1. Len(q) \in Nat /\ DOMAIN q = 1 .. Len(q) /\ \A i \in 1 .. Len(q) : q[i] \in S
  BY LenProperties, ElementOfSeq
<1>2. /\ p \in Seq(S) /\ Len(p) = (IF m <= n THEN n - m + 1 ELSE 0)
      /\ \A i \in 1 .. n - m + 1 : p[i] = q[m + i - 1]
  BY <1>1, SubSeqProperties
<1>3. DOMAIN p = 1 .. Len(p)
  BY <1>2, LenProperties
<1>4. \A i \in DOMAIN p : i \in 1 .. n - m + 1 /\ m + i - 1 \in DOMAIN q
  BY <1>1, <1>2, <1>3
<1>5. \A i, j \in DOMAIN p : m + i - 1 = m + j - 1 => i = j
  BY <1>2, <1>3, <1>1
<1> QED
  BY <1>2, <1>4, <1>5 DEF ToSet, IsInjective

\* An element that occurs once is gone when its first occurrence is removed.
LEMMA RemovedFirst ==
  ASSUME NEW S, NEW q \in Seq(S), NEW e, IsInjective(q)
  PROVE  /\ RemoveFirst(q, e) \in Seq(S)
         /\ ToSet(RemoveFirst(q, e)) = ToSet(q) \ {e}
         /\ IsInjective(RemoveFirst(q, e))
         /\ Len(RemoveFirst(q, e)) <= Len(q)
<1> DEFINE r == RemoveFirst(q, e)
<1>1. Len(q) \in Nat /\ DOMAIN q = 1 .. Len(q) /\ \A i \in 1 .. Len(q) : q[i] \in S
  OBVIOUS
<1>2. CASE ~\E i \in 1 .. Len(q) : q[i] = e
  <2>1. r = q
    BY <1>2 DEF RemoveFirst
  <2> QED
    BY <1>1, <1>2, <2>1 DEF ToSet
<1>3. CASE \E i \in 1 .. Len(q) : q[i] = e
  <2>1. PICK n \in 1 .. Len(q) : q[n] = e
    BY <1>3
  <2>2. {i \in 1 .. Len(q) : q[i] = e} = {n}
    BY <1>1, <2>1 DEF IsInjective
  <2>3. Min({n}) = n
    BY <1>1 DEF Min
  <2>4. SelectInSeq(q, LAMBDA v : v = e) = n
    BY <2>2, <2>3 DEF SelectInSeq
  <2>5. r = RemoveAt(q, n)
    BY <1>3, <2>4 DEF RemoveFirst
  <2> DEFINE a == SubSeq(q, 1, n - 1)
             b == SubSeq(q, n + 1, Len(q))
  <2>6. /\ a \in Seq(S) /\ Len(a) = n - 1 /\ \A i \in 1 .. n - 1 : a[i] = q[i]
    <3>1. \A i \in 1 .. n - 1 : q[i] \in S
      BY <1>1
    <3>2. n - 1 \in Int
      BY <1>1
    <3> QED
      BY <1>1, <3>1, <3>2, SubSeqProperties
  <2>7. /\ b \in Seq(S) /\ Len(b) = Len(q) - n
        /\ \A i \in 1 .. Len(q) - n : b[i] = q[n + i]
    <3>1. \A i \in n + 1 .. Len(q) : q[i] \in S
      BY <1>1
    <3>2. n + 1 \in Int /\ Len(q) \in Int
      BY <1>1
    <3>3. /\ b \in Seq(S)
          /\ Len(b) = IF n + 1 <= Len(q) THEN Len(q) - (n + 1) + 1 ELSE 0
          /\ \A i \in 1 .. Len(q) - (n + 1) + 1 : b[i] = q[n + 1 + i - 1]
      BY <3>1, <3>2, SubSeqProperties
    <3> HIDE DEF b
    <3>4. Len(b) = Len(q) - n
      <4>1. Len(b) = IF n + 1 <= Len(q) THEN Len(q) - (n + 1) + 1 ELSE 0
        BY <3>3
      <4>2. Len(q) \in Nat /\ n \in Nat /\ n <= Len(q)
        BY <1>1
      <4> QED
        BY <4>1, <4>2
    <3>5. ASSUME NEW i \in 1 .. Len(q) - n PROVE b[i] = q[n + i]
      <4>1. i \in 1 .. Len(q) - (n + 1) + 1 /\ n + 1 + i - 1 = n + i
        BY <1>1
      <4> QED
        BY <3>3, <4>1
    <3> QED
      BY <3>3, <3>4, <3>5
  <2>8. /\ r \in Seq(S) /\ Len(r) = Len(q) - 1
        /\ \A i \in 1 .. Len(q) - 1 : r[i] = IF i < n THEN q[i] ELSE q[i + 1]
    <3>1. /\ a \o b \in Seq(S) /\ Len(a \o b) = Len(a) + Len(b)
          /\ \A i \in 1 .. Len(a) + Len(b) :
               (a \o b)[i] = IF i <= Len(a) THEN a[i] ELSE b[i - Len(a)]
      BY <2>6, <2>7, ConcatProperties
    <3>2. r = a \o b
      BY <2>5 DEF RemoveAt
    <3> HIDE DEF a, b, r
    <3>3. Len(a) + Len(b) = Len(q) - 1
      BY <1>1, <2>6, <2>7
    <3>4. ASSUME NEW i \in 1 .. Len(q) - 1
          PROVE  r[i] = IF i < n THEN q[i] ELSE q[i + 1]
      <4>1. r[i] = IF i <= n - 1 THEN a[i] ELSE b[i - (n - 1)]
        BY <2>6, <3>1, <3>2, <3>3
      <4>2. CASE i < n
        BY <1>1, <2>6, <4>1, <4>2
      <4>3. CASE ~(i < n)
        <5>1. i - (n - 1) \in 1 .. Len(q) - n /\ n + (i - (n - 1)) = i + 1
          BY <1>1, <4>3
        <5> QED
          BY <1>1, <2>7, <4>1, <4>3, <5>1
      <4> QED
        BY <4>2, <4>3
    <3> QED
      BY <3>1, <3>2, <3>3, <3>4
  <2>9. DOMAIN r = 1 .. Len(q) - 1
    BY <2>8, LenProperties
  <2>10. IsInjective(r)
    <3> HIDE DEF r
    <3>1. ASSUME NEW i \in 1 .. Len(q) - 1, NEW j \in 1 .. Len(q) - 1, i < j
          PROVE  r[i] # r[j]
      <4> DEFINE of(x) == IF x < n THEN x ELSE x + 1
      <4>1. of(i) \in 1 .. Len(q) /\ of(j) \in 1 .. Len(q) /\ of(i) # of(j)
        BY <1>1, <3>1
      <4>2. r[i] = q[of(i)] /\ r[j] = q[of(j)]
        BY <2>8
      <4> HIDE DEF of
      <4> QED
        BY <1>1, <4>1, <4>2 DEF IsInjective
    <3>2. \A i, j \in 1 .. Len(q) - 1 : i < j \/ j < i \/ i = j
      BY <1>1
    <3> QED
      BY <2>9, <3>1, <3>2 DEF IsInjective
  <2>11. ToSet(r) \subseteq ToSet(q) \ {e}
    <3> SUFFICES ASSUME NEW i \in 1 .. Len(q) - 1
                 PROVE  r[i] \in ToSet(q) /\ r[i] # e
      BY <2>9 DEF ToSet
    <3> HIDE DEF r
    <3>1. PICK j \in 1 .. Len(q) : j # n /\ r[i] = q[j]
      <4>1. CASE i < n
        BY <1>1, <2>8, <4>1
      <4>2. CASE ~(i < n)
        BY <1>1, <2>8, <4>2
      <4> QED
        BY <4>1, <4>2
    <3> QED
      BY <1>1, <2>1, <3>1 DEF IsInjective, ToSet
  <2>12. ToSet(q) \ {e} \subseteq ToSet(r)
    <3> SUFFICES ASSUME NEW i \in 1 .. Len(q), i # n
                 PROVE  \E j \in 1 .. Len(q) - 1 : r[j] = q[i]
      BY <1>1, <2>1, <2>9 DEF ToSet
    <3>1. CASE i < n
      BY <1>1, <2>8, <3>1
    <3>2. CASE i > n
      <4>1. i - 1 \in 1 .. Len(q) - 1 /\ r[i - 1] = q[i]
        BY <1>1, <2>8, <3>2
      <4> QED
        BY <4>1
    <3> QED
      BY <1>1, <3>1, <3>2
  <2> QED
    BY <1>1, <2>8, <2>10, <2>11, <2>12
<1> QED
  BY <1>2, <1>3

-----------------------------------------------------------------------------
(* The queue of handlers.                                                  *)

LEMMA Kinds ==
  ASSUME NEW w \in Waiting
  PROVE  /\ w.by \in Sockets
         /\ w.at \in Stages \cup {"undone", "find", "init", "del"}
         /\ w.at \in Stages \cup {"undone", "find"} => w.stroke \in Strokes
         /\ w.at = "find" => w.found \in BOOLEAN
         /\ w.at = "init" => w.strokes \in SUBSET Strokes
BY DEF Waiting, Stages

LEMMA Queue ==
  ASSUME TypeOK
  PROVE  /\ Len(pipe) \in Nat /\ DOMAIN pipe = 1 .. Len(pipe)
         /\ \A i \in 1 .. Len(pipe) : pipe[i] \in Waiting
         /\ ToSet(list) \subseteq Strokes
BY DEF TypeOK, ToSet

\* The three ways in which a handler goes on: w is put behind the others, the oldest
\* handler becomes w and goes behind the others, the oldest handler is through.
Grown(w) ==
  /\ DOMAIN pipe = 1 .. Len(pipe) /\ DOMAIN pipe' = 1 .. Len(pipe) + 1
  /\ \A i \in 1 .. Len(pipe) : pipe'[i] = pipe[i]
  /\ pipe'[Len(pipe) + 1] = w
  /\ Len(pipe) \in Nat
Popped ==
  /\ DOMAIN pipe = 1 .. Len(pipe) /\ DOMAIN pipe' = 1 .. Len(pipe) - 1
  /\ \A i \in 1 .. Len(pipe) - 1 : pipe'[i] = pipe[i + 1]
  /\ Head(pipe) = pipe[1] /\ Head(pipe) \in Waiting
  /\ Len(pipe) \in Nat /\ Len(pipe) > 0
Moved(w) ==
  /\ DOMAIN pipe = 1 .. Len(pipe) /\ DOMAIN pipe' = 1 .. Len(pipe)
  /\ \A i \in 1 .. Len(pipe) - 1 : pipe'[i] = pipe[i + 1]
  /\ pipe'[Len(pipe)] = w
  /\ Head(pipe) = pipe[1] /\ Head(pipe) \in Waiting
  /\ Len(pipe) \in Nat /\ Len(pipe) > 0
PipeTyped == pipe \in Seq(Waiting) /\ Len(pipe) <= MaxPipe

LEMMA AwaitGrows ==
  ASSUME TypeOK, NEW w \in Waiting, Await(pipe, w)
  PROVE  Grown(w) /\ PipeTyped'
<1>1. /\ pipe' \in Seq(Waiting) /\ Len(pipe') = Len(pipe) + 1
      /\ \A i \in 1 .. Len(pipe) : pipe'[i] = pipe[i]
      /\ pipe'[Len(pipe) + 1] = w
  BY DEF Await, TypeOK
<1> QED
  BY <1>1, WhiteboardAssumption DEF Grown, PipeTyped, Await

LEMMA TailPops ==
  ASSUME TypeOK, pipe # <<>>, pipe' = Tail(pipe)
  PROVE  Popped /\ PipeTyped'
BY WhiteboardAssumption DEF Popped, PipeTyped, TypeOK

LEMMA AwaitMoves ==
  ASSUME TypeOK, pipe # <<>>, NEW w \in Waiting, Await(Tail(pipe), w)
  PROVE  Moved(w) /\ PipeTyped'
<1> DEFINE q == Tail(pipe)
<1>1. /\ Head(pipe) \in Waiting /\ q \in Seq(Waiting) /\ Len(q) = Len(pipe) - 1
      /\ \A i \in 1 .. Len(q) : q[i] = pipe[i + 1]
  BY DEF TypeOK
<1>2. /\ pipe' \in Seq(Waiting) /\ Len(pipe') = Len(q) + 1
      /\ \A i \in 1 .. Len(q) : pipe'[i] = q[i]
      /\ pipe'[Len(q) + 1] = w
  BY <1>1 DEF Await
<1> HIDE DEF q
<1> QED
  BY <1>1, <1>2 DEF Moved, PipeTyped, TypeOK

\* How many strokes wait for their ltrim.
Counted == IsFiniteSet(Untrimmed) /\ Cardinality(Untrimmed) \in Nat
LEMMA CountFinite == TypeOK => Counted
<1> USE DEF Counted
<1> SUFFICES ASSUME TypeOK PROVE Counted
  OBVIOUS
<1>1. Untrimmed \subseteq 1 .. Len(pipe) /\ IsFiniteSet(1 .. Len(pipe))
  BY Queue, FS_Interval DEF Untrimmed
<1> QED
  BY <1>1, FS_Subset, FS_CardinalityType

LEMMA CountGrown ==
  ASSUME TypeOK, NEW w, Grown(w)
  PROVE  Cardinality(Untrimmed') = Cardinality(Untrimmed) + IF w.at = "rpush" THEN 1 ELSE 0
<1>1. CASE w.at = "rpush"
  <2>1. Untrimmed' = Untrimmed \cup {Len(pipe) + 1} /\ Len(pipe) + 1 \notin Untrimmed
    BY <1>1 DEF Untrimmed, Grown
  <2> QED
    BY <1>1, <2>1, CountFinite, FS_AddElement DEF Counted
<1>2. CASE w.at # "rpush"
  <2>1. Untrimmed' = Untrimmed
    BY <1>2 DEF Untrimmed, Grown
  <2> QED
    BY <1>2, <2>1, CountFinite DEF Counted
<1> QED
  BY <1>1, <1>2

LEMMA CountShifted ==
  ASSUME TypeOK, Head(pipe).at # "rpush",
         \/ Popped
         \/ \E w : Moved(w) /\ w.at # "rpush"
  PROVE  Cardinality(Untrimmed') = Cardinality(Untrimmed)
<1>1. /\ \A i \in Untrimmed' : i + 1 \in Untrimmed
      /\ \A j \in Untrimmed : j - 1 \in Untrimmed'
      /\ Untrimmed \subseteq Nat /\ Untrimmed' \subseteq Nat
  <2>1. CASE Popped
    BY <2>1 DEF Popped, Untrimmed
  <2>2. ASSUME NEW w, Moved(w), w.at # "rpush"
        PROVE  /\ \A i \in Untrimmed' : i + 1 \in Untrimmed
               /\ \A j \in Untrimmed : j - 1 \in Untrimmed'
               /\ Untrimmed \subseteq Nat /\ Untrimmed' \subseteq Nat
    BY <2>2 DEF Moved, Untrimmed
  <2> QED
    BY <2>1, <2>2
<1> DEFINE f == [j \in Untrimmed |-> j - 1]
<1>2. f \in Bijection(Untrimmed, Untrimmed')
  <2>1. f \in [Untrimmed -> Untrimmed']
    BY <1>1
  <2>2. \A i, j \in Untrimmed : f[i] = f[j] => i = j
    BY <1>1
  <2>3. \A i \in Untrimmed' : \E j \in Untrimmed : f[j] = i
    <3> TAKE i \in Untrimmed'
    <3>1. i + 1 \in Untrimmed /\ f[i + 1] = i
      BY <1>1
    <3> QED
      BY <3>1
  <2> QED
    BY <2>1, <2>2, <2>3 DEF Bijection, Injection, Surjection, IsInjective
<1> QED
  BY <1>2, CountFinite, FS_Bijection DEF Counted, ExistsBijection

\* ltrim keeps the end of the list.
LEMMA TrimmedList ==
  ASSUME NEW q \in Seq(Strokes), IsInjective(q)
  PROVE  /\ Trimmed(q) \in Seq(Strokes) /\ ToSet(Trimmed(q)) \subseteq ToSet(q)
         /\ IsInjective(Trimmed(q))
         /\ Len(Trimmed(q)) \in Nat /\ Len(Trimmed(q)) <= StrokeCap
<1>1. Len(q) \in Nat /\ StrokeCap \in Nat \ {0}
  BY WhiteboardAssumption
<1>2. CASE Len(q) <= StrokeCap
  BY <1>2 DEF Trimmed
<1>3. CASE ~(Len(q) <= StrokeCap)
  <2> DEFINE m == Len(q) - StrokeCap + 1
  <2>1. m \in Nat \ {0} /\ Len(q) \in 0 .. Len(q) /\ m <= Len(q) /\ Len(q) - m + 1 = StrokeCap
    BY <1>1, <1>3
  <2>2. Trimmed(q) = SubSeq(q, m, Len(q))
    BY <1>3 DEF Trimmed
  <2> HIDE DEF m
  <2> QED
    BY <1>1, <2>1, <2>2, PartOfSeq
<1> QED
  BY <1>2, <1>3

\* What an undo or clear of c that takes gone off the list leaves unheard of.
Erased(c, gone) ==
  /\ erased' = erased \cup gone
  /\ overtaken' \subseteq erased'
  /\ \A s \in Unheard' :
       \/ s \in Unheard
       \/ /\ s \in gone /\ ~Drawing(s)
          /\ \A i \in DOMAIN pipe : Sends(pipe[i], c) => s \notin pipe[i].strokes

LEMMA Erasing ==
  ASSUME TypeOK, NEW c, NEW gone, Erase(c, gone)
  PROVE  Erased(c, gone)
BY DEF TypeOK, Erase, Erased, Unheard, Sends, ToSet

-----------------------------------------------------------------------------
(* Initially, and each step.                                               *)

LEMMA DrawingAt ==
  /\ \A s : Drawing(s) <=> \E i \in DOMAIN pipe : Draws(pipe[i], s)
  /\ \A c : Opening(c) <=> \E i \in DOMAIN pipe : Sends(pipe[i], c)
  /\ \A s : Drawing(s)' <=> \E i \in DOMAIN pipe' : Draws(pipe'[i], s)
  /\ \A c : Opening(c)' <=> \E i \in DOMAIN pipe' : Sends(pipe'[i], c)
BY DEF Drawing, Opening, Draws, Sends, ToSet

LEMMA IInvInit == Init => IInv
<1> SUFFICES ASSUME Init PROVE IInv
  OBVIOUS
<1>1. DOMAIN list = {} /\ DOMAIN pipe = {} /\ ToSet(list) = {}
  BY DEF Init, ToSet
<1>2. TypeOK
  <2>1. list \in Seq(Strokes) /\ pipe \in Seq(Waiting) /\ Len(pipe) = 0
    BY EmptySeq DEF Init
  <2>2. board \in [Clients -> SUBSET Strokes]
    BY DEF Init
  <2>3. drawn \in [Strokes -> {{}} \cup {{c} : c \in Sockets}]
    BY DEF Init
  <2>4. inRoom \cup silenced \subseteq open /\ open \subseteq Clients
    BY DEF Init
  <2>5. overtaken \subseteq erased /\ erased \subseteq Strokes /\ cut \in BOOLEAN
    BY DEF Init
  <2> QED
    BY <2>1, <2>2, <2>3, <2>4, <2>5, WhiteboardAssumption DEF TypeOK
<1>3. CapKept
  <2>1. Len(list) = 0 /\ Untrimmed = {}
    BY EmptySeq DEF Init, Untrimmed
  <2> QED
    BY <2>1, FS_EmptySet, WhiteboardAssumption DEF CapKept
<1>4. SavedIsShown /\ ListSound /\ HandlersSound
  BY <1>1 DEF SavedIsShown, ListSound, HandlersSound, IsInjective, Init
<1>5. Listening /\ OneInit /\ BroadcastsFollow /\ UndoerHides
  BY DEF Listening, OneInit, BroadcastsFollow, UndoerHides, Init
<1>6. NotDrawnAgain /\ HiddenInTheEnd
  BY DEF NotDrawnAgain, HiddenInTheEnd, Unheard, Init
<1> QED
  BY <1>2, <1>3, <1>4, <1>5, <1>6 DEF IInv

LEMMA JoinStep ==
  ASSUME IInv, NEW c \in Clients, Join(c)
  PROVE  IInv'
<1> DEFINE w == [at |-> "init", by |-> c, strokes |-> ToSet(list)]
<1>1. w \in Waiting /\ w.at = "init" /\ w.by = c /\ w.strokes = ToSet(list)
  BY Queue DEF IInv, Waiting, Sockets
<1>2. Grown(w) /\ PipeTyped'
  BY <1>1, AwaitGrows DEF IInv, Join
<1> HIDE DEF w
<1>3. TypeOK'
  BY <1>2 DEF IInv, TypeOK, Join, PipeTyped
<1>4. CapKept'
  <2>1. Cardinality(Untrimmed') = Cardinality(Untrimmed)
    BY <1>1, <1>2, CountGrown, CountFinite DEF Counted, IInv
  <2> QED
    BY <2>1 DEF IInv, CapKept, Join
<1>5. SavedIsShown'
  BY <1>1, <1>2 DEF IInv, SavedIsShown, Join, Drawing, Opening, ToSet, Grown
<1>6. ListSound'
  BY DEF IInv, ListSound, Join
<1>7. HandlersSound'
  BY <1>1, <1>2 DEF IInv, HandlersSound, Join, Grown, Stages
<1>8. Listening'
  BY DEF IInv, Listening, Join
<1>9. OneInit'
  BY <1>1, <1>2, DrawingAt DEF IInv, OneInit, Join, Sends, Grown
<1>10. BroadcastsFollow'
  BY <1>1, <1>2 DEF IInv, BroadcastsFollow, Join, Carried, Grown
<1>11. UndoerHides'
  BY <1>1, <1>2 DEF IInv, UndoerHides, Join, Grown
<1>12. NotDrawnAgain'
  BY <1>1, <1>2, DrawingAt DEF IInv, NotDrawnAgain, Unheard, Join, Grown, Draws, Stages
<1>13. HiddenInTheEnd'
  BY <1>1, <1>2 DEF IInv, HiddenInTheEnd, Unheard, Hides, Sends, Join, Grown, ListSound
<1> QED
  BY <1>3, <1>4, <1>5, <1>6, <1>7, <1>8, <1>9, <1>10, <1>11, <1>12, <1>13 DEF IInv

-----------------------------------------------------------------------------
(* What the invariant becomes when the oldest handler leaves its place, and at *)
(* most one handler, of the set R, is put behind the others.                   *)

Shifted(R) ==
  /\ DOMAIN pipe \subseteq Nat \ {0} /\ DOMAIN pipe' \subseteq Nat \ {0}
  /\ 1 \in DOMAIN pipe /\ Head(pipe) = pipe[1] /\ Head(pipe) \in Waiting
  /\ \A j \in DOMAIN pipe : j > 1 => j - 1 \in DOMAIN pipe' /\ pipe'[j - 1] = pipe[j]
  /\ \A i \in DOMAIN pipe' :
       \/ i + 1 \in DOMAIN pipe /\ pipe'[i] = pipe[i + 1]
       \/ pipe'[i] \in R
  /\ \A w \in R : \E i \in DOMAIN pipe' :
       pipe'[i] = w /\ \A j \in DOMAIN pipe : j - 1 < i \/ j = 1

LEMMA ShiftedCases ==
  /\ Popped => Shifted({})
  /\ \A w : Moved(w) => Shifted({w})
<1>1. Popped => Shifted({})
  BY DEF Popped, Shifted
<1>2. ASSUME NEW w, Moved(w) PROVE Shifted({w})
  <2>1. /\ DOMAIN pipe \subseteq Nat \ {0} /\ DOMAIN pipe' \subseteq Nat \ {0}
        /\ 1 \in DOMAIN pipe /\ Head(pipe) = pipe[1] /\ Head(pipe) \in Waiting
    BY <1>2 DEF Moved
  <2>2. \A j \in DOMAIN pipe : j > 1 => j - 1 \in DOMAIN pipe' /\ pipe'[j - 1] = pipe[j]
    BY <1>2 DEF Moved
  <2>3. ASSUME NEW i \in DOMAIN pipe'
        PROVE  (i + 1 \in DOMAIN pipe /\ pipe'[i] = pipe[i + 1]) \/ pipe'[i] = w
    BY <1>2 DEF Moved
  <2>4. /\ Len(pipe) \in DOMAIN pipe' /\ pipe'[Len(pipe)] = w
        /\ \A j \in DOMAIN pipe : j - 1 < Len(pipe)
    BY <1>2 DEF Moved
  <2> QED
    BY <2>1, <2>2, <2>3, <2>4 DEF Shifted
<1> QED
  BY <1>1, <1>2

LEMMA DrawingShifted ==
  ASSUME NEW R, Shifted(R), NEW s
  PROVE  /\ Drawing(s) => Draws(Head(pipe), s) \/ Drawing(s)'
         /\ (\E w \in R : Draws(w, s)) => Drawing(s)'
         /\ Drawing(s)' => Drawing(s) \/ \E w \in R : Draws(w, s)
<1>1. ASSUME Drawing(s), ~Draws(Head(pipe), s) PROVE Drawing(s)'
  <2>1. PICK j \in DOMAIN pipe : Draws(pipe[j], s)
    BY <1>1, DrawingAt
  <2>2. j > 1
    BY <1>1, <2>1 DEF Shifted
  <2> QED
    BY <2>1, <2>2, DrawingAt DEF Shifted
<1>2. (\E w \in R : Draws(w, s)) => Drawing(s)'
  BY DrawingAt DEF Shifted
<1>3. Drawing(s)' => Drawing(s) \/ \E w \in R : Draws(w, s)
  BY DrawingAt DEF Shifted
<1> QED
  BY <1>1, <1>2, <1>3

LEMMA OpeningShifted ==
  ASSUME NEW R, Shifted(R), NEW c
  PROVE  Opening(c) => Sends(Head(pipe), c) \/ Opening(c)'
<1> SUFFICES ASSUME Opening(c), ~Sends(Head(pipe), c) PROVE Opening(c)'
  OBVIOUS
<1> QED
  BY DrawingAt DEF Shifted

LEMMA HandlersShifted ==
  ASSUME HandlersSound, NEW R, Shifted(R),
         open' = open, drawn' = drawn, ToSet(list') \subseteq ToSet(list),
         \A w \in R :
           /\ w.by \in open \cup {Closed} /\ drawn[w.stroke] = {w.by} /\ w.at # "find"
           /\ w.at = "undone" => w.stroke \notin ToSet(list')
  PROVE  HandlersSound'
<1> SUFFICES ASSUME NEW i \in DOMAIN pipe'
             PROVE  /\ pipe'[i].by \in open \cup {Closed}
                    /\ pipe'[i].at \in Stages \cup {"find", "undone"} =>
                         drawn[pipe'[i].stroke] = {pipe'[i].by}
                    /\ pipe'[i].at = "undone" => pipe'[i].stroke \notin ToSet(list')
                    /\ pipe'[i].at = "find" =>
                         (pipe'[i].found \/ pipe'[i].stroke \notin ToSet(list'))
  BY DEF HandlersSound
<1>1. CASE i + 1 \in DOMAIN pipe /\ pipe'[i] = pipe[i + 1]
  BY <1>1 DEF HandlersSound
<1> QED
  BY <1>1 DEF Shifted

LEMMA HeadSound ==
  ASSUME HandlersSound, NEW R, Shifted(R), NEW w, w = Head(pipe)
  PROVE  /\ w.by \in open \cup {Closed}
         /\ w.at \in Stages \cup {"find", "undone"} => drawn[w.stroke] = {w.by}
         /\ w.at = "undone" => w.stroke \notin ToSet(list)
         /\ w.at = "find" => (w.found \/ w.stroke \notin ToSet(list))
BY DEF HandlersSound, Shifted

LEMMA OneInitShifted ==
  ASSUME OneInit, NEW R, Shifted(R), \A w \in R : w.at # "init"
  PROVE  OneInit'
<1> SUFFICES ASSUME NEW c \in Clients, NEW i \in DOMAIN pipe', NEW j \in DOMAIN pipe',
                    Sends(pipe'[i], c), Sends(pipe'[j], c)
             PROVE  i = j
  BY DEF OneInit
<1>1. /\ i + 1 \in DOMAIN pipe /\ pipe'[i] = pipe[i + 1]
      /\ j + 1 \in DOMAIN pipe /\ pipe'[j] = pipe[j + 1]
  BY DEF Shifted, Sends
<1>2. i + 1 = j + 1
  BY <1>1 DEF OneInit
<1> QED
  BY <1>2 DEF Shifted

LEMMA FollowShifted ==
  ASSUME BroadcastsFollow, NEW R, Shifted(R), \A w \in R : w.at \notin {"init", "del"},
         ToSet(list') \subseteq ToSet(list)
  PROVE  BroadcastsFollow'
<1> SUFFICES ASSUME NEW i \in DOMAIN pipe', NEW s \in ToSet(list),
                    pipe'[i].at \in {"init", "del"}, s \notin Carried(pipe'[i])
             PROVE  \E j \in DOMAIN pipe' : j > i /\ Draws(pipe'[j], s)
  BY DEF BroadcastsFollow
<1>1. i + 1 \in DOMAIN pipe /\ pipe'[i] = pipe[i + 1]
  BY DEF Shifted
<1>2. PICK j \in DOMAIN pipe : j > i + 1 /\ Draws(pipe[j], s)
  BY <1>1 DEF BroadcastsFollow
<1>3. j \in Nat /\ i \in Nat /\ j - 1 > i /\ j > 1
  BY <1>2 DEF Shifted
<1>4. j - 1 \in DOMAIN pipe' /\ pipe'[j - 1] = pipe[j]
  BY <1>3 DEF Shifted
<1> QED
  BY <1>2, <1>3, <1>4

LEMMA UndoerShifted ==
  ASSUME UndoerHides, NEW R, Shifted(R), \A w \in R : w.at \notin {"find", "init"},
         \A c \in Clients : \A i \in DOMAIN pipe :
           /\ i > 1 /\ pipe[i].at = "find" /\ pipe[i].by = c
           /\ pipe[i].stroke \notin board[c]
           => pipe[i].stroke \notin board'[c]
  PROVE  UndoerHides'
<1> SUFFICES ASSUME NEW c \in Clients, NEW i \in DOMAIN pipe',
                    pipe'[i].at = "find", pipe'[i].by = c
             PROVE  /\ pipe'[i].stroke \notin board'[c]
                    /\ \A k \in DOMAIN pipe' : Sends(pipe'[k], c) => k > i
  BY DEF UndoerHides
<1>1. i + 1 \in DOMAIN pipe /\ pipe'[i] = pipe[i + 1] /\ i + 1 > 1 /\ i \in Nat
  BY DEF Shifted
<1>2. pipe[i + 1].stroke \notin board[c]
  BY <1>1 DEF UndoerHides
<1>3. ASSUME NEW k \in DOMAIN pipe', Sends(pipe'[k], c) PROVE k > i
  <2>1. k + 1 \in DOMAIN pipe /\ pipe'[k] = pipe[k + 1] /\ k \in Nat
    BY <1>3 DEF Shifted, Sends
  <2>2. k + 1 > i + 1
    BY <1>1, <1>3, <2>1 DEF UndoerHides
  <2> QED
    BY <1>1, <2>1, <2>2
<1> QED
  BY <1>1, <1>2, <1>3

LEMMA HiddenShifted ==
  ASSUME HiddenInTheEnd, NEW R, Shifted(R), \A w \in R : w.at # "init",
         open' = open, silenced' = silenced,
         \A c \in open \ silenced : \A s \in Unheard : s \in board'[c] =>
           \/ s \in board[c] /\ ~Hides(Head(pipe), c, s)
           \/ Sends(Head(pipe), c) /\ s \in Head(pipe).strokes,
         \A c \in open \ silenced : \A s \in Unheard' \ Unheard :
           \/ \E w \in R : Hides(w, c, s)
           \/ /\ s \notin board'[c]
              /\ \A k \in DOMAIN pipe : Sends(pipe[k], c) => s \notin pipe[k].strokes
  PROVE  HiddenInTheEnd'
<1> SUFFICES ASSUME NEW c \in open \ silenced, NEW s \in Unheard'
             PROVE  /\ s \in board'[c] => \E j \in DOMAIN pipe' : Hides(pipe'[j], c, s)
                    /\ \A k \in DOMAIN pipe' : Sends(pipe'[k], c) /\ s \in pipe'[k].strokes =>
                         \E j \in DOMAIN pipe' : j > k /\ Hides(pipe'[j], c, s)
  BY DEF HiddenInTheEnd
<1>1. ASSUME NEW k \in DOMAIN pipe', Sends(pipe'[k], c)
      PROVE  k + 1 \in DOMAIN pipe /\ pipe'[k] = pipe[k + 1] /\ k \in Nat
  BY <1>1 DEF Shifted, Sends
<1>2. ASSUME NEW j \in DOMAIN pipe, j > 1
      PROVE  j \in Nat /\ j - 1 \in DOMAIN pipe' /\ pipe'[j - 1] = pipe[j]
  BY <1>2 DEF Shifted
<1>3. CASE s \in Unheard
  <2>1. ASSUME s \in board'[c]
        PROVE  \E j \in DOMAIN pipe' : Hides(pipe'[j], c, s)
    <3>1. PICK j \in DOMAIN pipe : j > 1 /\ Hides(pipe[j], c, s)
      <4>1. CASE s \in board[c] /\ ~Hides(Head(pipe), c, s)
        <5>1. PICK j \in DOMAIN pipe : Hides(pipe[j], c, s)
          BY <1>3, <4>1 DEF HiddenInTheEnd
        <5>2. j > 1
          BY <4>1, <5>1 DEF Shifted
        <5> QED
          BY <5>1, <5>2
      <4>2. CASE Sends(Head(pipe), c) /\ s \in Head(pipe).strokes
        BY <1>3, <4>2 DEF HiddenInTheEnd, Shifted
      <4> QED
        BY <1>3, <2>1, <4>1, <4>2
    <3> QED
      BY <1>2, <3>1
  <2>2. ASSUME NEW k \in DOMAIN pipe', Sends(pipe'[k], c), s \in pipe'[k].strokes
        PROVE  \E j \in DOMAIN pipe' : j > k /\ Hides(pipe'[j], c, s)
    <3>1. k + 1 \in DOMAIN pipe /\ pipe'[k] = pipe[k + 1] /\ k \in Nat
      BY <1>1, <2>2
    <3>2. PICK j \in DOMAIN pipe : j > k + 1 /\ Hides(pipe[j], c, s)
      BY <1>3, <2>2, <3>1 DEF HiddenInTheEnd
    <3>3. j \in Nat /\ j > 1 /\ j - 1 > k
      BY <3>1, <3>2 DEF Shifted
    <3>4. j - 1 \in DOMAIN pipe' /\ pipe'[j - 1] = pipe[j]
      BY <1>2, <3>3
    <3> QED
      BY <3>2, <3>3, <3>4
  <2> QED
    BY <2>1, <2>2
<1>4. CASE s \notin Unheard /\ \E w \in R : Hides(w, c, s)
  <2>1. PICK w \in R : Hides(w, c, s)
    BY <1>4
  <2>2. PICK j \in DOMAIN pipe' :
          pipe'[j] = w /\ \A k \in DOMAIN pipe : k - 1 < j \/ k = 1
    BY <2>1 DEF Shifted
  <2>3. ASSUME NEW k \in DOMAIN pipe', Sends(pipe'[k], c) PROVE j > k
    <3>1. k + 1 \in DOMAIN pipe /\ k \in Nat /\ k + 1 # 1 /\ j \in Nat
      BY <1>1, <2>3 DEF Shifted
    <3>2. (k + 1) - 1 < j
      BY <2>2, <3>1
    <3> QED
      BY <3>1, <3>2
  <2> QED
    BY <2>1, <2>2, <2>3
<1>5. CASE s \notin Unheard /\ ~\E w \in R : Hides(w, c, s)
  BY <1>1, <1>5
<1> QED
  BY <1>3, <1>4, <1>5

LEMMA StrokeStep ==
  ASSUME IInv, NEW c \in Clients, NEW s \in Strokes,
         Stroke(c, s)
  PROVE  IInv'
<1> DEFINE w == [at |-> "rpush", by |-> c, stroke |-> s]
<1>1. /\ w \in Waiting /\ w.at = "rpush" /\ w.by = c /\ w.stroke = s
      /\ drawn[s] = {} /\ c \in open
  BY DEF Waiting, Sockets, Stages, Stroke, Ready
<1>2. Grown(w) /\ PipeTyped'
  BY <1>1, AwaitGrows DEF IInv, Stroke
<1>3. s \notin ToSet(list) /\ s \notin erased
  BY <1>1 DEF IInv, ListSound
<1>4. /\ ToSet(list') = ToSet(list) \cup {s} /\ IsInjective(list')
      /\ list' \in Seq(Strokes) /\ Len(list') = Len(list) + 1 /\ Len(list) \in Nat
  BY AppendedSeq DEF IInv, TypeOK, ListSound, Stroke
<1>5. /\ drawn' \in [Strokes -> {{}} \cup {{d} : d \in Sockets}]
      /\ drawn'[s] = {c} /\ \A x \in Strokes \ {s} : drawn'[x] = drawn[x]
      /\ \A x : drawn[x] # {} /\ x \in Strokes => drawn'[x] = drawn[x]
  BY DEF IInv, TypeOK, Stroke, Sockets
<1>6. /\ board' \in [Clients -> SUBSET Strokes]
      /\ \A d \in Clients : board'[d] = IF d = c THEN board[d] \cup {s} ELSE board[d]
  BY DEF IInv, TypeOK, Stroke
<1>7. ToSet(list) \subseteq Strokes /\ erased \subseteq Strokes /\ open \subseteq Clients
  BY Queue DEF IInv, TypeOK
<1>8. ASSUME NEW i \in DOMAIN pipe
      PROVE  pipe[i] \in Waiting /\ (Draws(pipe[i], s) => FALSE)
             /\ (pipe[i].at = "find" => pipe[i].stroke # s)
  BY <1>1, Queue DEF IInv, HandlersSound, Draws
<1>9. \A x : Drawing(x) => Drawing(x)'
  BY <1>2, DrawingAt DEF Grown
<1>10. Drawing(s)'
  BY <1>2, DrawingAt DEF Grown, Draws, Stages
<1> HIDE DEF w
<1>11. TypeOK'
  BY <1>2, <1>5, <1>4 DEF IInv, TypeOK, Stroke, PipeTyped, pages
<1>12. CapKept'
  <2>1. Cardinality(Untrimmed') = Cardinality(Untrimmed) + 1
    BY <1>1, <1>2, CountGrown DEF IInv
  <2> QED
    BY <1>4, <2>1, CountFinite, WhiteboardAssumption DEF Counted, IInv, CapKept, Stroke
<1>13. SavedIsShown'
  <2> SUFFICES ASSUME NEW d \in open \ silenced, NEW x \in ToSet(list) \cup {s}
               PROVE  x \in board'[d] \/ drawn'[x] = {d} \/ Drawing(x)' \/ Opening(d)'
    BY <1>4 DEF SavedIsShown, Stroke, pages
  <2>1. Opening(d) => Opening(d)'
    BY <1>2, DrawingAt DEF Grown
  <2>2. CASE x # s
    BY <1>5, <1>6, <1>7, <1>9, <2>1, <2>2 DEF IInv, SavedIsShown
  <2> QED
    BY <1>10, <2>2
<1>14. ListSound'
  BY <1>4, <1>5 DEF IInv, ListSound, Stroke
<1>15. HandlersSound'
  <2>1. ASSUME NEW i \in DOMAIN pipe
        PROVE  /\ pipe[i].by \in open \cup {Closed}
               /\ pipe[i].at \in Stages \cup {"find", "undone"} =>
                    drawn'[pipe[i].stroke] = {pipe[i].by}
               /\ pipe[i].at = "undone" => pipe[i].stroke \notin ToSet(list')
               /\ pipe[i].at = "find" => (pipe[i].found \/ pipe[i].stroke \notin ToSet(list'))
    <3>1. /\ pipe[i].by \in open \cup {Closed}
          /\ pipe[i].at \in Stages \cup {"find", "undone"} => drawn[pipe[i].stroke] = {pipe[i].by}
          /\ pipe[i].at = "undone" => pipe[i].stroke \notin ToSet(list)
          /\ pipe[i].at = "find" => (pipe[i].found \/ pipe[i].stroke \notin ToSet(list))
      BY DEF IInv, HandlersSound
    <3>2. pipe[i].at \in Stages \cup {"find", "undone"} =>
            pipe[i].stroke \in Strokes /\ pipe[i].stroke # s
      BY <1>1, <1>8, <3>1, Kinds
    <3> QED
      BY <1>4, <1>5, <3>1, <3>2
  <2>2. /\ w.by \in open \cup {Closed} /\ drawn'[w.stroke] = {w.by}
        /\ w.at # "undone" /\ w.at # "find"
    BY <1>1, <1>5
  <2>3. open' = open
    BY DEF Stroke, pages
  <2>4. \A i \in DOMAIN pipe' : pipe'[i] = w \/ (i \in DOMAIN pipe /\ pipe'[i] = pipe[i])
    BY <1>2 DEF Grown
  <2> QED
    BY <1>1, <2>1, <2>2, <2>3, <2>4 DEF HandlersSound
<1>16. Listening'
  BY DEF IInv, Listening, Stroke, pages
<1>17. OneInit'
  BY <1>1, <1>2 DEF IInv, OneInit, Sends, Grown
<1>18. BroadcastsFollow'
  <2> SUFFICES ASSUME NEW i \in DOMAIN pipe', NEW x \in ToSet(list) \cup {s},
                      pipe'[i].at \in {"init", "del"}, x \notin Carried(pipe'[i])
               PROVE  \E j \in DOMAIN pipe' : j > i /\ Draws(pipe'[j], x)
    BY <1>4 DEF BroadcastsFollow, Carried, Draws
  <2>1. i \in DOMAIN pipe /\ pipe'[i] = pipe[i]
    BY <1>1, <1>2 DEF Grown
  <2>2. CASE x = s
    BY <1>1, <1>2, <2>1, <2>2 DEF Grown, Draws, Stages
  <2>3. CASE x # s
    <3>1. PICK j \in DOMAIN pipe : j > i /\ Draws(pipe[j], x)
      BY <2>1, <2>3 DEF IInv, BroadcastsFollow
    <3> QED
      BY <1>2, <3>1 DEF Grown
  <2> QED
    BY <2>2, <2>3
<1>19. UndoerHides'
  <2> SUFFICES ASSUME NEW d \in Clients, NEW i \in DOMAIN pipe',
                      pipe'[i].at = "find", pipe'[i].by = d
               PROVE  /\ pipe'[i].stroke \notin board'[d]
                      /\ \A k \in DOMAIN pipe' : Sends(pipe'[k], d) => k > i
    BY DEF UndoerHides, Sends
  <2>1. i \in DOMAIN pipe /\ pipe'[i] = pipe[i]
    BY <1>1, <1>2 DEF Grown
  <2>2. pipe[i].stroke \notin board[d] /\ \A k \in DOMAIN pipe : Sends(pipe[k], d) => k > i
    BY <2>1 DEF IInv, UndoerHides
  <2>3. pipe[i].stroke # s
    BY <1>8, <2>1
  <2> QED
    BY <1>1, <1>2, <1>6, <2>1, <2>2, <2>3 DEF Grown, Sends
<1>20. NotDrawnAgain'
  BY <1>1, <1>2, <1>3, DrawingAt DEF IInv, NotDrawnAgain, Unheard, Stroke, Draws, Grown
<1>21. HiddenInTheEnd'
  <2> SUFFICES ASSUME NEW d \in open \ silenced, NEW x \in Unheard
               PROVE  /\ x \in board'[d] => \E j \in DOMAIN pipe' : Hides(pipe'[j], d, x)
                      /\ \A k \in DOMAIN pipe' : Sends(pipe'[k], d) /\ x \in pipe'[k].strokes =>
                           \E j \in DOMAIN pipe' : j > k /\ Hides(pipe'[j], d, x)
    BY DEF HiddenInTheEnd, Unheard, Stroke, pages, Hides, Sends
  <2>1. x # s
    BY <1>3 DEF Unheard
  <2>2. x \in board'[d] => x \in board[d]
    BY <1>6, <1>7, <2>1
  <2>3. ASSUME NEW k \in DOMAIN pipe', Sends(pipe'[k], d)
        PROVE  k \in DOMAIN pipe /\ pipe'[k] = pipe[k]
    BY <1>1, <1>2, <2>3 DEF Grown, Sends
  <2>4. \A j \in DOMAIN pipe : j \in DOMAIN pipe' /\ pipe'[j] = pipe[j]
    BY <1>2 DEF Grown
  <2> QED
    BY <2>2, <2>3, <2>4 DEF IInv, HiddenInTheEnd
<1> QED
  BY <1>11, <1>12, <1>13, <1>14, <1>15, <1>16, <1>17, <1>18, <1>19, <1>20, <1>21 DEF IInv

LEMMA UndoStep ==
  ASSUME IInv, NEW c \in Clients, NEW s \in Strokes,
         Undo(c, s)
  PROVE  IInv'
<1> DEFINE w == [at |-> "find", by |-> c, stroke |-> s, found |-> s \in ToSet(list)]
<1>1. /\ w \in Waiting /\ w.at = "find" /\ w.by = c /\ w.stroke = s
      /\ w.found = (s \in ToSet(list)) /\ drawn[s] = {c} /\ c \in open
  BY DEF Waiting, Sockets, Undo, Ready
<1>2. Grown(w) /\ PipeTyped'
  BY <1>1, AwaitGrows DEF IInv, Undo
<1>3. \A i \in DOMAIN pipe : ~Sends(pipe[i], c)
  BY DrawingAt DEF Undo, Ready
<1>4. \A d \in Clients : board'[d] = IF d = c THEN board[d] \ {s} ELSE board[d]
  BY DEF IInv, TypeOK, Undo
<1> HIDE DEF w
<1>5. TypeOK'
  BY <1>2 DEF IInv, TypeOK, Undo, PipeTyped, pages
<1>6. CapKept'
  <2>1. Cardinality(Untrimmed') = Cardinality(Untrimmed)
    BY <1>1, <1>2, <1>3, <1>4, CountGrown, CountFinite DEF Counted, IInv
  <2> QED
    BY <1>1, <1>2, <1>3, <1>4, <2>1 DEF IInv, CapKept, Undo
<1>7. SavedIsShown'
  <2> SUFFICES ASSUME NEW d \in open \ silenced, NEW x \in ToSet(list)
               PROVE  x \in board'[d] \/ drawn[x] = {d} \/ Drawing(x)' \/ Opening(d)'
    BY DEF SavedIsShown, Undo, pages
  <2>1. (Opening(d) => Opening(d)') /\ (Drawing(x) => Drawing(x)')
    BY <1>2, DrawingAt DEF Grown
  <2>2. d \in Clients
    BY DEF IInv, TypeOK
  <2>3. x \in board[d] => x \in board'[d] \/ drawn[x] = {d}
    BY <1>1, <1>4, <2>2
  <2> QED
    BY <2>1, <2>3 DEF IInv, SavedIsShown
<1>8. ListSound'
  BY DEF IInv, ListSound, Undo
<1>9. HandlersSound'
  <2>1. /\ w.by \in open \cup {Closed} /\ drawn[w.stroke] = {w.by}
        /\ w.at # "undone" /\ (w.found \/ w.stroke \notin ToSet(list))
    BY <1>1
  <2>2. open' = open /\ drawn' = drawn /\ list' = list
    BY DEF Undo, pages
  <2> QED
    BY <1>2, <2>1, <2>2 DEF IInv, HandlersSound, Grown
<1>10. Listening'
  BY DEF IInv, Listening, Undo, pages
<1>11. OneInit'
  BY <1>1, <1>2 DEF IInv, OneInit, Sends, Grown
<1>12. BroadcastsFollow'
  BY <1>1, <1>2 DEF IInv, BroadcastsFollow, Undo, Grown
<1>13. UndoerHides'
  <2> SUFFICES ASSUME NEW d \in Clients, NEW i \in DOMAIN pipe',
                      pipe'[i].at = "find", pipe'[i].by = d
               PROVE  /\ pipe'[i].stroke \notin board'[d]
                      /\ \A k \in DOMAIN pipe' : Sends(pipe'[k], d) => k > i
    BY DEF UndoerHides, Sends
  <2>1. \A k \in DOMAIN pipe' : Sends(pipe'[k], d) => k \in DOMAIN pipe /\ pipe'[k] = pipe[k]
    BY <1>1, <1>2 DEF Grown, Sends
  <2>2. CASE i \in DOMAIN pipe
    <3>1. pipe'[i] = pipe[i]
      BY <1>2, <2>2 DEF Grown
    <3>2. pipe[i].stroke \notin board[d] /\ \A k \in DOMAIN pipe : Sends(pipe[k], d) => k > i
      BY <2>2, <3>1 DEF IInv, UndoerHides
    <3> QED
      BY <1>4, <2>1, <3>1, <3>2
  <2>3. CASE i \notin DOMAIN pipe
    <3>1. pipe'[i] = w
      BY <1>2, <2>3 DEF Grown
    <3> QED
      BY <1>1, <1>3, <1>4, <2>1, <3>1
  <2> QED
    BY <2>2, <2>3
<1>14. NotDrawnAgain'
  BY <1>1, <1>2, DrawingAt DEF IInv, NotDrawnAgain, Unheard, Undo, Draws, Stages, Grown
<1>15. HiddenInTheEnd'
  BY <1>1, <1>2 DEF IInv, HiddenInTheEnd, Unheard, Sends, Undo, pages, Grown
<1> QED
  BY <1>5, <1>6, <1>7, <1>8, <1>9, <1>10, <1>11, <1>12, <1>13, <1>14, <1>15 DEF IInv

LEMMA ClearStep ==
  ASSUME IInv, NEW c \in Clients, Clear(c)
  PROVE  IInv'
<1> DEFINE w == [at |-> "del", by |-> c]
<1>1. w \in Waiting /\ w.at = "del" /\ w.by = c /\ c \in open
  BY DEF Waiting, Sockets, Clear, Ready
<1>2. Grown(w) /\ PipeTyped'
  BY <1>1, AwaitGrows DEF IInv, Clear
<1>3. \A i \in DOMAIN pipe : ~Sends(pipe[i], c)
  BY DrawingAt DEF Clear, Ready
<1>4. /\ board' \in [Clients -> SUBSET Strokes]
      /\ \A d \in Clients : board'[d] = IF d = c THEN {} ELSE board[d]
  BY DEF IInv, TypeOK, Clear
<1>5. /\ ToSet(list') = {} /\ list' \in Seq(Strokes) /\ Len(list') = 0 /\ IsInjective(list')
  BY DEF Clear, ToSet, IsInjective
<1>6. Erased(c, ToSet(list)) /\ ToSet(list) \subseteq Strokes
  BY Erasing, Queue DEF IInv, Clear
<1> HIDE DEF w
<1>7. TypeOK'
  BY <1>2, <1>6 DEF IInv, TypeOK, Clear, PipeTyped, pages, Erased
<1>8. CapKept'
  <2>1. Cardinality(Untrimmed') \in Nat
    <3>1. Cardinality(Untrimmed') = Cardinality(Untrimmed)
      BY <1>1, <1>2, CountGrown, CountFinite DEF Counted, IInv
    <3> QED
      BY <3>1, CountFinite DEF Counted, IInv
  <2> QED
    BY <1>5, <2>1, WhiteboardAssumption DEF CapKept
<1>9. SavedIsShown'
  BY <1>5 DEF SavedIsShown
<1>10. ListSound'
  <2>1. drawn' = drawn /\ erased' = erased \cup ToSet(list)
    BY <1>6 DEF Clear, Erased
  <2> QED
    BY <1>5, <2>1 DEF IInv, ListSound
<1>11. HandlersSound'
  BY <1>1, <1>2, <1>4, <1>5 DEF IInv, HandlersSound, Clear, Stages, pages, Grown
<1>12. Listening'
  BY DEF IInv, Listening, Clear, pages
<1>13. OneInit'
  BY <1>1, <1>2 DEF IInv, OneInit, Sends, Grown
<1>14. BroadcastsFollow'
  BY <1>5 DEF BroadcastsFollow
<1>15. UndoerHides'
  BY <1>1, <1>2 DEF IInv, UndoerHides, Clear, Grown
<1>16. NotDrawnAgain'
  <2> SUFFICES ASSUME NEW s \in Unheard' PROVE ~Drawing(s)'
    BY DEF NotDrawnAgain
  <2>1. ~Drawing(s)
    BY <1>6 DEF IInv, NotDrawnAgain, Erased
  <2> QED
    BY <1>1, <1>2, <2>1, DrawingAt DEF Grown, Draws, Stages
<1>17. HiddenInTheEnd'
  <2> SUFFICES ASSUME NEW d \in open \ silenced, NEW s \in Unheard'
               PROVE  /\ s \in board'[d] => \E j \in DOMAIN pipe' : Hides(pipe'[j], d, s)
                      /\ \A k \in DOMAIN pipe' : Sends(pipe'[k], d) /\ s \in pipe'[k].strokes =>
                           \E j \in DOMAIN pipe' : j > k /\ Hides(pipe'[j], d, s)
    BY DEF HiddenInTheEnd, Clear, pages, Hides, Sends
  <2>1. ASSUME NEW k \in DOMAIN pipe', Sends(pipe'[k], d)
        PROVE  k \in DOMAIN pipe /\ pipe'[k] = pipe[k]
    BY <1>1, <1>2, <2>1 DEF Grown, Sends
  <2>2. CASE d = c
    <3>1. d \in Clients
      BY <2>2
    <3> QED
      BY <1>3, <1>4, <2>1, <2>2, <3>1
  <2>3. CASE d # c
    <3>1. /\ Len(pipe) + 1 \in DOMAIN pipe' /\ Hides(pipe'[Len(pipe) + 1], d, s)
          /\ \A k \in DOMAIN pipe : Len(pipe) + 1 > k
      BY <1>1, <1>2, <2>3 DEF Grown, Hides
    <3> QED
      BY <2>1, <3>1
  <2> QED
    BY <2>2, <2>3
<1> QED
  BY <1>7, <1>8, <1>9, <1>10, <1>11, <1>12, <1>13, <1>14, <1>15, <1>16, <1>17 DEF IInv

LEMMA SendInitStep ==
  ASSUME IInv, SendInit
  PROVE  IInv'
<1>1. pipe # <<>> /\ Head(pipe).at = "init"
  BY DEF SendInit, Answered
<1>2. Popped /\ PipeTyped' /\ Shifted({})
  BY <1>1, TailPops, ShiftedCases DEF IInv, SendInit
<1>3. Head(pipe) \in Waiting /\ Head(pipe).strokes \in SUBSET Strokes
  BY <1>1, <1>2, Kinds DEF Popped
<1>4. /\ board' \in [Clients -> SUBSET Strokes]
      /\ \A c \in Clients : board'[c] =
           IF c = Head(pipe).by /\ c \in open THEN Head(pipe).strokes ELSE board[c]
  BY <1>3 DEF IInv, TypeOK, SendInit
<1>5. /\ list' = list /\ drawn' = drawn /\ open' = open /\ silenced' = silenced
      /\ erased' = erased /\ overtaken' = overtaken /\ open \subseteq Clients
  BY DEF SendInit, pages, IInv, TypeOK
<1>6. \A s : ~Draws(Head(pipe), s)
  BY <1>1 DEF Draws, Stages
<1>7. TypeOK'
  BY <1>2, <1>4 DEF IInv, TypeOK, SendInit, PipeTyped, pages
<1>8. CapKept'
  <2>1. Cardinality(Untrimmed') = Cardinality(Untrimmed)
    BY <1>1, <1>2, <1>3, <1>4, CountShifted DEF IInv
  <2> QED
    BY <1>1, <1>2, <1>3, <1>4, <2>1 DEF IInv, CapKept, SendInit
<1>9. SavedIsShown'
  <2> SUFFICES ASSUME NEW c \in open \ silenced, NEW s \in ToSet(list)
               PROVE  s \in board'[c] \/ drawn[s] = {c} \/ Drawing(s)' \/ Opening(c)'
    BY <1>5 DEF SavedIsShown
  <2>1. Drawing(s) => Drawing(s)'
    BY <1>2, <1>6, DrawingShifted
  <2>2. CASE Sends(Head(pipe), c)
    <3>1. s \in Head(pipe).strokes \/ Drawing(s)
      BY <1>1, <1>2, DrawingAt DEF IInv, BroadcastsFollow, Carried, Shifted
    <3> QED
      BY <1>4, <1>5, <2>1, <2>2, <3>1 DEF Sends
  <2>3. CASE ~Sends(Head(pipe), c)
    <3>1. Opening(c) => Opening(c)'
      BY <1>2, <2>3, OpeningShifted
    <3>2. board'[c] = board[c]
      BY <1>1, <1>4, <1>5, <2>3 DEF Sends
    <3> QED
      BY <2>1, <3>1, <3>2 DEF IInv, SavedIsShown
  <2> QED
    BY <2>2, <2>3
<1>10. ListSound'
  BY DEF IInv, ListSound, SendInit
<1>11. HandlersSound'
  BY <1>2, <1>4 DEF IInv, HandlersSound, SendInit, Stages, pages, Popped
<1>12. Listening'
  BY DEF IInv, Listening, SendInit, pages
<1>13. OneInit'
  BY <1>2, OneInitShifted DEF IInv
<1>14. BroadcastsFollow'
  BY <1>2, FollowShifted DEF IInv, SendInit
<1>15. UndoerHides'
  <2>1. ASSUME NEW c \in Clients, NEW i \in DOMAIN pipe, i > 1,
               pipe[i].at = "find", pipe[i].by = c
        PROVE  board'[c] = board[c]
    <3>1. ~Sends(Head(pipe), c)
      <4>1. 1 \in DOMAIN pipe /\ Head(pipe) = pipe[1] /\ i \in Nat /\ ~(1 > i)
        BY <1>2, <2>1 DEF Shifted
      <4> QED
        BY <2>1, <4>1 DEF IInv, UndoerHides
    <3> QED
      BY <1>1, <1>4, <3>1 DEF Sends
  <2> QED
    BY <1>2, <2>1, UndoerShifted DEF IInv
<1>16. NotDrawnAgain'
  BY <1>2, <1>5, DrawingShifted DEF IInv, NotDrawnAgain, Unheard
<1>17. HiddenInTheEnd'
  <2>1. ASSUME NEW c \in open \ silenced, NEW s \in Unheard, s \in board'[c]
        PROVE  \/ s \in board[c] /\ ~Hides(Head(pipe), c, s)
               \/ Sends(Head(pipe), c) /\ s \in Head(pipe).strokes
    BY <1>1, <1>4, <1>5, <2>1 DEF Hides, Sends
  <2>2. Unheard' = Unheard
    BY <1>5 DEF Unheard
  <2> QED
    BY <1>2, <1>5, <2>1, <2>2, HiddenShifted DEF IInv
<1> QED
  BY <1>7, <1>8, <1>9, <1>10, <1>11, <1>12, <1>13, <1>14, <1>15, <1>16, <1>17 DEF IInv

LEMMA TrimStep ==
  ASSUME IInv, Trim
  PROVE  IInv'
<1> DEFINE w == [Head(pipe) EXCEPT !.at = "ltrim"]
<1>1. pipe # <<>> /\ Head(pipe).at = "rpush" /\ Head(pipe) \in Waiting
  BY DEF Trim, Answered, IInv, TypeOK
<1>2. /\ w \in Waiting /\ w.at = "ltrim" /\ w.by = Head(pipe).by
      /\ w.stroke = Head(pipe).stroke
  BY <1>1 DEF Waiting, Stages
<1>3. Moved(w) /\ PipeTyped' /\ Shifted({w})
  BY <1>1, <1>2, AwaitMoves, ShiftedCases DEF IInv, Trim
<1>4. /\ list' \in Seq(Strokes) /\ ToSet(list') \subseteq ToSet(list) /\ IsInjective(list')
      /\ Len(list') \in Nat /\ Len(list') <= StrokeCap
  BY TrimmedList DEF IInv, TypeOK, ListSound, Trim
<1>5. /\ ToSet(list') \subseteq ToSet(list) /\ drawn' = drawn /\ board' = board
      /\ open' = open /\ silenced' = silenced /\ erased' = erased /\ overtaken' = overtaken
  BY <1>4 DEF Trim, pages
<1> HIDE DEF w
<1>6. TypeOK'
  BY <1>3, <1>4 DEF IInv, TypeOK, Trim, PipeTyped, pages
<1>7. CapKept'
  <2>1. Cardinality(Untrimmed') \in Nat
    <3>1. Counted'
      BY <1>6, CountFinite, PTL
    <3> QED
      BY <3>1 DEF Counted
  <2> QED
    BY <1>4, <2>1, WhiteboardAssumption DEF CapKept
<1>8. SavedIsShown'
  <2> SUFFICES ASSUME NEW c \in open \ silenced, NEW s \in ToSet(list)
               PROVE  s \in board[c] \/ drawn[s] = {c} \/ Drawing(s)' \/ Opening(c)'
    BY <1>5 DEF SavedIsShown
  <2>1. Opening(c) => Opening(c)'
    BY <1>1, <1>3, OpeningShifted DEF Sends
  <2>2. Drawing(s) => Drawing(s)'
    BY <1>1, <1>2, <1>3, DrawingShifted DEF Draws, Stages
  <2> QED
    BY <2>1, <2>2 DEF IInv, SavedIsShown
<1>9. ListSound'
  BY <1>4 DEF IInv, ListSound, Trim
<1>10. HandlersSound'
  <2>1. /\ w.by \in open \cup {Closed} /\ drawn[w.stroke] = {w.by}
        /\ w.at # "undone" /\ w.at # "find"
    <3>1. drawn[Head(pipe).stroke] = {Head(pipe).by} /\ Head(pipe).by \in open \cup {Closed}
      BY <1>1, <1>3, HeadSound DEF IInv, Stages
    <3> QED
      BY <1>2, <3>1
  <2> QED
    BY <1>3, <1>5, <2>1, HandlersShifted DEF IInv
<1>11. Listening'
  BY DEF IInv, Listening, Trim, pages
<1>12. OneInit'
  BY <1>2, <1>3, OneInitShifted DEF IInv
<1>13. BroadcastsFollow'
  BY <1>2, <1>3, <1>5, FollowShifted DEF IInv
<1>14. UndoerHides'
  BY <1>2, <1>3, <1>5, UndoerShifted DEF IInv
<1>15. NotDrawnAgain'
  <2> SUFFICES ASSUME NEW s \in Unheard PROVE ~Drawing(s)'
    BY <1>5 DEF NotDrawnAgain, Unheard
  <2>1. Draws(w, s) => Drawing(s)
    BY <1>1, <1>2, <1>3, DrawingAt DEF Draws, Stages, Shifted
  <2> QED
    BY <1>3, <2>1, DrawingShifted DEF IInv, NotDrawnAgain
<1>16. HiddenInTheEnd'
  <2>1. ASSUME NEW c \in open \ silenced, NEW s \in Unheard
        PROVE  ~Hides(Head(pipe), c, s)
    BY <1>1 DEF Hides, Sends
  <2>2. Unheard' = Unheard
    BY <1>5 DEF Unheard
  <2> QED
    BY <1>2, <1>3, <1>5, <2>1, <2>2, HiddenShifted DEF IInv
<1> QED
  BY <1>6, <1>7, <1>8, <1>9, <1>10, <1>11, <1>12, <1>13, <1>14, <1>15, <1>16 DEF IInv

LEMMA ExpireStep ==
  ASSUME IInv, Expire
  PROVE  IInv'
<1> DEFINE w == [Head(pipe) EXCEPT !.at = "expire"]
<1>1. pipe # <<>> /\ Head(pipe).at = "ltrim" /\ Head(pipe) \in Waiting
  BY DEF Expire, Answered, IInv, TypeOK
<1>2. /\ w \in Waiting /\ w.at = "expire" /\ w.by = Head(pipe).by
      /\ w.stroke = Head(pipe).stroke
  BY <1>1 DEF Waiting, Stages
<1>3. Moved(w) /\ PipeTyped' /\ Shifted({w})
  BY <1>1, <1>2, AwaitMoves, ShiftedCases DEF IInv, Expire
<1>4. /\ ToSet(list') \subseteq ToSet(list) /\ drawn' = drawn /\ board' = board
      /\ open' = open /\ silenced' = silenced /\ erased' = erased /\ overtaken' = overtaken
  BY DEF Expire, pages
<1> HIDE DEF w
<1>5. TypeOK'
  BY <1>3 DEF IInv, TypeOK, Expire, PipeTyped, pages
<1>6. CapKept'
  <2>1. Cardinality(Untrimmed') = Cardinality(Untrimmed)
    BY <1>1, <1>2, <1>3, CountShifted DEF IInv
  <2> QED
    BY <1>1, <1>2, <1>3, <2>1 DEF IInv, CapKept, Expire
<1>7. SavedIsShown'
  <2> SUFFICES ASSUME NEW c \in open \ silenced, NEW s \in ToSet(list)
               PROVE  s \in board[c] \/ drawn[s] = {c} \/ Drawing(s)' \/ Opening(c)'
    BY <1>4 DEF SavedIsShown
  <2>1. Opening(c) => Opening(c)'
    BY <1>1, <1>3, OpeningShifted DEF Sends
  <2>2. Drawing(s) => Drawing(s)'
    BY <1>1, <1>2, <1>3, DrawingShifted DEF Draws, Stages
  <2> QED
    BY <2>1, <2>2 DEF IInv, SavedIsShown
<1>8. ListSound'
  BY DEF IInv, ListSound, Expire
<1>9. HandlersSound'
  <2>1. /\ w.by \in open \cup {Closed} /\ drawn[w.stroke] = {w.by}
        /\ w.at # "undone" /\ w.at # "find"
    <3>1. drawn[Head(pipe).stroke] = {Head(pipe).by} /\ Head(pipe).by \in open \cup {Closed}
      BY <1>1, <1>3, HeadSound DEF IInv, Stages
    <3> QED
      BY <1>2, <3>1
  <2> QED
    BY <1>3, <1>4, <2>1, HandlersShifted DEF IInv
<1>10. Listening'
  BY DEF IInv, Listening, Expire, pages
<1>11. OneInit'
  BY <1>2, <1>3, OneInitShifted DEF IInv
<1>12. BroadcastsFollow'
  BY <1>2, <1>3, <1>4, FollowShifted DEF IInv
<1>13. UndoerHides'
  BY <1>2, <1>3, <1>4, UndoerShifted DEF IInv
<1>14. NotDrawnAgain'
  <2> SUFFICES ASSUME NEW s \in Unheard PROVE ~Drawing(s)'
    BY <1>4 DEF NotDrawnAgain, Unheard
  <2>1. Draws(w, s) => Drawing(s)
    BY <1>1, <1>2, <1>3, DrawingAt DEF Draws, Stages, Shifted
  <2> QED
    BY <1>3, <2>1, DrawingShifted DEF IInv, NotDrawnAgain
<1>15. HiddenInTheEnd'
  <2>1. ASSUME NEW c \in open \ silenced, NEW s \in Unheard
        PROVE  ~Hides(Head(pipe), c, s)
    BY <1>1 DEF Hides, Sends
  <2>2. Unheard' = Unheard
    BY <1>4 DEF Unheard
  <2> QED
    BY <1>2, <1>3, <1>4, <2>1, <2>2, HiddenShifted DEF IInv
<1> QED
  BY <1>5, <1>6, <1>7, <1>8, <1>9, <1>10, <1>11, <1>12, <1>13, <1>14, <1>15 DEF IInv

LEMMA SendStrokeStep ==
  ASSUME IInv, SendStroke
  PROVE  IInv'
<1> DEFINE h == Head(pipe)
<1>1. pipe # <<>> /\ h.at = "expire"
  BY DEF SendStroke, Answered
<1>2. Popped /\ PipeTyped' /\ Shifted({})
  BY <1>1, TailPops, ShiftedCases DEF IInv, SendStroke
<1>3. h \in Waiting /\ h.stroke \in Strokes
  BY <1>1, <1>2, Kinds DEF Popped
<1>4. /\ board' \in [Clients -> SUBSET Strokes]
      /\ \A c \in Clients : board'[c] =
           IF c \in inRoom /\ c # h.by THEN board[c] \cup {h.stroke} ELSE board[c]
  <2>1. board' = [c \in Clients |-> IF c \in inRoom \ {h.by}
                                     THEN (board[c] \ {}) \cup {h.stroke} ELSE board[c]]
    BY DEF SendStroke, Broadcast
  <2> HIDE DEF h
  <2> QED
    BY <1>3, <2>1 DEF IInv, TypeOK
<1>5. /\ list' = list /\ drawn' = drawn /\ open' = open /\ silenced' = silenced
      /\ erased' = erased /\ overtaken' = overtaken /\ open \subseteq Clients
      /\ open \ silenced \subseteq inRoom
  BY DEF SendStroke, pages, IInv, TypeOK, Listening
<1>6. drawn[h.stroke] = {h.by} /\ Drawing(h.stroke)
  <2>1. Draws(h, h.stroke) /\ h.at \in Stages
    BY <1>1 DEF Draws, Stages
  <2>2. Drawing(h.stroke)
    BY <1>2, <2>1, DrawingAt DEF Shifted
  <2> QED
    BY <1>2, <2>1, <2>2, HeadSound DEF IInv
<1> HIDE DEF h
<1>7. TypeOK'
  BY <1>2, <1>4 DEF IInv, TypeOK, SendStroke, PipeTyped, pages
<1>8. CapKept'
  <2>1. Cardinality(Untrimmed') = Cardinality(Untrimmed)
    BY <1>1, <1>2, CountShifted DEF IInv, h
  <2> QED
    BY <2>1 DEF IInv, CapKept, SendStroke
<1>9. SavedIsShown'
  <2> SUFFICES ASSUME NEW c \in open \ silenced, NEW s \in ToSet(list)
               PROVE  s \in board'[c] \/ drawn[s] = {c} \/ Drawing(s)' \/ Opening(c)'
    BY <1>5 DEF SavedIsShown
  <2>1. Opening(c) => Opening(c)'
    BY <1>1, <1>2, OpeningShifted DEF Sends, h
  <2>2. CASE s = h.stroke
    BY <1>4, <1>5, <1>6, <2>2
  <2>3. CASE s # h.stroke
    <3>1. Drawing(s) => Drawing(s)'
      BY <1>2, <2>3, DrawingShifted DEF Draws, h
    <3> QED
      BY <1>4, <1>5, <2>1, <3>1 DEF IInv, SavedIsShown
  <2> QED
    BY <2>2, <2>3
<1>10. ListSound'
  BY DEF IInv, ListSound, SendStroke
<1>11. HandlersSound'
  BY <1>2, <1>5, HandlersShifted DEF IInv
<1>12. Listening'
  BY DEF IInv, Listening, SendStroke, pages
<1>13. OneInit'
  BY <1>2, OneInitShifted DEF IInv
<1>14. BroadcastsFollow'
  BY <1>2, FollowShifted DEF IInv, SendStroke
<1>15. UndoerHides'
  <2>1. ASSUME NEW c \in Clients, NEW i \in DOMAIN pipe, i > 1,
               pipe[i].at = "find", pipe[i].by = c, pipe[i].stroke \notin board[c]
        PROVE  pipe[i].stroke \notin board'[c]
    <3>1. drawn[pipe[i].stroke] = {c}
      BY <2>1 DEF IInv, HandlersSound
    <3> QED
      BY <1>4, <1>6, <2>1, <3>1
  <2> QED
    BY <1>2, <2>1, UndoerShifted DEF IInv
<1>16. NotDrawnAgain'
  BY <1>2, <1>5, DrawingShifted DEF IInv, NotDrawnAgain, Unheard
<1>17. HiddenInTheEnd'
  <2>1. ASSUME NEW c \in open \ silenced, NEW s \in Unheard, s \in board'[c]
        PROVE  s \in board[c] /\ ~Hides(Head(pipe), c, s)
    <3>1. s # h.stroke
      BY <1>6 DEF IInv, NotDrawnAgain
    <3> QED
      BY <1>1, <1>4, <1>5, <2>1, <3>1 DEF Hides, Sends, h
  <2>2. Unheard' = Unheard
    BY <1>5 DEF Unheard
  <2> QED
    BY <1>2, <1>5, <2>1, <2>2, HiddenShifted DEF IInv
<1> QED
  BY <1>7, <1>8, <1>9, <1>10, <1>11, <1>12, <1>13, <1>14, <1>15, <1>16, <1>17 DEF IInv

LEMMA RemoveFoundStep ==
  ASSUME IInv, RemoveFound
  PROVE  IInv'
<1> DEFINE w == [at |-> "undone", by |-> Head(pipe).by, stroke |-> Head(pipe).stroke]
<1>1. pipe # <<>> /\ Head(pipe).at = "find" /\ Head(pipe) \in Waiting
  BY DEF RemoveFound, Answered, IInv, TypeOK
<1>2. /\ w \in Waiting /\ w.at = "undone" /\ w.by = Head(pipe).by
      /\ w.stroke = Head(pipe).stroke
  BY <1>1 DEF Waiting
<1>3. Moved(w) /\ PipeTyped' /\ Shifted({w})
  BY <1>1, <1>2, AwaitMoves, ShiftedCases DEF IInv, RemoveFound
<1>4. /\ list' \in Seq(Strokes) /\ ToSet(list') = ToSet(list) \ {w.stroke}
      /\ IsInjective(list') /\ Len(list') <= Len(list) /\ Len(list') \in Nat /\ Len(list) \in Nat
  <2>1. list \in Seq(Strokes) /\ IsInjective(list) /\ list' = RemoveFirst(list, w.stroke)
    BY <1>2 DEF IInv, TypeOK, ListSound, RemoveFound
  <2> QED
    BY <2>1, RemovedFirst, LenProperties
<1>5. /\ drawn' = drawn /\ board' = board /\ open' = open /\ silenced' = silenced /\ cut' = cut
      /\ open \subseteq Clients /\ Closed \notin Clients
  BY WhiteboardAssumption DEF RemoveFound, pages, IInv, TypeOK
<1>6. Erased(w.by, {w.stroke} \cap ToSet(list)) /\ ToSet(list) \subseteq Strokes
  BY Erasing, Queue DEF IInv, RemoveFound
<1>7. drawn[w.stroke] = {w.by} /\ w.by \in open \cup {Closed}
  BY <1>1, <1>3, HeadSound DEF IInv
<1> HIDE DEF w
<1>8. TypeOK'
  BY <1>3, <1>4, <1>6 DEF IInv, TypeOK, RemoveFound, PipeTyped, pages, Erased
<1>9. CapKept'
  <2>1. Cardinality(Untrimmed') = Cardinality(Untrimmed)
    BY <1>1, <1>2, <1>3, CountShifted DEF IInv
  <2> QED
    BY <1>4, <1>5, <2>1, WhiteboardAssumption, CountFinite DEF IInv, CapKept, Counted
<1>10. SavedIsShown'
  <2> SUFFICES ASSUME NEW c \in open \ silenced, NEW s \in ToSet(list)
               PROVE  s \in board[c] \/ drawn[s] = {c} \/ Drawing(s)' \/ Opening(c)'
    BY <1>4, <1>5 DEF SavedIsShown
  <2>1. Opening(c) => Opening(c)'
    BY <1>1, <1>3, OpeningShifted DEF Sends
  <2>2. Drawing(s) => Drawing(s)'
    BY <1>1, <1>3, DrawingShifted DEF Draws, Stages
  <2> QED
    BY <2>1, <2>2 DEF IInv, SavedIsShown
<1>11. ListSound'
  <2>1. erased' = erased \cup ({w.stroke} \cap ToSet(list))
    BY <1>6 DEF Erased
  <2> QED
    BY <1>4, <1>5, <2>1 DEF IInv, ListSound
<1>12. HandlersSound'
  BY <1>2, <1>3, <1>4, <1>5, <1>7, HandlersShifted DEF IInv
<1>13. Listening'
  BY DEF IInv, Listening, RemoveFound, pages
<1>14. OneInit'
  BY <1>2, <1>3, OneInitShifted DEF IInv
<1>15. BroadcastsFollow'
  BY <1>2, <1>3, <1>4, FollowShifted DEF IInv
<1>16. UndoerHides'
  BY <1>2, <1>3, <1>5, UndoerShifted DEF IInv
<1>17. NotDrawnAgain'
  <2> SUFFICES ASSUME NEW s \in Unheard' PROVE ~Drawing(s)'
    BY DEF NotDrawnAgain
  <2>1. ~Draws(w, s)
    BY <1>2 DEF Draws, Stages
  <2>2. ~Drawing(s)
    BY <1>6 DEF IInv, NotDrawnAgain, Erased
  <2> QED
    BY <1>3, <2>1, <2>2, DrawingShifted
<1>18. HiddenInTheEnd'
  <2>1. ASSUME NEW c \in open \ silenced, NEW s \in Unheard
        PROVE  ~Hides(Head(pipe), c, s)
    BY <1>1 DEF Hides, Sends
  <2>2. ASSUME NEW c \in open \ silenced, NEW s \in Unheard' \ Unheard
        PROVE  \/ Hides(w, c, s)
               \/ /\ s \notin board'[c]
                  /\ \A k \in DOMAIN pipe : Sends(pipe[k], c) => s \notin pipe[k].strokes
    <3>1. s = w.stroke /\ \A k \in DOMAIN pipe : Sends(pipe[k], w.by) => s \notin pipe[k].strokes
      BY <1>6, <2>2 DEF Erased
    <3>2. CASE c = w.by
      <4>1. s \notin board[c]
        BY <1>1, <1>2, <1>3, <1>5, <3>1, <3>2 DEF IInv, UndoerHides, Shifted
      <4> QED
        BY <1>5, <3>1, <3>2, <4>1
    <3>3. CASE c # w.by
      BY <1>2, <3>1, <3>3 DEF Hides
    <3> QED
      BY <3>2, <3>3
  <2> QED
    BY <1>2, <1>3, <1>5, <2>1, <2>2, HiddenShifted DEF IInv
<1> QED
  BY <1>8, <1>9, <1>10, <1>11, <1>12, <1>13, <1>14, <1>15, <1>16, <1>17, <1>18 DEF IInv

LEMMA SendUndoStep ==
  ASSUME IInv, SendUndo
  PROVE  IInv'
<1> DEFINE h == Head(pipe)
<1>1. /\ pipe # <<>> /\ h.at \in {"undone", "find"}
      /\ h.at = "find" => ~h.found
  BY DEF SendUndo, Answered
<1>2. Popped /\ PipeTyped' /\ Shifted({})
  BY <1>1, TailPops, ShiftedCases DEF IInv, SendUndo
<1>3. h \in Waiting /\ h.stroke \in Strokes /\ h.stroke \notin ToSet(list)
  BY <1>1, <1>2, Kinds, HeadSound DEF Popped, IInv
<1>4. /\ board' \in [Clients -> SUBSET Strokes]
      /\ \A c \in Clients : board'[c] =
           IF c \in inRoom /\ c # h.by THEN board[c] \ {h.stroke} ELSE board[c]
  <2>1. board' = [c \in Clients |-> IF c \in inRoom \ {h.by}
                                     THEN (board[c] \ {h.stroke}) \cup {} ELSE board[c]]
    BY DEF SendUndo, Broadcast
  <2> HIDE DEF h
  <2> QED
    BY <1>3, <2>1 DEF IInv, TypeOK
<1>5. /\ list' = list /\ drawn' = drawn /\ open' = open /\ silenced' = silenced
      /\ erased' = erased /\ overtaken' = overtaken /\ open \subseteq Clients
      /\ open \ silenced \subseteq inRoom /\ ToSet(list) \subseteq Strokes
  BY Queue DEF SendUndo, pages, IInv, TypeOK, Listening
<1>6. \A s : ~Draws(Head(pipe), s)
  BY <1>1 DEF Draws, Stages
<1> HIDE DEF h
<1>7. TypeOK'
  BY <1>2, <1>4 DEF IInv, TypeOK, SendUndo, PipeTyped, pages
<1>8. CapKept'
  <2>1. Cardinality(Untrimmed') = Cardinality(Untrimmed)
    BY <1>1, <1>2, CountShifted DEF IInv, h
  <2> QED
    BY <2>1 DEF IInv, CapKept, SendUndo
<1>9. SavedIsShown'
  <2> SUFFICES ASSUME NEW c \in open \ silenced, NEW s \in ToSet(list)
               PROVE  s \in board'[c] \/ drawn[s] = {c} \/ Drawing(s)' \/ Opening(c)'
    BY <1>5 DEF SavedIsShown
  <2>1. (Opening(c) => Opening(c)') /\ (Drawing(s) => Drawing(s)')
    BY <1>1, <1>2, <1>6, OpeningShifted, DrawingShifted DEF Sends, h
  <2>2. s \in board[c] => s \in board'[c]
    BY <1>3, <1>4, <1>5
  <2> QED
    BY <2>1, <2>2 DEF IInv, SavedIsShown
<1>10. ListSound'
  BY DEF IInv, ListSound, SendUndo
<1>11. HandlersSound'
  BY <1>2, <1>5, HandlersShifted DEF IInv
<1>12. Listening'
  BY DEF IInv, Listening, SendUndo, pages
<1>13. OneInit'
  BY <1>2, OneInitShifted DEF IInv
<1>14. BroadcastsFollow'
  BY <1>2, FollowShifted DEF IInv, SendUndo
<1>15. UndoerHides'
  BY <1>2, <1>4, UndoerShifted DEF IInv
<1>16. NotDrawnAgain'
  BY <1>2, <1>5, DrawingShifted DEF IInv, NotDrawnAgain, Unheard
<1>17. HiddenInTheEnd'
  <2>1. ASSUME NEW c \in open \ silenced, NEW s \in Unheard, s \in board'[c]
        PROVE  s \in board[c] /\ ~Hides(Head(pipe), c, s)
    BY <1>1, <1>4, <1>5, <2>1 DEF Hides, Sends, h
  <2>2. Unheard' = Unheard
    BY <1>5 DEF Unheard
  <2> QED
    BY <1>2, <1>5, <2>1, <2>2, HiddenShifted DEF IInv
<1> QED
  BY <1>7, <1>8, <1>9, <1>10, <1>11, <1>12, <1>13, <1>14, <1>15, <1>16, <1>17 DEF IInv

LEMMA SendClearStep ==
  ASSUME IInv, SendClear
  PROVE  IInv'
<1> DEFINE h == Head(pipe)
<1>1. pipe # <<>> /\ h.at = "del"
  BY DEF SendClear, Answered
<1>2. Popped /\ PipeTyped' /\ Shifted({})
  BY <1>1, TailPops, ShiftedCases DEF IInv, SendClear
<1>3. /\ board' \in [Clients -> SUBSET Strokes]
      /\ \A c \in Clients : board'[c] = IF c \in inRoom /\ c # h.by THEN {} ELSE board[c]
  <2>1. board' = [c \in Clients |-> IF c \in inRoom \ {h.by}
                                     THEN (board[c] \ Strokes) \cup {} ELSE board[c]]
    BY DEF SendClear, Broadcast
  <2>2. \A c \in Clients : board[c] \subseteq Strokes
    BY DEF IInv, TypeOK
  <2> HIDE DEF h
  <2> QED
    BY <2>1, <2>2
<1>4. /\ list' = list /\ drawn' = drawn /\ open' = open /\ silenced' = silenced
      /\ erased' = erased /\ overtaken' = overtaken /\ open \subseteq Clients
      /\ open \ silenced \subseteq inRoom
  BY DEF SendClear, pages, IInv, TypeOK, Listening
<1>5. \A s : ~Draws(Head(pipe), s)
  BY <1>1 DEF Draws, Stages
<1> HIDE DEF h
<1>6. TypeOK'
  BY <1>2, <1>3 DEF IInv, TypeOK, SendClear, PipeTyped, pages
<1>7. CapKept'
  <2>1. Cardinality(Untrimmed') = Cardinality(Untrimmed)
    BY <1>1, <1>2, CountShifted DEF IInv, h
  <2> QED
    BY <2>1 DEF IInv, CapKept, SendClear
<1>8. SavedIsShown'
  <2> SUFFICES ASSUME NEW c \in open \ silenced, NEW s \in ToSet(list)
               PROVE  Drawing(s)'
    BY <1>4 DEF SavedIsShown
  <2>1. Drawing(s)
    BY <1>1, <1>2, DrawingAt DEF IInv, BroadcastsFollow, Carried, Shifted, h
  <2> QED
    BY <1>2, <1>5, <2>1, DrawingShifted
<1>9. ListSound'
  BY DEF IInv, ListSound, SendClear
<1>10. HandlersSound'
  BY <1>2, <1>4, HandlersShifted DEF IInv
<1>11. Listening'
  BY DEF IInv, Listening, SendClear, pages
<1>12. OneInit'
  BY <1>2, OneInitShifted DEF IInv
<1>13. BroadcastsFollow'
  BY <1>2, FollowShifted DEF IInv, SendClear
<1>14. UndoerHides'
  BY <1>2, <1>3, UndoerShifted DEF IInv
<1>15. NotDrawnAgain'
  BY <1>2, <1>4, DrawingShifted DEF IInv, NotDrawnAgain, Unheard
<1>16. HiddenInTheEnd'
  <2>1. ASSUME NEW c \in open \ silenced, NEW s \in Unheard, s \in board'[c]
        PROVE  s \in board[c] /\ ~Hides(Head(pipe), c, s)
    BY <1>1, <1>3, <1>4, <2>1 DEF Hides, Sends, h
  <2>2. Unheard' = Unheard
    BY <1>4 DEF Unheard
  <2> QED
    BY <1>2, <1>4, <2>1, <2>2, HiddenShifted DEF IInv
<1> QED
  BY <1>6, <1>7, <1>8, <1>9, <1>10, <1>11, <1>12, <1>13, <1>14, <1>15, <1>16 DEF IInv

\* The chat changes who hears, and nothing else.
LEMMA ChatStep ==
  ASSUME IInv, NEW c \in Clients, ChatJoin(c) \/ ChatLeave(c)
  PROVE  IInv'
<1>1. /\ list' = list /\ pipe' = pipe /\ drawn' = drawn /\ board' = board /\ open' = open
      /\ erased' = erased /\ overtaken' = overtaken /\ cut' = cut
  BY DEF ChatJoin, ChatLeave
<1>2. /\ inRoom' \cup silenced' \subseteq open
      /\ open \ silenced' \subseteq inRoom' /\ open \ silenced' \subseteq open \ silenced
  BY DEF ChatJoin, ChatLeave, IInv, TypeOK, Listening
<1>3. TypeOK' /\ Listening'
  BY <1>1, <1>2 DEF IInv, TypeOK, Listening
<1>4. CapKept' /\ ListSound' /\ HandlersSound' /\ OneInit'
  BY <1>1 DEF IInv, CapKept, Untrimmed, ListSound, HandlersSound, OneInit
<1>5. SavedIsShown'
  BY <1>1, <1>2 DEF IInv, SavedIsShown, Drawing, Opening
<1>6. BroadcastsFollow' /\ UndoerHides'
  BY <1>1 DEF IInv, BroadcastsFollow, UndoerHides
<1>7. NotDrawnAgain'
  BY <1>1 DEF IInv, NotDrawnAgain, Unheard, Drawing
<1>8. HiddenInTheEnd'
  BY <1>1, <1>2 DEF IInv, HiddenInTheEnd, Unheard
<1> QED
  BY <1>3, <1>4, <1>5, <1>6, <1>7, <1>8 DEF IInv

LEMMA StutterStep ==
  ASSUME IInv, UNCHANGED vars
  PROVE  IInv'
<1> USE DEF vars
<1>1. TypeOK' /\ CapKept' /\ ListSound' /\ HandlersSound' /\ Listening'
  BY DEF IInv, TypeOK, CapKept, Untrimmed, ListSound, HandlersSound, Listening
<1>2. SavedIsShown' /\ NotDrawnAgain'
  BY DEF IInv, SavedIsShown, NotDrawnAgain, Unheard, Drawing, Opening
<1>3. OneInit' /\ BroadcastsFollow' /\ UndoerHides' /\ HiddenInTheEnd'
  BY DEF IInv, OneInit, BroadcastsFollow, UndoerHides, HiddenInTheEnd, Unheard
<1> QED
  BY <1>1, <1>2, <1>3 DEF IInv

LEMMA CrashStep ==
  ASSUME IInv, Crash
  PROVE  IInv'
<1>1. /\ DOMAIN pipe' = {} /\ pipe' \in Seq(Waiting) /\ Len(pipe') = 0
      /\ open' = {} /\ list' = list /\ erased' = erased /\ overtaken' = overtaken
  BY DEF Crash
<1>2. /\ board' \in [Clients -> SUBSET Strokes]
      /\ drawn' \in [Strokes -> {{}} \cup {{d} : d \in Sockets}]
      /\ \A s \in Strokes : drawn[s] # {} => drawn'[s] # {}
  BY DEF Crash, Sockets
<1>3. TypeOK'
  <2>1. Len(pipe') <= MaxPipe
    BY <1>1, WhiteboardAssumption
  <2>2. inRoom' = {} /\ silenced' = {} /\ cut' \in BOOLEAN
    BY DEF Crash, IInv, TypeOK
  <2>3. list \in Seq(Strokes) /\ overtaken \subseteq erased /\ erased \subseteq Strokes
    BY DEF IInv, TypeOK
  <2> QED
    BY <1>1, <1>2, <2>1, <2>2, <2>3 DEF TypeOK
<1>4. CapKept'
  <2>1. Untrimmed' = {}
    BY <1>1 DEF Untrimmed
  <2> SUFFICES ASSUME ~cut' PROVE Len(list) <= StrokeCap + 0
    BY <1>1, <2>1, FS_EmptySet DEF CapKept
  <2>2. ~cut /\ Untrimmed = {}
    BY DEF Crash
  <2> QED
    BY <2>2, FS_EmptySet DEF IInv, CapKept
<1>5. ListSound'
  <2>1. ToSet(list) \subseteq Strokes /\ erased \subseteq Strokes
    BY Queue DEF IInv, TypeOK
  <2> QED
    BY <1>1, <1>2, <2>1 DEF IInv, ListSound
<1>6. SavedIsShown' /\ HandlersSound' /\ Listening' /\ HiddenInTheEnd'
  BY <1>1 DEF SavedIsShown, HandlersSound, Listening, HiddenInTheEnd
<1>7. OneInit' /\ BroadcastsFollow' /\ UndoerHides'
  BY <1>1 DEF OneInit, BroadcastsFollow, UndoerHides
<1>8. NotDrawnAgain'
  BY <1>1, DrawingAt DEF NotDrawnAgain
<1> QED
  BY <1>3, <1>4, <1>5, <1>6, <1>7, <1>8 DEF IInv

\* A handler that goes on for a socket that has closed.
LEMMA Renamed ==
  ASSUME NEW w \in Waiting, NEW v, v = [w EXCEPT !.by = Closed]
  PROVE  /\ v \in Waiting /\ v.at = w.at /\ v.by = Closed
         /\ w.at \in Stages \cup {"undone", "find"} => v.stroke = w.stroke
         /\ w.at = "find" => v.found = w.found
         /\ w.at = "init" => v.strokes = w.strokes
<1>1. CASE w \in [at : Stages \cup {"undone"}, by : Sockets, stroke : Strokes]
  BY DEF Waiting, Sockets
<1>2. CASE w \in [at : {"find"}, by : Sockets, stroke : Strokes, found : BOOLEAN]
  BY DEF Waiting, Sockets
<1>3. CASE w \in [at : {"init"}, by : Sockets, strokes : SUBSET Strokes]
  BY DEF Waiting, Sockets
<1>4. CASE w \in [at : {"del"}, by : Sockets]
  BY DEF Waiting, Sockets
<1> QED
  BY <1>1, <1>2, <1>3, <1>4 DEF Waiting

LEMMA DisconnectStep ==
  ASSUME IInv, NEW c \in Clients, Disconnect(c)
  PROVE  IInv'
<1>1. /\ DOMAIN pipe = 1 .. Len(pipe) /\ Len(pipe) \in Nat
      /\ pipe' = [i \in DOMAIN pipe |-> IF pipe[i].by = c THEN [pipe[i] EXCEPT !.by = Closed]
                                                          ELSE pipe[i]]
  BY DEF Disconnect
<1>2. ASSUME NEW i \in DOMAIN pipe
      PROVE  /\ pipe[i] \in Waiting /\ pipe'[i] \in Waiting
             /\ pipe'[i].at = pipe[i].at
             /\ pipe'[i].by = IF pipe[i].by = c THEN Closed ELSE pipe[i].by
             /\ pipe[i].at \in Stages \cup {"undone", "find"} => pipe'[i].stroke = pipe[i].stroke
             /\ pipe[i].at = "find" => pipe'[i].found = pipe[i].found
             /\ pipe[i].at = "init" => pipe'[i].strokes = pipe[i].strokes
  <2>1. pipe[i] \in Waiting
    BY <1>1, Queue DEF IInv
  <2>2. CASE pipe[i].by = c
    <3>1. pipe'[i] = [pipe[i] EXCEPT !.by = Closed]
      BY <1>1, <2>2
    <3> QED
      BY <2>1, <2>2, <3>1, Renamed
  <2>3. CASE pipe[i].by # c
    BY <1>1, <2>1, <2>3
  <2> QED
    BY <2>2, <2>3
<1>3. DOMAIN pipe' = DOMAIN pipe /\ PipeTyped'
  <2>1. pipe' \in [1 .. Len(pipe) -> Waiting]
    BY <1>1, <1>2
  <2>2. pipe' \in Seq(Waiting) /\ Len(pipe') = Len(pipe)
    BY <1>1, <2>1, SeqDef, LenProperties
  <2> QED
    BY <1>1, <2>2 DEF PipeTyped, IInv, TypeOK
<1>4. /\ list' = list /\ erased' = erased /\ overtaken' = overtaken /\ cut' = cut
      /\ open' = open \ {c} /\ silenced' = silenced \ {c} /\ inRoom' = inRoom \ {c}
      /\ open \subseteq Clients /\ Closed \notin Clients /\ erased \subseteq Strokes
      /\ ToSet(list) \subseteq Strokes
  BY WhiteboardAssumption, Queue DEF Disconnect, IInv, TypeOK
<1>5. /\ board' \in [Clients -> SUBSET Strokes]
      /\ board'[c] = {} /\ \A d \in Clients \ {c} : board'[d] = board[d]
  BY DEF Disconnect, IInv, TypeOK
<1>6. /\ drawn' \in [Strokes -> {{}} \cup {{d} : d \in Sockets}]
      /\ \A s \in Strokes : drawn'[s] = IF drawn[s] = {c} THEN {Closed} ELSE drawn[s]
  BY DEF Disconnect, IInv, TypeOK, Sockets
<1>7. ASSUME NEW i \in DOMAIN pipe
      PROVE  /\ \A s : Draws(pipe'[i], s) <=> Draws(pipe[i], s)
             /\ Carried(pipe'[i]) = Carried(pipe[i])
             /\ ~Sends(pipe'[i], c)
             /\ \A d \in Clients \ {c} : Sends(pipe'[i], d) <=> Sends(pipe[i], d)
             /\ \A d \in Clients \ {c}, s \in Strokes : Hides(pipe[i], d, s) => Hides(pipe'[i], d, s)
  BY <1>2, <1>4 DEF Draws, Carried, Sends, Hides
<1>8. /\ \A s : Drawing(s)' <=> Drawing(s)
      /\ \A d \in Clients \ {c} : Opening(d)' <=> Opening(d)
  BY <1>3, <1>7, DrawingAt
<1>9. TypeOK'
  BY <1>3, <1>4, <1>5, <1>6 DEF IInv, TypeOK, PipeTyped
<1>10. CapKept'
  <2>1. Untrimmed' = Untrimmed
    BY <1>2, <1>3 DEF Untrimmed
  <2> QED
    BY <1>4, <2>1 DEF IInv, CapKept
<1>11. SavedIsShown'
  <2> SUFFICES ASSUME NEW d \in open' \ silenced', NEW s \in ToSet(list)
               PROVE  s \in board'[d] \/ drawn'[s] = {d} \/ Drawing(s)' \/ Opening(d)'
    BY <1>4 DEF SavedIsShown
  <2>1. d \in Clients \ {c} /\ d \in open \ silenced /\ s \in Strokes
    BY <1>4
  <2> QED
    BY <1>5, <1>6, <1>8, <2>1 DEF IInv, SavedIsShown
<1>12. ListSound' /\ Listening'
  BY <1>4, <1>6 DEF IInv, ListSound, Listening
<1>13. HandlersSound'
  <2> SUFFICES ASSUME NEW i \in DOMAIN pipe
               PROVE  /\ pipe'[i].by \in open' \cup {Closed}
                      /\ pipe'[i].at \in Stages \cup {"find", "undone"} =>
                           drawn'[pipe'[i].stroke] = {pipe'[i].by}
                      /\ pipe'[i].at = "undone" => pipe'[i].stroke \notin ToSet(list)
                      /\ pipe'[i].at = "find" =>
                           (pipe'[i].found \/ pipe'[i].stroke \notin ToSet(list))
    BY <1>3, <1>4 DEF HandlersSound
  <2>1. /\ pipe[i].by \in open \cup {Closed}
        /\ pipe[i].at \in Stages \cup {"find", "undone"} => drawn[pipe[i].stroke] = {pipe[i].by}
        /\ pipe[i].at = "undone" => pipe[i].stroke \notin ToSet(list)
        /\ pipe[i].at = "find" => (pipe[i].found \/ pipe[i].stroke \notin ToSet(list))
    BY DEF IInv, HandlersSound
  <2>2. pipe[i].at \in Stages \cup {"find", "undone"} => pipe[i].stroke \in Strokes
    BY <1>2, Kinds
  <2> QED
    BY <1>2, <1>4, <1>6, <2>1, <2>2
<1>14. OneInit'
  BY <1>3, <1>7 DEF IInv, OneInit
<1>15. BroadcastsFollow'
  BY <1>2, <1>3, <1>4, <1>7 DEF IInv, BroadcastsFollow
<1>16. UndoerHides'
  BY <1>2, <1>3, <1>4, <1>5, <1>7 DEF IInv, UndoerHides
<1>17. NotDrawnAgain'
  BY <1>4, <1>8 DEF IInv, NotDrawnAgain, Unheard
<1>18. HiddenInTheEnd'
  <2> SUFFICES ASSUME NEW d \in open' \ silenced', NEW s \in Unheard
               PROVE  /\ s \in board'[d] => \E j \in DOMAIN pipe' : Hides(pipe'[j], d, s)
                      /\ \A k \in DOMAIN pipe' : Sends(pipe'[k], d) /\ s \in pipe'[k].strokes =>
                           \E j \in DOMAIN pipe' : j > k /\ Hides(pipe'[j], d, s)
    BY <1>4 DEF HiddenInTheEnd, Unheard, Hides, Sends
  <2>1. d \in Clients \ {c} /\ d \in open \ silenced /\ s \in Strokes
    BY <1>4 DEF Unheard
  <2>2. ASSUME NEW k \in DOMAIN pipe', Sends(pipe'[k], d), s \in pipe'[k].strokes
        PROVE  Sends(pipe[k], d) /\ s \in pipe[k].strokes
    BY <1>2, <1>3, <1>7, <2>1, <2>2 DEF Sends
  <2> QED
    BY <1>3, <1>5, <1>7, <2>1, <2>2 DEF IInv, HiddenInTheEnd
<1> QED
  BY <1>9, <1>10, <1>11, <1>12, <1>13, <1>14, <1>15, <1>16, <1>17, <1>18 DEF IInv

LEMMA IInvStep == IInv /\ [Next]_vars => IInv'
<1> SUFFICES ASSUME IInv, [Next]_vars PROVE IInv'
  OBVIOUS
<1>1. ASSUME NEW c \in Clients,
             \/ Join(c) \/ Clear(c) \/ ChatJoin(c) \/ ChatLeave(c) \/ Disconnect(c)
             \/ \E s \in Strokes : Stroke(c, s) \/ Undo(c, s)
      PROVE  IInv'
  BY <1>1, JoinStep, ClearStep, ChatStep, DisconnectStep, StrokeStep, UndoStep
<1>2. CASE SendInit \/ Trim \/ Expire \/ SendStroke
  BY <1>2, SendInitStep, TrimStep, ExpireStep, SendStrokeStep
<1>3. CASE RemoveFound \/ SendUndo \/ SendClear \/ Crash
  BY <1>3, RemoveFoundStep, SendUndoStep, SendClearStep, CrashStep
<1>4. CASE UNCHANGED vars
  BY <1>4, StutterStep
<1> QED
  BY <1>1, <1>2, <1>3, <1>4 DEF Next

-----------------------------------------------------------------------------

LEMMA IInvAlways == Spec => []IInv
BY IInvInit, IInvStep, PTL DEF Spec

\* Every variable keeps its type, and no more handlers wait than there are slots.
THEOREM TypeCorrect == Spec => []TypeOK
<1>1. IInv => TypeOK
  BY DEF IInv
<1> QED
  BY <1>1, IInvAlways, PTL

\* However strokes overlap, the list exceeds STROKE_CAP by no more than the strokes
\* whose ltrim is still to come, until a crash loses one.
THEOREM CapAlwaysKept == Spec => []CapKept
<1>1. IInv => CapKept
  BY DEF IInv
<1> QED
  BY <1>1, IInvAlways, PTL

\* Whoever has the whiteboard open, and has not closed the chat since, shows every
\* saved stroke, or will: it is theirs, or its broadcast or their board is under way.
THEOREM SavedAlwaysShown == Spec => []SavedIsShown
<1>1. IInv => SavedIsShown
  BY DEF IInv
<1> QED
  BY <1>1, IInvAlways, PTL

\* Once the handlers are through, nobody who has not closed the chat shows a stroke
\* that was undone or cleared, but for those the undo or clear overtook.
THEOREM ErasedAlwaysHidden == Spec => []ErasedIsHidden
<1>1. IInv => ErasedIsHidden
  <2> SUFFICES ASSUME IInv, pipe = <<>>, NEW c \in open \ silenced, NEW s \in Unheard
               PROVE  s \notin board[c]
    BY DEF ErasedIsHidden, Unheard
  <2>1. DOMAIN pipe = {}
    OBVIOUS
  <2> QED
    BY <2>1 DEF IInv, HiddenInTheEnd
<1> QED
  BY <1>1, IInvAlways, PTL

\* No stroke is on the list twice, and none that was undone or cleared comes back,
\* so that the lrem of an undo, which takes out one element, leaves none behind.
ListOnce == IsInjective(list) /\ ToSet(list) \cap erased = {}

THEOREM EachStrokeOnce == Spec => []ListOnce
<1>1. IInv => ListOnce
  BY DEF IInv, ListSound, ListOnce
<1> QED
  BY <1>1, IInvAlways, PTL
=============================================================================
