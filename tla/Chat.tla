-------------------------------- MODULE Chat --------------------------------
(***************************************************************************)
(* ChatGateway and MessagesService for one chat room: the messages stored  *)
(* in PostgreSQL, the capped list of them in Redis and what the clients in *)
(* the room show.                                                          *)
(*                                                                         *)
(* A message is stored, then pushed to the list, then the list is trimmed, *)
(* then the message is broadcast, with an await after each.  Inserts are   *)
(* answered in any order; Redis commands go over one connection, are       *)
(* applied in the order they are issued and answered in that order, so     *)
(* that pipe holds the handlers that wait for Redis.                       *)
(*                                                                         *)
(* The page of a client is not part of the repository.  It is taken to     *)
(* join the room, then to load the history, and to add what is broadcast.  *)
(***************************************************************************)
EXTENDS Naturals, Sequences, FiniteSets, SequencesExt

CONSTANTS
  Clients,
  Messages,      \* ids; each is given once
  CacheSize,     \* 100 in createMessage
  Limit,         \* the size of a page of history
  MaxPipe        \* bound on the handlers waiting for Redis

ASSUME ChatAssumption ==
  CacheSize \in Nat \ {0} /\ Limit \in Nat \ {0} /\ MaxPipe \in Nat

VARIABLES
  history,     \* the messages stored, by createdAt
  deleted,     \* those with isDeleted
  creating,    \* those whose insert has not been answered
  cache,       \* the list chat:session:{id} or chat:room:{id}, newest first
  pipe,        \* the handlers waiting for Redis, oldest first
  inRoom,      \* the clients in the socket room
  loaded,      \* those among them that have loaded the history
  shown,       \* the messages each client shows
  sent,        \* history: the messages broadcast, oldest first
  overlap,     \* history: pairs of messages, one stored while the other's insert was unanswered
  lost,        \* history: messages whose handler failed after storing them
  cut          \* history: a message has been pushed whose ltrim never came

vars == <<history, deleted, creating, cache, pipe, inRoom, loaded, shown,
          sent, overlap, lost, cut>>
redis == <<cache, pipe, cut>>
pages == <<inRoom, loaded, shown>>

Waiting == [at : {"lpush", "ltrim"}, message : Messages]

TypeOK ==
  /\ history \in Seq(Messages) /\ sent \in Seq(Messages) /\ cache \in Seq(Messages)
  /\ creating \subseteq ToSet(history) /\ deleted \subseteq ToSet(history)
  /\ pipe \in Seq(Waiting) /\ Len(pipe) <= MaxPipe
  /\ loaded \subseteq inRoom /\ inRoom \subseteq Clients
  /\ shown \in [Clients -> SUBSET Messages]
  /\ overlap \subseteq Messages \X Messages
  /\ lost \subseteq Messages
  /\ cut \in BOOLEAN

Init ==
  /\ history = <<>> /\ sent = <<>> /\ cache = <<>> /\ pipe = <<>>
  /\ deleted = {} /\ creating = {} /\ overlap = {} /\ lost = {}
  /\ inRoom = {} /\ loaded = {}
  /\ shown = [c \in Clients |-> {}]
  /\ cut = FALSE

-----------------------------------------------------------------------------
(* chat:send.  A name ending in Mutant is a mistake the operator after it  *)
(* could have been written with; nothing uses it.                          *)

Await(queue, w) == Len(queue) < MaxPipe /\ pipe' = Append(queue, w)

Answered(stage) == pipe # <<>> /\ Head(pipe).at = stage

\* LTRIM key 0 99.
TrimmedMutant(list) ==
  IF Len(list) <= CacheSize THEN list
  ELSE SubSeq(list, Len(list) - CacheSize + 1, Len(list))
Trimmed(list) ==
  IF Len(list) <= CacheSize THEN list ELSE SubSeq(list, 1, CacheSize)

\* The insert is committed.
Create(m) ==
  /\ m \notin ToSet(history)
  /\ history' = Append(history, m)
  /\ creating' = creating \cup {m}
  /\ overlap' = overlap \cup (creating \X {m})
  /\ UNCHANGED <<deleted, redis, pages, sent, lost>>

\* It is answered; LPUSH.
Push(m) ==
  /\ m \in creating
  /\ creating' = creating \ {m}
  /\ cache' = <<m>> \o cache
  /\ Await(pipe, [at |-> "lpush", message |-> m])
  /\ UNCHANGED <<history, deleted, pages, sent, overlap, lost, cut>>

\* To everybody in the room, the sender included.
Broadcast(m) ==
  /\ sent' = Append(sent, m)
  /\ shown' = [c \in Clients |-> IF c \in inRoom THEN shown[c] \cup {m} ELSE shown[c]]

TrimMutant ==
  /\ Answered("lpush")
  /\ LET m == Head(pipe).message IN
       \/ /\ Len(cache) > CacheSize
          /\ cache' = Trimmed(cache)
          /\ Await(Tail(pipe), [at |-> "ltrim", message |-> m])
          /\ UNCHANGED <<sent, shown>>
       \/ /\ Len(cache) <= CacheSize
          /\ pipe' = Tail(pipe)
          /\ Broadcast(m)
          /\ UNCHANGED cache
  /\ cut' = FALSE
  /\ UNCHANGED <<history, deleted, creating, inRoom, loaded, overlap, lost>>
Trim ==
  /\ Answered("lpush")
  /\ cache' = Trimmed(cache)
  /\ Await(Tail(pipe), [at |-> "ltrim", message |-> Head(pipe).message])
  /\ cut' = FALSE
  /\ UNCHANGED <<history, deleted, creating, pages, sent, overlap, lost>>

SendMessage ==
  /\ Answered("ltrim")
  /\ pipe' = Tail(pipe)
  /\ Broadcast(Head(pipe).message)
  /\ UNCHANGED <<history, deleted, creating, cache, inRoom, loaded, overlap, lost, cut>>

\* Redis refuses the lpush or the ltrim, and the handler ends there.
PushFailsMutant(m) ==
  /\ m \in creating
  /\ lost' = lost \cup {m}
  /\ UNCHANGED <<history, deleted, creating, redis, pages, sent, overlap>>
PushFails(m) ==
  /\ m \in creating
  /\ creating' = creating \ {m}
  /\ lost' = lost \cup {m}
  /\ UNCHANGED <<history, deleted, redis, pages, sent, overlap>>

TrimFails ==
  /\ Answered("lpush")
  /\ pipe' = Tail(pipe)
  /\ lost' = lost \cup {Head(pipe).message}
  /\ cut' = TRUE
  /\ UNCHANGED <<history, deleted, creating, cache, pages, sent, overlap>>

-----------------------------------------------------------------------------

\* A message is taken back, and nobody is told.  The update names the sender too,
\* but the controller passes req.user.sub, which the JWT strategy leaves undefined
\* (messages.controller.ts:48), and Prisma ignores an undefined filter.
SoftDelete(m) ==
  /\ m \in ToSet(history) \ deleted
  /\ deleted' = deleted \cup {m}
  /\ UNCHANGED <<history, creating, redis, pages, sent, overlap, lost>>

ChatJoin(c) ==
  /\ c \notin inRoom
  /\ inRoom' = inRoom \cup {c}
  /\ UNCHANGED <<history, deleted, creating, redis, loaded, shown, sent, overlap, lost>>

\* getRoomMessages and getSessionMessages: the first page, oldest first.
PageMutant == ToSet(cache)
Page ==
  LET Visible(i) == history[i] \notin deleted
      First(i) == Cardinality({k \in 1..i : Visible(k)}) <= Limit
  IN  {history[i] : i \in {i \in DOMAIN history : Visible(i) /\ First(i)}}

Load(c) ==
  /\ c \in inRoom \ loaded
  /\ loaded' = loaded \cup {c}
  /\ shown' = [shown EXCEPT ![c] = @ \cup Page]
  /\ UNCHANGED <<history, deleted, creating, redis, inRoom, sent, overlap, lost>>

\* chat:leave, or the socket closes; the page shows nothing any more.
ChatLeave(c) ==
  /\ c \in inRoom
  /\ inRoom' = inRoom \ {c}
  /\ loaded' = loaded \ {c}
  /\ shown' = [shown EXCEPT ![c] = {}]
  /\ UNCHANGED <<history, deleted, creating, redis, sent, overlap, lost>>

\* The process dies; PostgreSQL and Redis keep what they have.
Crash ==
  /\ creating # {} \/ pipe # <<>> \/ inRoom # {}
  /\ creating' = {}
  /\ pipe' = <<>>
  /\ cut' = (cut \/ \E w \in ToSet(pipe) : w.at = "lpush")
  /\ lost' = lost \cup creating \cup {w.message : w \in ToSet(pipe)}
  /\ inRoom' = {} /\ loaded' = {}
  /\ shown' = [c \in Clients |-> {}]
  /\ UNCHANGED <<history, deleted, cache, sent, overlap>>

Next ==
  \/ \E m \in Messages : Create(m) \/ Push(m) \/ PushFails(m) \/ SoftDelete(m)
  \/ Trim \/ SendMessage \/ TrimFails
  \/ \E c \in Clients : ChatJoin(c) \/ Load(c) \/ ChatLeave(c)
  \/ Crash

Spec == Init /\ [][Next]_vars

-----------------------------------------------------------------------------

Pending == {w.message : w \in ToSet(pipe)}
InFlight == creating \cup Pending
Untrimmed == {i \in DOMAIN pipe : pipe[i].at = "lpush"}

\* The handler at i broadcasts before the one at j: pipe is a queue, which a handler
\* goes through twice.
Sooner(i, j) ==
  \/ pipe[i].at = "ltrim" /\ pipe[j].at = "lpush"
  \/ pipe[i].at = pipe[j].at /\ i < j

\* The feed: m has been or will be broadcast before n, failures apart.
SentBefore(m, n) ==
  \/ \E k, l \in DOMAIN sent : k < l /\ sent[k] = m /\ sent[l] = n
  \/ m \in ToSet(sent) /\ n \in Pending
  \/ \E i, j \in DOMAIN pipe : Sooner(i, j) /\ pipe[i].message = m /\ pipe[j].message = n

\* Every message stored has one fate: its handler is at work, or it has been broadcast
\* once, or its handler has failed and it never is (chat.gateway.ts:30-41).
EachMessageOnce ==
  /\ IsInjective(sent)
  /\ ToSet(history) = InFlight \cup ToSet(sent) \cup lost
  /\ creating \cap Pending = {}
  /\ InFlight \cap (ToSet(sent) \cup lost) = {}
  /\ ToSet(sent) \cap lost = {}

\* "Cache in Redis for fast replay on join", "keep last 100"
\* (messages.service.ts:72, 78): read backwards, the list is the end of the feed, each
\* message once, and the messages that were never broadcast; it is longer than the
\* cap only while an ltrim is to come, or after one was lost; and what was broadcast
\* last is on it.
CacheIsFeed ==
  /\ IsInjective(cache)
  /\ ToSet(cache) \subseteq ToSet(sent) \cup Pending \cup lost
  /\ \A i \in DOMAIN cache, n \in Messages :
       SentBefore(cache[i], n) => \E j \in DOMAIN cache : j < i /\ cache[j] = n
  /\ ~cut => Len(cache) <= CacheSize + Cardinality(Untrimmed)
  /\ \A i \in DOMAIN sent :
       Len(sent) + Len(pipe) + Cardinality(lost) < CacheSize + i => sent[i] \in ToSet(cache)

\* Messages are broadcast in the order in which history has them, unless one was
\* stored while the insert of the other was unanswered (messages.service.ts:62).
FeedFollowsHistory ==
  \A i, j \in DOMAIN history : i < j =>
    LET m == history[i]
        n == history[j]
    IN  (\E k, l \in DOMAIN sent : k < l /\ sent[k] = n /\ sent[l] = m) => <<m, n>> \in overlap

\* Who joins the room and then loads the history misses no message that is stored,
\* whatever is in flight meanwhile, as long as the history fits a page: a message
\* whose caching failed comes with the next load only (messages.service.ts:77,
\* chat.gateway.ts:30-41).
NothingMissed ==
  Len(history) <= Limit =>
    \A c \in loaded :
      ToSet(history) \ (deleted \cup InFlight \cup lost) \subseteq shown[c]
=============================================================================
