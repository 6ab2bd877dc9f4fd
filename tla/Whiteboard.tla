----------------------------- MODULE Whiteboard -----------------------------
(***************************************************************************)
(* WhiteboardGateway and WhiteboardService: the stroke list that Redis     *)
(* keeps for one session and the boards its clients show.                  *)
(*                                                                         *)
(* All commands go over one connection, so Redis runs them in the order    *)
(* they were issued and answers in that order: a command is applied when   *)
(* it is issued, and pipe holds the handlers that wait for its answer.     *)
(* A stroke takes three round trips before it is broadcast, an undo two,   *)
(* a clear one.                                                            *)
(***************************************************************************)
EXTENDS Naturals, Sequences, FiniteSets, SequencesExt

CONSTANTS
  Clients,
  Strokes,       \* stroke ids; each is drawn once
  StrokeCap,     \* STROKE_CAP
  Closed,        \* stands for a socket that has closed
  MaxPipe        \* bound on the handlers waiting for Redis

ASSUME WhiteboardAssumption ==
  StrokeCap \in Nat \ {0} /\ MaxPipe \in Nat /\ Closed \notin Clients

VARIABLES
  list,        \* the list whiteboard:{sessionId}
  pipe,        \* the handlers waiting for Redis, oldest first
  inRoom,      \* those of the clients with the whiteboard open that are in the
               \* socket room session:{sessionId}
  open,        \* the clients with the whiteboard open
  silenced,    \* history: those that have left the socket room since they opened it
  board,       \* the strokes each client shows
  drawn,       \* the socket that drew each stroke, once it is drawn
  erased,      \* history: the strokes an undo or a clear has taken off the list
  overtaken,   \* history: those among them that the undo or clear overtook
  cut          \* history: a crash has lost an ltrim since the last one

vars == <<list, pipe, inRoom, open, silenced, board, drawn, erased, overtaken, cut>>
pages == <<inRoom, open, silenced>>

Stages == {"rpush", "ltrim", "expire"}
Sockets == Clients \cup {Closed}
Waiting ==
  [at : Stages \cup {"undone"}, by : Sockets, stroke : Strokes]
    \cup [at : {"find"}, by : Sockets, stroke : Strokes, found : BOOLEAN]
    \cup [at : {"init"}, by : Sockets, strokes : SUBSET Strokes]
    \cup [at : {"del"}, by : Sockets]

TypeOK ==
  /\ list \in Seq(Strokes)
  /\ pipe \in Seq(Waiting) /\ Len(pipe) <= MaxPipe
  /\ inRoom \cup silenced \subseteq open /\ open \subseteq Clients
  /\ board \in [Clients -> SUBSET Strokes]
  /\ drawn \in [Strokes -> {{}} \cup {{c} : c \in Sockets}]
  /\ overtaken \subseteq erased /\ erased \subseteq Strokes
  /\ cut \in BOOLEAN

Init ==
  /\ list = <<>>
  /\ pipe = <<>>
  /\ inRoom = {} /\ open = {} /\ silenced = {}
  /\ board = [c \in Clients |-> {}]
  /\ drawn = [s \in Strokes |-> {}]
  /\ erased = {}
  /\ overtaken = {}
  /\ cut = FALSE

-----------------------------------------------------------------------------

\* The handler of w awaits the answer to a command that has just been issued.
Await(queue, w) == Len(queue) < MaxPipe /\ pipe' = Append(queue, w)

Drawing(s) == \E w \in ToSet(pipe) : w.at \in Stages /\ w.stroke = s
Untrimmed == {i \in DOMAIN pipe : pipe[i].at = "rpush"}
Opening(c) == \E w \in ToSet(pipe) : w.at = "init" /\ w.by = c

\* A client draws once it has been sent the board.
Ready(c) == c \in open /\ ~Opening(c)

\* An event to everybody in the room but the sender, who add strokes to their
\* boards or take some off.
Broadcast(sender, add, remove) ==
  board' = [c \in Clients |->
              IF c \in inRoom \ {sender} THEN (board[c] \ remove) \cup add ELSE board[c]]

\* An undo or clear of c takes strokes off the list.  It overtakes a stroke whose
\* own broadcast is still to come, or that is on its way to c, whom the event of
\* the erasure will leave out.
Erase(c, gone) ==
  LET SentTo(s) == \E w \in ToSet(pipe) : w.at = "init" /\ w.by = c /\ s \in w.strokes IN
  /\ erased' = erased \cup gone
  /\ overtaken' = overtaken \cup {s \in gone : Drawing(s) \/ SentTo(s)}

\* ltrim key -STROKE_CAP -1.  A name ending in Mutant is a mistake the operator
\* after it could have been written with; nothing uses it.
TrimmedMutant(strokes) == strokes
Trimmed(strokes) ==
  IF Len(strokes) <= StrokeCap THEN strokes
  ELSE SubSeq(strokes, Len(strokes) - StrokeCap + 1, Len(strokes))

-----------------------------------------------------------------------------
(* Messages: each issues its first command.                                *)

\* The room is joined before the strokes are read.
JoinMutant(c) ==
  /\ ~Opening(c)
  /\ Await(pipe, [at |-> "init", by |-> c, strokes |-> {}])
  /\ inRoom' = inRoom \cup {c} /\ open' = open \cup {c} /\ silenced' = silenced \ {c}
  /\ UNCHANGED <<list, board, drawn, erased, overtaken, cut>>
Join(c) ==
  /\ ~Opening(c)
  /\ Await(pipe, [at |-> "init", by |-> c, strokes |-> ToSet(list)])
  /\ inRoom' = inRoom \cup {c} /\ open' = open \cup {c} /\ silenced' = silenced \ {c}
  /\ UNCHANGED <<list, board, drawn, erased, overtaken, cut>>

Stroke(c, s) ==
  /\ Ready(c) /\ drawn[s] = {}
  /\ drawn' = [drawn EXCEPT ![s] = {c}]
  /\ board' = [board EXCEPT ![c] = @ \cup {s}]
  /\ list' = Append(list, s)
  /\ Await(pipe, [at |-> "rpush", by |-> c, stroke |-> s])
  /\ UNCHANGED <<pages, erased, overtaken, cut>>

Undo(c, s) ==
  /\ Ready(c) /\ drawn[s] = {c} /\ s \in board[c]
  /\ board' = [board EXCEPT ![c] = @ \ {s}]
  /\ Await(pipe, [at |-> "find", by |-> c, stroke |-> s, found |-> s \in ToSet(list)])
  /\ UNCHANGED <<list, pages, drawn, erased, overtaken, cut>>

Clear(c) ==
  /\ Ready(c)
  /\ board' = [board EXCEPT ![c] = {}]
  /\ list' = <<>>
  /\ Erase(c, ToSet(list))
  /\ Await(pipe, [at |-> "del", by |-> c])
  /\ UNCHANGED <<pages, drawn, cut>>

-----------------------------------------------------------------------------
(* Answers: the oldest handler goes on.                                    *)

Answered(stage) == pipe # <<>> /\ Head(pipe).at = stage

SendInit ==
  /\ Answered("init")
  /\ LET w == Head(pipe) IN
       board' = IF w.by \in open THEN [board EXCEPT ![w.by] = w.strokes] ELSE board
  /\ pipe' = Tail(pipe)
  /\ UNCHANGED <<list, pages, drawn, erased, overtaken, cut>>

Trim ==
  /\ Answered("rpush")
  /\ list' = Trimmed(list)
  /\ Await(Tail(pipe), [Head(pipe) EXCEPT !.at = "ltrim"])
  /\ cut' = FALSE
  /\ UNCHANGED <<pages, board, drawn, erased, overtaken>>

Expire ==
  /\ Answered("ltrim")
  /\ Await(Tail(pipe), [Head(pipe) EXCEPT !.at = "expire"])
  /\ UNCHANGED <<list, pages, board, drawn, erased, overtaken, cut>>

SendStroke ==
  /\ Answered("expire")
  /\ Broadcast(Head(pipe).by, {Head(pipe).stroke}, {})
  /\ pipe' = Tail(pipe)
  /\ UNCHANGED <<list, pages, drawn, erased, overtaken, cut>>

\* lrem runs only when lrange has shown the stroke, and takes the first away.
RemoveFound ==
  /\ Answered("find") /\ Head(pipe).found
  /\ LET w == Head(pipe) IN
       /\ list' = RemoveFirst(list, w.stroke)
       /\ Erase(w.by, {w.stroke} \cap ToSet(list))
       /\ Await(Tail(pipe), [at |-> "undone", by |-> w.by, stroke |-> w.stroke])
  /\ UNCHANGED <<pages, board, drawn, cut>>

SendUndoMutant ==
  /\ Answered("undone") \/ (Answered("find") /\ ~Head(pipe).found)
  /\ pipe' = Tail(pipe)
  /\ UNCHANGED <<list, pages, board, drawn, erased, overtaken, cut>>
SendUndo ==
  /\ Answered("undone") \/ (Answered("find") /\ ~Head(pipe).found)
  /\ Broadcast(Head(pipe).by, {}, {Head(pipe).stroke})
  /\ pipe' = Tail(pipe)
  /\ UNCHANGED <<list, pages, drawn, erased, overtaken, cut>>

SendClear ==
  /\ Answered("del")
  /\ Broadcast(Head(pipe).by, {}, Strokes)
  /\ pipe' = Tail(pipe)
  /\ UNCHANGED <<list, pages, drawn, erased, overtaken, cut>>

-----------------------------------------------------------------------------

\* The chat of the session shares the socket room, and only it leaves the room:
\* when a client closes the chat, an open whiteboard hears nothing until the chat is
\* opened again, and then only what comes from then on.  Of clients without the
\* whiteboard it is not followed whether they are in the room.
ChatJoin(c) ==
  /\ c \in open \ inRoom
  /\ inRoom' = inRoom \cup {c}
  /\ UNCHANGED <<list, pipe, open, silenced, board, drawn, erased, overtaken, cut>>

ChatLeave(c) ==
  /\ c \in inRoom
  /\ inRoom' = inRoom \ {c}
  /\ silenced' = silenced \cup {c}
  /\ UNCHANGED <<list, pipe, open, board, drawn, erased, overtaken, cut>>

\* The page of the client closes, and with it the strokes it could undo; what it
\* had sent is carried on with.
Disconnect(c) ==
  /\ c \in open
  /\ inRoom' = inRoom \ {c} /\ open' = open \ {c} /\ silenced' = silenced \ {c}
  /\ board' = [board EXCEPT ![c] = {}]
  /\ pipe' = [i \in DOMAIN pipe |->
                IF pipe[i].by = c THEN [pipe[i] EXCEPT !.by = Closed] ELSE pipe[i]]
  /\ drawn' = [s \in Strokes |-> IF drawn[s] = {c} THEN {Closed} ELSE drawn[s]]
  /\ UNCHANGED <<list, erased, overtaken, cut>>

\* The process dies; Redis keeps what it has.
Crash ==
  /\ open # {}
  /\ pipe' = <<>>
  /\ inRoom' = {} /\ open' = {} /\ silenced' = {}
  /\ board' = [c \in Clients |-> {}]
  /\ cut' = (cut \/ Untrimmed # {})
  /\ drawn' = [s \in Strokes |-> IF drawn[s] = {} THEN {} ELSE {Closed}]
  /\ UNCHANGED <<list, erased, overtaken>>

Next ==
  \/ \E c \in Clients :
       \/ Join(c) \/ Clear(c) \/ ChatJoin(c) \/ ChatLeave(c) \/ Disconnect(c)
       \/ \E s \in Strokes : Stroke(c, s) \/ Undo(c, s)
  \/ SendInit \/ Trim \/ Expire \/ SendStroke \/ RemoveFound
  \/ SendUndo \/ SendClear
  \/ Crash

Spec == Init /\ [][Next]_vars

-----------------------------------------------------------------------------

\* Redis holds at most STROKE_CAP strokes and those whose ltrim is still to come
\* (whiteboard.service.ts:21-22), until a crash loses an ltrim.
CapKept == ~cut => Len(list) <= StrokeCap + Cardinality(Untrimmed)

\* Whoever has the whiteboard open shows every stroke that a later joiner would be
\* sent, but for their own and those that are on their way to them, unless they
\* have closed the chat since (chat.gateway.ts:111): opening the whiteboard again
\* makes up for what they missed.
SavedIsShown ==
  \A c \in open \ silenced : \A s \in ToSet(list) :
    s \in board[c] \/ drawn[s] = {c} \/ Drawing(s) \/ Opening(c)

\* What is undone or cleared is shown to nobody once the handlers are through,
\* unless it was overtaken: an undo takes two round trips to be broadcast, a clear
\* one, and the stroke they take back three.
ErasedIsHidden ==
  pipe = <<>> =>
    \A c \in open \ silenced : board[c] \cap erased \subseteq overtaken

\* "Removes it from Redis and tells everyone else to remove it too"
\* (whiteboard.gateway.ts:97), "Wipes Redis and broadcasts to all session
\* participants" (whiteboard.gateway.ts:110): said of everybody who is in the room.
ErasedForEveryone ==
  pipe = <<>> => \A c \in open \ silenced : board[c] \cap erased = {}
=============================================================================
