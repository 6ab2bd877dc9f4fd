------------------------------- MODULE Campus -------------------------------
(***************************************************************************)
(* SessionsService, RealtimeGateway and LiveKit together: the participant  *)
(* rows, the events sent after they are written, the room each user is     *)
(* shown in, and the voice rooms.                                          *)
(*                                                                         *)
(* A request makes its checks and its first write in one step, and its     *)
(* later writes, the deletion of a voice room and its event in steps of    *)
(* their own: it awaits the database between the rows of a new session,    *)
(* between the rows and the status of one that ends, and the log before    *)
(* the event.  What it may find when its checks and its write are further  *)
(* apart is what Read and Open allow under "overtake".  A handshake asks   *)
(* the database for the user's session in one step and registers the user  *)
(* in another; a user has one handshake at a time here, and it is not cut  *)
(* short (Realtime looks at those that are).  The moves on the map are     *)
(* those of CampusMap, which Realtime implements event by event.           *)
(*                                                                         *)
(* Of these disturbances a behaviour has only those in env:                *)
(*   "twice"     a user joins a session while in another one               *)
(*   "early"     a user in a session that has not started (re)connects     *)
(*   "overtake"  a request is begun while another about the same user, or  *)
(*               one that starts or ends the same session, is under way: it *)
(*               may write on what it read before the other wrote          *)
(*   "cross"     an event about a user comes between the two steps of      *)
(*               their handshake                                           *)
(*   "lost"      a request fails before its event, or LiveKit fails        *)
(*   "outlive"   a voice token is used by somebody who is no longer in the *)
(*               session                                                   *)
(***************************************************************************)
EXTENDS Naturals, Sequences

CONSTANTS
  Users, Sessions,
  Host,           \* the host of each session
  Speakers,       \* the users who use voice
  Calls,          \* requests that may have written and not be through yet
  CommonArea, Nowhere,
  Environments    \* the sets of disturbances to look at

Disturbances == {"twice", "early", "overtake", "cross", "lost", "outlive"}

ASSUME CampusAssumption ==
  /\ Host \in [Sessions -> Users]
  /\ Speakers \subseteq Users
  /\ Environments \subseteq SUBSET Disturbances
  /\ CommonArea \notin Sessions /\ Nowhere \notin Sessions \cup {CommonArea}
  /\ (Sessions \cup {CommonArea, Nowhere}) \cap {"none", "asked"} = {}

VARIABLES
  status,      \* session.status
  active,      \* the sessions with an ACTIVE row of each user, by joinedAt, last first
  kicked,      \* the users whose row in each session is KICKED
  left,        \* the users whose row in each session has ever been LEFT
  call,        \* requests that have written and are not through yet
  place,       \* CampusMoves
  handshake,   \* "none", "asked", or the room the database has answered
  ask,         \* voice token requests: the session and the status read
  voice,       \* the voice tokens each user holds: the sessions they are for
  talk,        \* the users in each session's LiveKit room
  env

vars == <<status, active, kicked, left, call, place, handshake, ask, voice, talk, env>>
rows == <<status, active, kicked, left>>
speech == <<ask, voice, talk>>

Map == INSTANCE CampusMoves WITH place <- place, env <- env

Joinable == {"SCHEDULED", "ACTIVE"}
Rooms == Sessions \cup {CommonArea}
Idle == [event |-> "none"]
Hosting == {[event |-> "hosting", s |-> s, users |-> {Host[s]}] : s \in Sessions}
About == [event : {"joined", "left"}, s : Sessions, users : {{u} : u \in Users}]
Ending == [event : {"closing", "delete", "ended"}, s : Sessions, users : SUBSET Users]
Requests == {Idle} \cup Hosting \cup About \cup Ending

TypeOK ==
  /\ status \in [Sessions -> {"NONE", "SCHEDULED", "ACTIVE", "ENDED"}]
  /\ active \in [Users -> Seq(Sessions)]
  /\ kicked \in [Sessions -> SUBSET Users]
  /\ left \in [Sessions -> SUBSET Users]
  /\ call \in [Calls -> Requests]
  /\ place \in [Users -> Rooms \cup {Nowhere}]
  /\ handshake \in [Users -> {"none", "asked"} \cup Rooms]
  /\ ask \in [Speakers -> {Idle} \cup [event : {"voice"}, s : Sessions]]
  /\ voice \in [Speakers -> SUBSET Sessions]
  /\ talk \in [Sessions -> SUBSET Speakers]
  /\ env \in Environments

Init ==
  /\ status = [s \in Sessions |-> "NONE"]
  /\ active = [u \in Users |-> <<>>]
  /\ kicked = [s \in Sessions |-> {}]
  /\ left = [s \in Sessions |-> {}]
  /\ call = [c \in Calls |-> Idle]
  /\ Map!NobodyPlaced
  /\ handshake = [u \in Users |-> "none"]
  /\ ask = [u \in Speakers |-> Idle]
  /\ voice = [u \in Speakers |-> {}]
  /\ talk = [s \in Sessions |-> {}]
  /\ env \in Environments

In(u, s) == \E i \in DOMAIN active[u] : active[u][i] = s
Without(u, s) ==
  LET i == CHOOSE i \in DOMAIN active[u] : active[u][i] = s
  IN  IF In(u, s)
      THEN SubSeq(active[u], 1, i - 1) \o SubSeq(active[u], i + 1, Len(active[u]))
      ELSE active[u]

\* The status of the row of u in s.
Row(u, s) ==
  CASE In(u, s) -> "ACTIVE"
    [] ~In(u, s) /\ u \in kicked[s] -> "KICKED"
    [] ~In(u, s) /\ u \in left[s] \ kicked[s] -> "LEFT"
    [] OTHER -> "NONE"

\* What a request may have found of the row of u in s before it writes, and whether
\* it may have found the session open: what is there, or under "overtake" what
\* was there before.  A row is made ACTIVE, and a session SCHEDULED.
Read(u, s) ==
  {Row(u, s)} \cup
    IF "overtake" \in env
    THEN {"NONE"} \cup {r \in {"ACTIVE"} : Row(u, s) # "NONE"}
                  \cup {r \in {"LEFT"} : u \in left[s]}
    ELSE {}
Open(s) ==
  status[s] \in Joinable \/ ("overtake" \in env /\ status[s] # "NONE")

\* Another request about the users, or one that is ending the session, is under way.
Pending(users, s) ==
  \E c \in Calls :
    /\ call[c] # Idle
    /\ call[c].users \cap users # {} \/ (call[c].event = "closing" /\ call[c].s = s)
Alone(users, s) == Pending(users, s) => "overtake" \in env

\* A request makes its first write and has more to do.
Begin(c, event, s, users) ==
  /\ call[c] = Idle
  /\ Alone(users, s)
  /\ call' = [call EXCEPT ![c] = [event |-> event, s |-> s, users |-> users]]

-----------------------------------------------------------------------------
(* SessionsService: the rows.                                              *)

Others(u, s) == Without(u, s) # <<>>

\* The row of u in s is ACTIVE from now, whatever it was.
Participate(u, s) ==
  /\ Others(u, s) => "twice" \in env
  /\ active' = [active EXCEPT ![u] = <<s>> \o Without(u, s)]

CreateSession(c, s) ==
  /\ status[s] = "NONE"
  /\ Others(Host[s], s) => "twice" \in env
  /\ status' = [status EXCEPT ![s] = "SCHEDULED"]
  /\ Begin(c, "hosting", s, {Host[s]})
  /\ UNCHANGED <<active, kicked, left, place, handshake, speech, env>>

\* The host is enrolled, or has joined their session already and the create fails.
HostRow(c) ==
  LET s == call[c].s
      u == Host[s]
  IN
  /\ call[c].event = "hosting"
  /\ \/ /\ Row(u, s) = "NONE"
        /\ Participate(u, s)
        /\ call' = [call EXCEPT ![c].event = "joined"]
     \/ /\ Row(u, s) # "NONE"
        /\ call' = [call EXCEPT ![c] = Idle]
        /\ UNCHANGED active
  /\ UNCHANGED <<status, kicked, left, place, handshake, speech, env>>

\* start() emits nothing.  One that is late reopens a session that has ended.
Start(s) ==
  /\ status[s] = "SCHEDULED" \/ ("overtake" \in env /\ status[s] # "NONE")
  /\ status' = [status EXCEPT ![s] = "ACTIVE"]
  /\ UNCHANGED <<active, kicked, left, call, place, handshake, speech, env>>

\* The row is made, which fails when there is one by now, or updated.
Join(c, s, u) ==
  /\ Open(s)
  /\ \/ "NONE" \in Read(u, s) /\ Row(u, s) = "NONE"
     \/ "LEFT" \in Read(u, s)
  /\ Participate(u, s)
  /\ kicked' = [kicked EXCEPT ![s] = @ \ {u}]
  /\ Begin(c, "joined", s, {u})
  /\ UNCHANGED <<status, left, place, handshake, speech, env>>

\* The row of u is ACTIVE no more.
Quit(u, s) == active' = [active EXCEPT ![u] = Without(u, s)]

LeaveMutant(c, s, u) ==
  /\ Open(s)
  /\ "ACTIVE" \in Read(u, s) /\ u # Host[s]
  /\ Quit(u, s)
  /\ kicked' = [kicked EXCEPT ![s] = @ \ {u}]
  /\ left' = [left EXCEPT ![s] = @ \cup {u}]
  /\ UNCHANGED <<status, call, place, handshake, speech, env>>
Leave(c, s, u) ==
  /\ Open(s)
  /\ "ACTIVE" \in Read(u, s) /\ u # Host[s]
  /\ Quit(u, s)
  /\ kicked' = [kicked EXCEPT ![s] = @ \ {u}]
  /\ left' = [left EXCEPT ![s] = @ \cup {u}]
  /\ Begin(c, "left", s, {u})
  /\ UNCHANGED <<status, place, handshake, speech, env>>

Kick(c, s, u) ==
  /\ "ACTIVE" \in Read(u, s) /\ u # Host[s]
  /\ Quit(u, s)
  /\ kicked' = [kicked EXCEPT ![s] = @ \cup {u}]
  /\ Begin(c, "left", s, {u})
  /\ UNCHANGED <<status, left, place, handshake, speech, env>>

Members(s) == {u \in Users : In(u, s)}

\* end() closes the rows first and the session after them.
EndRowsMutant(c, s) ==
  /\ status[s] = "ACTIVE" \/ ("overtake" \in env /\ status[s] = "ENDED")
  /\ Alone({Host[s]}, s)
  /\ Begin(c, "closing", s, Members(s))
  /\ UNCHANGED <<status, active, left, kicked, place, handshake, speech, env>>
EndRows(c, s) ==
  /\ status[s] = "ACTIVE" \/ ("overtake" \in env /\ status[s] = "ENDED")
  /\ active' = [u \in Users |-> Without(u, s)]
  /\ left' = [left EXCEPT ![s] = @ \cup Members(s)]
  /\ Alone({Host[s]}, s)
  /\ Begin(c, "closing", s, Members(s))
  /\ UNCHANGED <<status, kicked, place, handshake, speech, env>>

EndStatus(c) ==
  /\ call[c].event = "closing"
  /\ status' = [status EXCEPT ![call[c].s] = "ENDED"]
  /\ call' = [call EXCEPT ![c].event = "delete"]
  /\ UNCHANGED <<active, kicked, left, place, handshake, speech, env>>

\* A request fails, or the process dies, before it is through.
Lose(c) ==
  /\ "lost" \in env
  /\ call[c] # Idle
  /\ call' = [call EXCEPT ![c] = Idle]
  /\ UNCHANGED <<rows, place, handshake, speech, env>>

-----------------------------------------------------------------------------
(* The events: what the gateway does with them.                            *)

Crossed(users) == \E u \in users : handshake[u] \notin {"none", "asked"}

\* join() of somebody who is in the session already only emits.
JoinAgain(s, u) ==
  /\ Open(s)
  /\ "ACTIVE" \in Read(u, s)
  /\ Alone({u}, s)
  /\ Crossed({u}) => "cross" \in env
  /\ Map!EnterSession(u, s)
  /\ UNCHANGED <<rows, call, handshake, speech, env>>

Emit(c, event) ==
  /\ call[c].event = event
  /\ Crossed(call[c].users) => "cross" \in env
  /\ call' = [call EXCEPT ![c] = Idle]
  /\ UNCHANGED <<rows, handshake, speech, env>>

EmitJoined(c) ==
  Emit(c, "joined") /\ \A u \in call[c].users : Map!EnterSession(u, call[c].s)

\* session.left says who left and not which session.
EmitLeft(c) == Emit(c, "left") /\ \A u \in call[c].users : Map!LeaveSession(u)

EmitEndedMutant(c) == Emit(c, "ended") /\ Map!MoveTo({Host[call[c].s]}, CommonArea)
EmitEnded(c) == Emit(c, "ended") /\ Map!EndSession(call[c].s)

-----------------------------------------------------------------------------
(* Handshakes.                                                             *)

Connect(u) ==
  /\ handshake[u] = "none"
  /\ handshake' = [handshake EXCEPT ![u] = "asked"]
  /\ Map!Vanish(u)
  /\ UNCHANGED <<rows, call, speech, env>>

\* getActiveUserSession: the session joined last of those that are running.
ActiveSession(u, r) ==
  LET running == {i \in DOMAIN active[u] : status[active[u][i]] = "ACTIVE"} IN
  \/ running = {} /\ r = CommonArea
  \/ \E i \in running : (\A j \in running : i <= j) /\ r = active[u][i]

AnswerHandshake(u) ==
  /\ handshake[u] = "asked"
  /\ (\E s \in Sessions : In(u, s) /\ status[s] = "SCHEDULED") => "early" \in env
  /\ \E r \in Rooms :
       ActiveSession(u, r) /\ handshake' = [handshake EXCEPT ![u] = r]
  /\ UNCHANGED <<rows, call, place, speech, env>>

Register(u) ==
  /\ handshake[u] \in Rooms
  /\ Map!Appear(u, handshake[u])
  /\ handshake' = [handshake EXCEPT ![u] = "none"]
  /\ UNCHANGED <<rows, call, speech, env>>

Disconnect(u) ==
  /\ place[u] # Nowhere
  /\ Map!Vanish(u)
  /\ UNCHANGED <<rows, call, handshake, speech, env>>

-----------------------------------------------------------------------------
(* generateVoiceToken and LiveKit.                                         *)

\* The session is read first and its status tested last.
VoiceAsk(u, s) ==
  /\ ask[u] = Idle
  /\ status[s] \in Joinable
  /\ ask' = [ask EXCEPT ![u] = [event |-> "voice", s |-> s]]
  /\ UNCHANGED <<rows, call, place, handshake, voice, talk, env>>

\* The participant row is read last: the token is signed, or refused.
Grant(u, s) == In(u, s)

VoiceIssue(u) ==
  /\ ask[u] # Idle
  /\ ask' = [ask EXCEPT ![u] = Idle]
  /\ voice' = IF Grant(u, ask[u].s) THEN [voice EXCEPT ![u] = @ \cup {ask[u].s}]
              ELSE voice
  /\ UNCHANGED <<rows, call, place, handshake, talk, env>>

\* LiveKit makes the room again for whoever comes with a token.
EnterVoice(u, s) ==
  /\ s \in voice[u]
  /\ ~In(u, s) => "outlive" \in env
  /\ talk' = [talk EXCEPT ![s] = @ \cup {u}]
  /\ UNCHANGED <<rows, call, place, handshake, ask, voice, env>>

LeaveVoice(u, s) ==
  /\ u \in talk[s]
  /\ talk' = [talk EXCEPT ![s] = @ \ {u}]
  /\ UNCHANGED <<rows, call, place, handshake, ask, voice, env>>

\* A failure of LiveKit is logged, and the event is emitted all the same.
DeleteVoiceRoomMutant(c) ==
  /\ call[c].event = "delete"
  /\ call' = [call EXCEPT ![c].event = "ended"]
  /\ UNCHANGED <<rows, place, handshake, speech, env>>
DeleteVoiceRoom(c) ==
  /\ call[c].event = "delete"
  /\ call' = [call EXCEPT ![c].event = "ended"]
  /\ \/ talk' = [talk EXCEPT ![call[c].s] = {}]
     \/ "lost" \in env /\ UNCHANGED talk
  /\ UNCHANGED <<rows, place, handshake, ask, voice, env>>

Next ==
  \/ \E c \in Calls :
       \/ \E s \in Sessions :
            \/ CreateSession(c, s) \/ EndRows(c, s)
            \/ \E u \in Users : Join(c, s, u) \/ Leave(c, s, u) \/ Kick(c, s, u)
       \/ HostRow(c) \/ EndStatus(c) \/ DeleteVoiceRoom(c) \/ Lose(c)
       \/ EmitJoined(c) \/ EmitLeft(c) \/ EmitEnded(c)
  \/ \E s \in Sessions : Start(s) \/ \E u \in Users : JoinAgain(s, u)
  \/ \E u \in Users : Connect(u) \/ AnswerHandshake(u) \/ Register(u) \/ Disconnect(u)
  \/ \E u \in Speakers :
       \/ VoiceIssue(u)
       \/ \E s \in Sessions : VoiceAsk(u, s) \/ EnterVoice(u, s) \/ LeaveVoice(u, s)

Spec == Init /\ [][Next]_vars

-----------------------------------------------------------------------------

\* Where the rows say a user should be shown.
Home(u) == IF active[u] = <<>> THEN CommonArea ELSE Head(active[u])

\* Nothing about the user is on its way.
Settled(u) ==
  \A c \in Calls : call[c] # Idle => u \notin call[c].users /\ place[u] # call[c].s

\* Once the events about them are handled, users are shown in the session they
\* are in, and in the common area when they are in none
\* (realtime.gateway.ts:81-87, 126-137, 215-228).  Each disturbance breaks it:
\* session.left names no session, and a start moves nobody.
ShownAtHome ==
  env \cap {"twice", "early", "overtake", "cross", "lost"} = {} =>
    \A u \in Users : place[u] # Nowhere /\ Settled(u) => place[u] = Home(u)

\* Nobody is left in the room of a session that has ended, whatever other
\* sessions they are in.
EndedRoomEmpty ==
  env \cap {"overtake", "cross", "lost"} = {} =>
    \A s \in Sessions, u \in Users :
      status[s] = "ENDED" /\ place[u] = s => ~Settled(u)

\* A voice token is signed only for somebody whose row is ACTIVE then, and only while
\* the session is open although its status was read before the row: end() closes
\* the rows before the session, so a row that is still ACTIVE vouches for it
\* (sessions.service.ts:201-213, 437-458).  A join on a status read before the end
\* leaves a row that vouches for nothing.
VoiceForParticipants ==
  [][\A u \in Speakers, s \in Sessions :
       s \in voice'[u] \ voice[u] =>
         In(u, s) /\ ("overtake" \notin env => status[s] \in Joinable)]_vars

\* When session.ended is emitted the voice room is empty and stays so
\* (sessions.service.ts:208-225), unless LiveKit fails, somebody uses a token they
\* kept, or a join on a status read before the end gives somebody a row and with it
\* a token to come back with.
VoiceEnds ==
  env \cap {"outlive", "lost", "overtake"} = {} =>
    \A s \in Sessions :
        /\ status[s] = "ENDED"
        /\ \A c \in Calls : call[c] # Idle => call[c].s # s \/ call[c].event # "delete"
      => talk[s] = {}
=============================================================================
