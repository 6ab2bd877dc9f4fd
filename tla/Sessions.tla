------------------------------ MODULE Sessions ------------------------------
(***************************************************************************)
(* SessionsService: the life of a session and of its participants, kept in *)
(* PostgreSQL and changed by HTTP requests that run concurrently.  A        *)
(* request handler is a sequence of awaits; between two of them any other  *)
(* handler may run, and what the handler has read may be stale when it is  *)
(* used.  One action is one await: the local code that leads to it and its *)
(* database operation.  No handler opens a transaction.                    *)
(*                                                                         *)
(* A request that a guard rejects changes nothing and is not an action.    *)
(* Session logs are rows nothing reads back for a decision: a log write is *)
(* kept only as an await that may fail before the event that follows it.   *)
(***************************************************************************)
EXTENDS Naturals, FiniteSets

CONSTANTS
  Sessions,   \* ids of session rows
  Users,      \* ids of user rows
  Calls,      \* slots for requests in flight: the bound on concurrency
  Host,       \* the hostId written when a session is created
  Protected,  \* the sessions created with a password
  Invitees    \* users a host may name in invitedFriendsIds

ASSUME SessionsAssumption ==
  /\ Host \in [Sessions -> Users]
  /\ Protected \subseteq Sessions
  /\ Invitees \subseteq Users

VARIABLES
  status,     \* session.status, "NONE" while the row does not exist
  isLocked,   \* session.isLocked
  started,    \* session.actualStartTime is set
  member,     \* sessionParticipant.status per session and user, "NONE": no row
  hostRole,   \* the users whose participant row has role HOST
  invites,    \* the users who hold an unexpired invitation token
  vetted,     \* history: users whose password or token a join has verified
  call        \* the requests in flight

vars == <<status, isLocked, started, member, hostRole, invites, vetted, call>>
rows == <<status, isLocked, started, member, hostRole>>

Finished == {"ENDED", "CANCELLED"}
SessionStatus == {"NONE", "SCHEDULED", "ACTIVE"} \cup Finished
ParticipantStatus == {"NONE", "ACTIVE", "LEFT", "KICKED"}
Credential == {"none", "password", "invite"}
Operation == {"create", "update", "start", "end", "join", "leave", "kick"}

(***************************************************************************)
(* A request in flight: what it was asked, the await it has reached, and   *)
(* what it has read (seen: session.status, locked: session.isLocked,       *)
(* existing: the participant row).                                         *)
(***************************************************************************)
Request == [op : Operation, s : Sessions, u : Users,
            pc : {"enroll", "check", "close", "write", "log", "emit"},
            seen : SessionStatus, locked : BOOLEAN,
            existing : ParticipantStatus, cred : Credential, lock : BOOLEAN]
Idle == [pc |-> "idle"]

TypeOK ==
  /\ status \in [Sessions -> SessionStatus]
  /\ isLocked \in [Sessions -> BOOLEAN]
  /\ started \in [Sessions -> BOOLEAN]
  /\ member \in [Sessions -> [Users -> ParticipantStatus]]
  /\ hostRole \in [Sessions -> SUBSET Users]
  /\ invites \in [Sessions -> SUBSET Users]
  /\ vetted \in [Sessions -> SUBSET Users]
  /\ call \in [Calls -> Request \cup {Idle}]

Init ==
  /\ status = [s \in Sessions |-> "NONE"]
  /\ isLocked = [s \in Sessions |-> FALSE]
  /\ started = [s \in Sessions |-> FALSE]
  /\ member = [s \in Sessions |-> [u \in Users |-> "NONE"]]
  /\ hostRole = [s \in Sessions |-> {}]
  /\ invites = [s \in Sessions |-> {}]
  /\ vetted = [s \in Sessions |-> {}]
  /\ call = [c \in Calls |-> Idle]

-----------------------------------------------------------------------------
(* How handlers move between awaits.                                       *)

\* getSession has found the row: the request goes on from what it read.
Opened(op, s, u, pc) ==
  [op |-> op, s |-> s, u |-> u, pc |-> pc,
   seen |-> status[s], locked |-> isLocked[s],
   existing |-> "NONE", cred |-> "none", lock |-> FALSE]

Begin(c, request) ==
  /\ call[c] = Idle
  /\ call' = [call EXCEPT ![c] = request]

At(c, op, pc) == call[c] # Idle /\ call[c].op = op /\ call[c].pc = pc

GoTo(c, pc) == call' = [call EXCEPT ![c].pc = pc]

Return(c) == call' = [call EXCEPT ![c] = Idle]

\* sessionParticipant.update or create on the row of the request.
SetMember(c, value) ==
  member' = [member EXCEPT ![call[c].s][call[c].u] = value]

-----------------------------------------------------------------------------
(* The conditions the handlers test.  A name ending in Mutant is a mistake *)
(* the operator after it could have been written with; nothing uses it.    *)

Joinable == {"SCHEDULED", "ACTIVE"}

StartableMutant == {"SCHEDULED", "ENDED"}
Startable == {"SCHEDULED"}

Endable == {"ACTIVE"}

MayRemoveMutant(s, u) == TRUE
MayRemove(s, u) == u # Host[s]

MayReturnMutant(existing) == TRUE
MayReturn(existing) == existing # "KICKED"

LocksOutMutant(c) ==
  call[c].locked /\ member[call[c].s][call[c].u] = "NONE"
LocksOut(c) == call[c].locked

\* The token must be valid when there is one; it or the password opens a
\* protected session.
AdmitsMutant(c) == call[c].cred = "invite" => call[c].u \in invites[call[c].s]
Admits(c) ==
  /\ call[c].cred = "invite" => call[c].u \in invites[call[c].s]
  /\ call[c].s \in Protected => call[c].cred # "none"

-----------------------------------------------------------------------------
(* POST /sessions: the session row, then the host's participant row.       *)

CreateSession(c, s) ==
  /\ status[s] = "NONE"
  /\ status' = [status EXCEPT ![s] = "SCHEDULED"]
  /\ Begin(c, [Opened("create", s, Host[s], "enroll")
                 EXCEPT !.seen = "SCHEDULED"])
  /\ UNCHANGED <<isLocked, started, member, hostRole, invites, vetted>>

\* (sessionId, userId) is unique: create throws when the row is there.
EnrollHost(c) ==
  /\ At(c, "create", "enroll")
  /\ IF member[call[c].s][call[c].u] = "NONE"
     THEN /\ SetMember(c, "ACTIVE")
          /\ hostRole' = [hostRole EXCEPT ![call[c].s] = @ \cup {call[c].u}]
          /\ GoTo(c, "emit")
     ELSE /\ Return(c)
          /\ UNCHANGED <<member, hostRole>>
  /\ UNCHANGED <<status, isLocked, started, invites, vetted>>

\* session.joined for the host, then session.invite_friends: the gateway
\* signs a one-minute token for each invited user who is connected.
EmitCreated(c, invited) ==
  /\ At(c, "create", "emit")
  /\ invites' = [invites EXCEPT ![call[c].s] = @ \cup invited]
  /\ Return(c)
  /\ UNCHANGED <<rows, vetted>>

-----------------------------------------------------------------------------
(* PATCH /sessions/:id and POST /sessions/:id/start, by the host.          *)

UpdateBegin(c, s, lock) ==
  /\ status[s] \notin {"NONE"} \cup Finished
  /\ Begin(c, [Opened("update", s, Host[s], "write") EXCEPT !.lock = lock])
  /\ UNCHANGED <<rows, invites, vetted>>

UpdateWrite(c) ==
  /\ At(c, "update", "write")
  /\ isLocked' = [isLocked EXCEPT ![call[c].s] = call[c].lock]
  /\ Return(c)
  /\ UNCHANGED <<status, started, member, hostRole, invites, vetted>>

StartBegin(c, s) ==
  /\ status[s] \in Startable
  /\ Begin(c, Opened("start", s, Host[s], "write"))
  /\ UNCHANGED <<rows, invites, vetted>>

StartWrite(c) ==
  /\ At(c, "start", "write")
  /\ status' = [status EXCEPT ![call[c].s] = "ACTIVE"]
  /\ started' = [started EXCEPT ![call[c].s] = TRUE]
  /\ Return(c)
  /\ UNCHANGED <<isLocked, member, hostRole, invites, vetted>>

-----------------------------------------------------------------------------
(* POST /sessions/:id/end, by the host: two updates, the log and the       *)
(* voice room's deletion (whose failure is swallowed), then the event.     *)

EndBegin(c, s) ==
  /\ status[s] \in Endable
  /\ Begin(c, Opened("end", s, Host[s], "close"))
  /\ UNCHANGED <<rows, invites, vetted>>

EndCloseMutant(c) ==
  /\ At(c, "end", "close")
  /\ member' = [member EXCEPT ![call[c].s] =
                  [u \in Users |-> IF @[u] = "ACTIVE" /\ u # Host[call[c].s]
                                  THEN "LEFT" ELSE @[u]]]
  /\ GoTo(c, "write")
  /\ UNCHANGED <<status, isLocked, started, hostRole, invites, vetted>>

\* updateMany: every row still ACTIVE becomes LEFT.
EndClose(c) ==
  /\ At(c, "end", "close")
  /\ member' = [member EXCEPT ![call[c].s] =
                  [u \in Users |-> IF @[u] = "ACTIVE" THEN "LEFT" ELSE @[u]]]
  /\ GoTo(c, "write")
  /\ UNCHANGED <<status, isLocked, started, hostRole, invites, vetted>>

EndWrite(c) ==
  /\ At(c, "end", "write")
  /\ status' = [status EXCEPT ![call[c].s] = "ENDED"]
  /\ GoTo(c, "log")
  /\ UNCHANGED <<isLocked, started, member, hostRole, invites, vetted>>

EmitEnded(c) ==
  /\ At(c, "end", "log")
  /\ Return(c)
  /\ UNCHANGED <<rows, invites, vetted>>

-----------------------------------------------------------------------------
(* POST /sessions/:id/join.                                                *)

JoinBegin(c, s, u, cred) ==
  /\ status[s] \in Joinable
  /\ Begin(c, [Opened("join", s, u, "check") EXCEPT !.cred = cred])
  /\ UNCHANGED <<rows, invites, vetted>>

\* The row is read; the lock is the one read with the session before it.
JoinCheck(c) ==
  /\ At(c, "join", "check")
  /\ LET existing == member[call[c].s][call[c].u]
     IN  IF existing = "ACTIVE"
         THEN GoTo(c, "emit") /\ UNCHANGED vetted
         ELSE IF MayReturn(existing) /\ ~LocksOut(c) /\ Admits(c)
         THEN /\ call' = [call EXCEPT ![c].pc = "write",
                                      ![c].existing = existing]
              /\ vetted' = [vetted EXCEPT ![call[c].s] =
                              IF call[c].cred = "none" THEN @
                              ELSE @ \cup {call[c].u}]
         ELSE Return(c) /\ UNCHANGED vetted
  /\ UNCHANGED <<rows, invites>>

\* update of the LEFT row, or create, which throws when a row has appeared.
JoinWrite(c) ==
  /\ At(c, "join", "write")
  /\ IF call[c].existing # "NONE" \/ member[call[c].s][call[c].u] = "NONE"
     THEN SetMember(c, "ACTIVE") /\ GoTo(c, "log")
     ELSE Return(c) /\ UNCHANGED member
  /\ UNCHANGED <<status, isLocked, started, hostRole, invites, vetted>>

\* session.joined, after the log unless the user was in the session already.
EmitJoined(c) ==
  /\ At(c, "join", "log") \/ At(c, "join", "emit")
  /\ Return(c)
  /\ UNCHANGED <<rows, invites, vetted>>

-----------------------------------------------------------------------------
(* POST /sessions/:id/leave, never by the host, and                        *)
(* DELETE /sessions/:id/participants/:userId, by the host for another.     *)

LeaveBegin(c, s, u) ==
  /\ MayRemove(s, u)
  /\ status[s] \notin {"NONE"} \cup Finished
  /\ Begin(c, Opened("leave", s, u, "check"))
  /\ UNCHANGED <<rows, invites, vetted>>

KickBegin(c, s, u) ==
  /\ MayRemove(s, u)
  /\ status[s] # "NONE"
  /\ Begin(c, Opened("kick", s, u, "check"))
  /\ UNCHANGED <<rows, invites, vetted>>

\* Both go on only when the row they read is ACTIVE.
RemovalCheck(c) ==
  /\ At(c, "leave", "check") \/ At(c, "kick", "check")
  /\ IF member[call[c].s][call[c].u] = "ACTIVE"
     THEN call' = [call EXCEPT ![c].pc = "write", ![c].existing = "ACTIVE"]
     ELSE Return(c)
  /\ UNCHANGED <<rows, invites, vetted>>

LeaveWrite(c) ==
  /\ At(c, "leave", "write")
  /\ SetMember(c, "LEFT")
  /\ GoTo(c, "log")
  /\ UNCHANGED <<status, isLocked, started, hostRole, invites, vetted>>

KickWrite(c) ==
  /\ At(c, "kick", "write")
  /\ SetMember(c, "KICKED")
  /\ GoTo(c, "log")
  /\ UNCHANGED <<status, isLocked, started, hostRole, invites, vetted>>

EmitLeft(c) ==
  /\ At(c, "leave", "log") \/ At(c, "kick", "log")
  /\ Return(c)
  /\ UNCHANGED <<rows, invites, vetted>>

-----------------------------------------------------------------------------
(* What happens to requests and tokens from outside.                       *)

\* A database error rejects the await the request has reached.
Fail(c) ==
  /\ call[c] # Idle
  /\ call[c].pc # "emit"
  /\ Return(c)
  /\ UNCHANGED <<rows, invites, vetted>>

\* The process dies: what was in flight is gone, rows and tokens are not.
Crash ==
  /\ \E c \in Calls : call[c] # Idle
  /\ call' = [c \in Calls |-> Idle]
  /\ UNCHANGED <<rows, invites, vetted>>

ExpireInvite(s, u) ==
  /\ u \in invites[s]
  /\ invites' = [invites EXCEPT ![s] = @ \ {u}]
  /\ UNCHANGED <<rows, vetted, call>>

\* The routes of SessionsController, each route's handler at any of its awaits, and
\* what interrupts them.
Next ==
  \/ \E c \in Calls, s \in Sessions :
       \/ CreateSession(c, s)
       \/ \E lock \in BOOLEAN : UpdateBegin(c, s, lock)
       \/ StartBegin(c, s)
       \/ EndBegin(c, s)
       \/ \E u \in Users :
            \/ \E cred \in Credential : JoinBegin(c, s, u, cred)
            \/ LeaveBegin(c, s, u)
            \/ KickBegin(c, s, u)
  \/ \E c \in Calls :
       \/ EnrollHost(c)
       \/ \E invited \in SUBSET Invitees : EmitCreated(c, invited)
       \/ UpdateWrite(c)
       \/ StartWrite(c)
       \/ EndClose(c)
       \/ EndWrite(c)
       \/ EmitEnded(c)
       \/ JoinCheck(c)
       \/ JoinWrite(c)
       \/ EmitJoined(c)
       \/ RemovalCheck(c)
       \/ LeaveWrite(c)
       \/ KickWrite(c)
       \/ EmitLeft(c)
       \/ Fail(c)
  \/ Crash
  \/ \E s \in Sessions, u \in Users : ExpireInvite(s, u)

Spec == Init /\ [][Next]_vars

-----------------------------------------------------------------------------
(* What holds whatever the requests in flight.                             *)

\* A session that is or was open to work has an actual start time: none ends
\* without having been started, whichever of start() and end() comes late.
EndedWasStarted ==
  \A s \in Sessions : status[s] \in {"ACTIVE", "ENDED"} => started[s]

\* The host is never removed: kickParticipant() and leave() refuse the host
\* before they read the row, and end(), the only other way out, needs a start.
HostStays ==
  \A s \in Sessions :
    /\ member[s][Host[s]] # "KICKED"
    /\ member[s][Host[s]] = "LEFT" => started[s]

\* Nobody but the host is in a session made with a password unless a join of
\* theirs has presented the password or a valid invitation token.
ProtectedAdmission ==
  \A s \in Protected, u \in Users :
    member[s][u] # "NONE" => u = Host[s] \/ u \in vetted[s]

\* A request that is about to write and read the row before value was in it.
WritesStale(ops, s, u, value) ==
  \E c \in Calls :
    /\ \E op \in ops : At(c, op, "write")
    /\ call[c].s = s
    /\ call[c].u = u
    /\ call[c].existing # value

\* A kick is undone only by a join() or a leave() of the same user that read
\* the participant row before the kick; a later request never undoes it.
KickUndoneOnlyByStale ==
  [][\A s \in Sessions, u \in Users :
       member[s][u] = "KICKED" /\ member'[s][u] # "KICKED" =>
         WritesStale({"join", "leave"}, s, u, "KICKED")]_vars

\* A session that has ended changes status again only by a start() that read
\* it as SCHEDULED: no request that begins after the end reopens it.
ReopenedOnlyByStale ==
  [][\A s \in Sessions :
       status[s] = "ENDED" /\ status'[s] # "ENDED" =>
         \E c \in Calls :
           /\ At(c, "start", "write")
           /\ call[c].s = s
           /\ call[c].seen = "SCHEDULED"]_vars

\* A user enters a locked session only through a join() that read it unlocked,
\* or as the host whom create() enrols.
LockedEntryOnlyByStale ==
  [][\A s \in Sessions, u \in Users :
       isLocked[s] /\ member[s][u] # "ACTIVE" /\ member'[s][u] = "ACTIVE" =>
         \E c \in Calls :
           /\ call[c] # Idle
           /\ call[c].s = s
           /\ call[c].u = u
           /\ \/ At(c, "join", "write") /\ ~call[c].locked
              \/ At(c, "create", "enroll") /\ u = Host[s]]_vars

-----------------------------------------------------------------------------
(* What the service means to hold, and does while no two requests race.    *)

\* No guest is in a session that has ended: "Close out all still-active
\* participants" (sessions.service.ts:208, sessions.e2e-spec.ts:637).
EndedHasNoGuest ==
  \A s \in Sessions, u \in Users :
    status[s] = "ENDED" /\ u # Host[s] => member[s][u] # "ACTIVE"

\* end() closes out every participant, the host too: an ended session is empty.
EndedIsEmpty ==
  \A s \in Sessions, u \in Users : status[s] = "ENDED" => member[s][u] # "ACTIVE"

\* Who has been kicked is never a participant again
\* (sessions.e2e-spec.ts:543, sessions.service.ts:254).
KickedIsFinal ==
  [][\A s \in Sessions, u \in Users :
       member[s][u] = "KICKED" => member'[s][u] = "KICKED"]_vars

\* A locked session takes nobody in, neither first time nor again
\* (schema.prisma:143, sessions.service.ts:257).
LockHolds ==
  [][\A s \in Sessions, u \in Users :
       isLocked[s] /\ member[s][u] # "ACTIVE" => member'[s][u] # "ACTIVE"]_vars

-----------------------------------------------------------------------------
(* Which requests race.  The service keeps none of them apart.             *)

\* A request that has yet to write what it has decided from what it read.
Undone(c) == call[c] # Idle /\ call[c].pc \notin {"log", "emit"}

\* The pairs of requests about one session that race: one may write what no longer
\* holds once the other has written.  All other pairs may overlap freely.
Race(a, b) ==
  /\ a.s = b.s
  /\ \/ a.op = "end" /\ b.op \in {"create", "update", "start", "join", "kick"}
     \/ a.op = "update" /\ b.op \in {"create", "join"}
     \/ a.op = "kick" /\ b.op \in {"join", "leave"} /\ a.u = b.u

Raceless ==
  \A c, d \in Calls : Undone(c) /\ Undone(d) => ~Race(call[c], call[d])

\* SessionsService when nothing lets two requests of such a pair overlap.
RacelessSpec == Init /\ [][Next /\ Raceless']_vars

Contract == INSTANCE SessionContract
  WITH status <- status, isLocked <- isLocked, member <- member

\* Requests that do not race change sessions as the contract says.
Implements == Contract!ContractSpec
=============================================================================
