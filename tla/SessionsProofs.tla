--------------------------- MODULE SessionsProofs ---------------------------
(***************************************************************************)
(* Proofs about Sessions, for any sessions, users and number of requests   *)
(* in flight.  The inductive invariant says what each request in flight    *)
(* still knows for sure: the facts no other request can have taken away    *)
(* since they were read.                                                   *)
(***************************************************************************)
EXTENDS Sessions, TLAPS

\* The requests that may rely on what they know, however long ago they read it.
SoundRequest ==
  {r \in Request :
     /\ r.op = "create" => r.u = Host[r.s]
     /\ r.op = "start" => r.seen = "SCHEDULED"
     /\ r.op = "end" => started[r.s]
     /\ r.op \in {"leave", "kick"} => r.u # Host[r.s]
     /\ r.op = "join" /\ r.pc = "write" =>
          /\ r.existing # "KICKED"
          /\ ~r.locked
          /\ r.s \in Protected => r.u \in vetted[r.s]
     /\ r.op \in {"leave", "kick"} /\ r.pc = "write" =>
          /\ r.existing = "ACTIVE"
          /\ member[r.s][r.u] # "NONE"}

RequestsSound == call \in [Calls -> SoundRequest \cup {Idle}]

IInv ==
  /\ TypeOK
  /\ RequestsSound
  /\ EndedWasStarted
  /\ HostStays
  /\ ProtectedAdmission

-----------------------------------------------------------------------------
(* The shapes a request takes.                                             *)

\* A slot that is not idle holds a request.
LEMMA InFlight ==
  ASSUME TypeOK, NEW c \in Calls, call[c] # Idle
  PROVE  call[c] \in Request
BY DEF TypeOK

\* No request is mistaken for an idle slot.
LEMMA RequestNotIdle ==
  ASSUME NEW r \in Request
  PROVE  r # Idle
BY DEF Request, Idle

\* getSession gives a request.
LEMMA OpenedIsRequest ==
  ASSUME TypeOK, NEW op \in Operation, NEW s \in Sessions, NEW u \in Users,
         NEW pc \in {"enroll", "check", "close", "write", "log", "emit"}
  PROVE  /\ Opened(op, s, u, pc) \in Request
         /\ Opened(op, s, u, pc).op = op
         /\ Opened(op, s, u, pc).s = s
         /\ Opened(op, s, u, pc).u = u
         /\ Opened(op, s, u, pc).pc = pc
         /\ Opened(op, s, u, pc).seen = status[s]
         /\ Opened(op, s, u, pc).locked = isLocked[s]
BY DEF TypeOK, Opened, Request, ParticipantStatus, Credential

\* What an action that begins, moves on or ends a request does to the slots.
LEMMA BeginTypes ==
  ASSUME TypeOK, NEW c \in Calls, NEW r \in Request, Begin(c, r)
  PROVE  call' \in [Calls -> Request \cup {Idle}]
BY DEF TypeOK, Begin

LEMMA GoToTypes ==
  ASSUME TypeOK, NEW c \in Calls, call[c] # Idle,
         NEW pc \in {"enroll", "check", "close", "write", "log", "emit"},
         GoTo(c, pc)
  PROVE  call' \in [Calls -> Request \cup {Idle}]
<1>1. [call[c] EXCEPT !.pc = pc] \in Request
  BY InFlight DEF Request
<1> QED
  BY <1>1 DEF TypeOK, GoTo

LEMMA ReturnTypes ==
  ASSUME TypeOK, NEW c \in Calls, Return(c)
  PROVE  call' \in [Calls -> Request \cup {Idle}]
BY DEF TypeOK, Return

LEMMA SetMemberTypes ==
  ASSUME TypeOK, NEW c \in Calls, call[c] # Idle,
         NEW value \in ParticipantStatus, SetMember(c, value)
  PROVE  member' \in [Sessions -> [Users -> ParticipantStatus]]
BY InFlight DEF TypeOK, SetMember, Request

-----------------------------------------------------------------------------
(* Type correctness.                                                       *)

LEMMA TypeInit == Init => TypeOK
BY DEF Init, TypeOK, SessionStatus, ParticipantStatus

LEMMA TypeStep == TypeOK /\ [Next]_vars => TypeOK'
<1> SUFFICES ASSUME TypeOK, [Next]_vars
             PROVE  TypeOK'
  OBVIOUS
<1> USE SessionsAssumption
<1>1. ASSUME NEW c \in Calls, NEW s \in Sessions, CreateSession(c, s)
      PROVE  TypeOK'
  <2> DEFINE r == [Opened("create", s, Host[s], "enroll")
                     EXCEPT !.seen = "SCHEDULED"]
  <2>1. r \in Request
    BY OpenedIsRequest, "SCHEDULED" \in SessionStatus
       DEF Operation, Request, SessionStatus
  <2>2. call' \in [Calls -> Request \cup {Idle}]
    BY <1>1, <2>1, BeginTypes DEF CreateSession
  <2> QED
    BY <1>1, <2>2 DEF CreateSession, TypeOK, SessionStatus
<1>2. ASSUME NEW c \in Calls, NEW s \in Sessions, NEW lock \in BOOLEAN,
             UpdateBegin(c, s, lock)
      PROVE  TypeOK'
  <2>1. [Opened("update", s, Host[s], "write") EXCEPT !.lock = lock] \in Request
    BY OpenedIsRequest DEF Operation, Request
  <2> QED
    BY <1>2, <2>1, BeginTypes DEF UpdateBegin, TypeOK, rows
<1>3. ASSUME NEW c \in Calls, NEW s \in Sessions,
             StartBegin(c, s) \/ EndBegin(c, s)
      PROVE  TypeOK'
  BY <1>3, OpenedIsRequest, BeginTypes
     DEF StartBegin, EndBegin, TypeOK, rows, Operation
<1>4. ASSUME NEW c \in Calls, NEW s \in Sessions, NEW u \in Users,
             NEW cred \in Credential, JoinBegin(c, s, u, cred)
      PROVE  TypeOK'
  <2>1. [Opened("join", s, u, "check") EXCEPT !.cred = cred] \in Request
    BY OpenedIsRequest DEF Operation, Request
  <2> QED
    BY <1>4, <2>1, BeginTypes DEF JoinBegin, TypeOK, rows
<1>5. ASSUME NEW c \in Calls, NEW s \in Sessions, NEW u \in Users,
             LeaveBegin(c, s, u) \/ KickBegin(c, s, u)
      PROVE  TypeOK'
  BY <1>5, OpenedIsRequest, BeginTypes
     DEF LeaveBegin, KickBegin, TypeOK, rows, Operation
<1>6. ASSUME NEW c \in Calls, EnrollHost(c)
      PROVE  TypeOK'
  <2>1. call' \in [Calls -> Request \cup {Idle}]
    BY <1>6, GoToTypes, ReturnTypes DEF EnrollHost, At
  <2>2. member' \in [Sessions -> [Users -> ParticipantStatus]]
    BY <1>6, SetMemberTypes DEF EnrollHost, At, TypeOK, ParticipantStatus
  <2>3. call[c].s \in Sessions /\ call[c].u \in Users
    BY <1>6, InFlight DEF EnrollHost, At, Request
  <2>4. hostRole' \in [Sessions -> SUBSET Users]
    <3>1. CASE hostRole' = hostRole
      BY <3>1 DEF TypeOK
    <3>2. CASE hostRole' = [hostRole EXCEPT ![call[c].s] = @ \cup {call[c].u}]
      BY <2>3, <3>2 DEF TypeOK
    <3> QED
      BY <1>6, <3>1, <3>2 DEF EnrollHost
  <2> QED
    BY <1>6, <2>1, <2>2, <2>4 DEF EnrollHost, TypeOK
<1>7. ASSUME NEW c \in Calls, NEW invited \in SUBSET Invitees,
             EmitCreated(c, invited)
      PROVE  TypeOK'
  BY <1>7, InFlight, ReturnTypes DEF EmitCreated, At, TypeOK, Request, rows
<1>8. ASSUME NEW c \in Calls, UpdateWrite(c)
      PROVE  TypeOK'
  BY <1>8, InFlight, ReturnTypes DEF UpdateWrite, At, TypeOK, Request
<1>9. ASSUME NEW c \in Calls, StartWrite(c)
      PROVE  TypeOK'
  BY <1>9, InFlight, ReturnTypes
     DEF StartWrite, At, TypeOK, Request, SessionStatus
<1>10. ASSUME NEW c \in Calls, EndClose(c)
       PROVE  TypeOK'
  <2>1. call' \in [Calls -> Request \cup {Idle}]
    BY <1>10, GoToTypes DEF EndClose, At
  <2> QED
    BY <1>10, <2>1, InFlight DEF EndClose, At, TypeOK, Request, ParticipantStatus
<1>11. ASSUME NEW c \in Calls, EndWrite(c)
       PROVE  TypeOK'
  <2>1. call' \in [Calls -> Request \cup {Idle}]
    BY <1>11, GoToTypes DEF EndWrite, At
  <2> QED
    BY <1>11, <2>1, InFlight
       DEF EndWrite, At, TypeOK, Request, SessionStatus, Finished
<1>12. ASSUME NEW c \in Calls, EmitEnded(c) \/ EmitJoined(c) \/ EmitLeft(c)
       PROVE  TypeOK'
  BY <1>12, ReturnTypes DEF EmitEnded, EmitJoined, EmitLeft, TypeOK, rows
<1>13. ASSUME NEW c \in Calls, JoinCheck(c)
       PROVE  TypeOK'
  <2> DEFINE existing == member[call[c].s][call[c].u]
  <2>1. call[c] \in Request /\ existing \in ParticipantStatus
    BY <1>13, InFlight DEF JoinCheck, At, TypeOK, Request
  <2>2. [call[c] EXCEPT !.pc = "write", !.existing = existing] \in Request
    BY <2>1 DEF Request
  <2>3. call' \in [Calls -> Request \cup {Idle}]
    BY <1>13, <2>2, GoToTypes, ReturnTypes DEF JoinCheck, At, TypeOK
  <2>4. vetted' \in [Sessions -> SUBSET Users]
    <3>1. call[c].s \in Sessions /\ call[c].u \in Users
      BY <2>1 DEF Request
    <3>2. \/ vetted' = vetted
          \/ vetted' = [vetted EXCEPT ![call[c].s] =
                          IF call[c].cred = "none" THEN @ ELSE @ \cup {call[c].u}]
      BY <1>13 DEF JoinCheck
    <3> QED
      BY <3>1, <3>2 DEF TypeOK
  <2> QED
    BY <1>13, <2>3, <2>4 DEF JoinCheck, TypeOK, rows
<1>14. ASSUME NEW c \in Calls, JoinWrite(c)
       PROVE  TypeOK'
  <2>1. call' \in [Calls -> Request \cup {Idle}]
    BY <1>14, GoToTypes, ReturnTypes DEF JoinWrite, At
  <2>2. member' \in [Sessions -> [Users -> ParticipantStatus]]
    BY <1>14, SetMemberTypes DEF JoinWrite, At, TypeOK, ParticipantStatus
  <2> QED
    BY <1>14, <2>1, <2>2 DEF JoinWrite, TypeOK
<1>15. ASSUME NEW c \in Calls, RemovalCheck(c)
       PROVE  TypeOK'
  <2>1. call[c] \in Request
    BY <1>15, InFlight DEF RemovalCheck, At
  <2>2. [call[c] EXCEPT !.pc = "write", !.existing = "ACTIVE"] \in Request
    BY <2>1 DEF Request, ParticipantStatus
  <2>3. call' \in [Calls -> Request \cup {Idle}]
    BY <1>15, <2>2, ReturnTypes DEF RemovalCheck, TypeOK
  <2> QED
    BY <1>15, <2>3 DEF RemovalCheck, TypeOK, rows
<1>16. ASSUME NEW c \in Calls, LeaveWrite(c) \/ KickWrite(c)
       PROVE  TypeOK'
  <2>1. call' \in [Calls -> Request \cup {Idle}]
    BY <1>16, GoToTypes DEF LeaveWrite, KickWrite, At
  <2>2. member' \in [Sessions -> [Users -> ParticipantStatus]]
    BY <1>16, SetMemberTypes
       DEF LeaveWrite, KickWrite, At, TypeOK, ParticipantStatus
  <2> QED
    BY <1>16, <2>1, <2>2 DEF LeaveWrite, KickWrite, TypeOK
<1>17. ASSUME NEW c \in Calls, Fail(c)
       PROVE  TypeOK'
  BY <1>17, ReturnTypes DEF Fail, TypeOK, rows
<1>18. CASE Crash
  BY <1>18 DEF Crash, TypeOK, rows
<1>19. ASSUME NEW s \in Sessions, NEW u \in Users, ExpireInvite(s, u)
       PROVE  TypeOK'
  BY <1>19 DEF ExpireInvite, TypeOK, rows
<1>20. CASE UNCHANGED vars
  BY <1>20 DEF vars, TypeOK
<1> QED
  BY <1>1, <1>2, <1>3, <1>4, <1>5, <1>6, <1>7, <1>8, <1>9, <1>10, <1>11, <1>12,
     <1>13, <1>14, <1>15, <1>16, <1>17, <1>18, <1>19, <1>20 DEF Next

\* Every variable keeps its type: no handler writes a value, or leaves a
\* request at an await, that the others do not expect.
THEOREM TypeCorrect == Spec => []TypeOK
BY TypeInit, TypeStep, PTL DEF Spec

-----------------------------------------------------------------------------
(* The inductive invariant.                                                *)

Writes(c) ==
  \/ EnrollHost(c) \/ UpdateWrite(c) \/ StartWrite(c) \/ EndClose(c) \/ EndWrite(c)
  \/ JoinWrite(c) \/ LeaveWrite(c) \/ KickWrite(c)

\* The actions that write the rows, and the one that verifies a credential.
LEMMA RowWriters ==
  ASSUME [Next]_vars
  PROVE  /\ \/ UNCHANGED rows
            \/ \E c \in Calls, s \in Sessions : CreateSession(c, s)
            \/ \E c \in Calls : Writes(c)
         /\ UNCHANGED vetted \/ \E c \in Calls : JoinCheck(c)
<1>1. ASSUME NEW c \in Calls, NEW s \in Sessions,
             \/ \E lock \in BOOLEAN : UpdateBegin(c, s, lock)
             \/ StartBegin(c, s) \/ EndBegin(c, s)
             \/ \E u \in Users :
                  \/ \E cred \in Credential : JoinBegin(c, s, u, cred)
                  \/ LeaveBegin(c, s, u) \/ KickBegin(c, s, u)
      PROVE  UNCHANGED <<rows, vetted>>
  BY <1>1 DEF rows, UpdateBegin, StartBegin, EndBegin, JoinBegin, LeaveBegin, KickBegin
<1>2. ASSUME NEW c \in Calls,
             \/ \E invited \in SUBSET Invitees : EmitCreated(c, invited)
             \/ EmitEnded(c) \/ EmitJoined(c)
             \/ RemovalCheck(c) \/ EmitLeft(c) \/ Fail(c)
      PROVE  UNCHANGED <<rows, vetted>>
  BY <1>2 DEF rows, EmitCreated, EmitEnded, EmitJoined, RemovalCheck, EmitLeft,
     Fail
<1>3. CASE Crash \/ UNCHANGED vars
  BY <1>3 DEF rows, vars, Crash
<1>4. ASSUME NEW s \in Sessions, NEW u \in Users, ExpireInvite(s, u)
      PROVE  UNCHANGED <<rows, vetted>>
  BY <1>4 DEF rows, ExpireInvite
<1>5. ASSUME NEW c \in Calls, JoinCheck(c)
      PROVE  UNCHANGED rows
  BY <1>5 DEF rows, JoinCheck
<1>6. ASSUME NEW c \in Calls, Writes(c)
      PROVE  UNCHANGED vetted
  BY <1>6 DEF Writes, EnrollHost, UpdateWrite, StartWrite, EndClose, EndWrite, JoinWrite,
     LeaveWrite, KickWrite
<1>7. ASSUME NEW c \in Calls, NEW s \in Sessions, CreateSession(c, s)
      PROVE  UNCHANGED vetted
  BY <1>7 DEF CreateSession
<1> QED
  BY <1>1, <1>2, <1>3, <1>4, <1>5, <1>6, <1>7 DEF Next, Writes

\* No participant row is ever deleted.
LEMMA RowsRemain ==
  ASSUME TypeOK, [Next]_vars
  PROVE  \A s \in Sessions, u \in Users :
           member[s][u] # "NONE" => member'[s][u] # "NONE"
<1>1. ASSUME NEW c \in Calls, call[c] # Idle, NEW value, value # "NONE",
             SetMember(c, value)
      PROVE  \A s \in Sessions, u \in Users :
               member[s][u] # "NONE" => member'[s][u] # "NONE"
  BY <1>1, InFlight DEF SetMember, TypeOK, Request
<1>2. ASSUME NEW c \in Calls, EndClose(c)
      PROVE  \A s \in Sessions, u \in Users :
               member[s][u] # "NONE" => member'[s][u] # "NONE"
  BY <1>2, InFlight DEF EndClose, At, TypeOK, Request
<1>3. \/ UNCHANGED member
      \/ \E c \in Calls :
           \/ EndClose(c)
           \/ /\ call[c] # Idle
              /\ \E value \in {"ACTIVE", "LEFT", "KICKED"} : SetMember(c, value)
  <2>1. ASSUME NEW c \in Calls, Writes(c), ~EndClose(c)
        PROVE  \/ UNCHANGED member
               \/ /\ call[c] # Idle
                  /\ \E value \in {"ACTIVE", "LEFT", "KICKED"} : SetMember(c, value)
    BY <2>1 DEF Writes, EnrollHost, UpdateWrite, StartWrite, EndWrite, JoinWrite,
       LeaveWrite, KickWrite, At, rows
  <2>2. ASSUME NEW c \in Calls, NEW s \in Sessions, CreateSession(c, s)
        PROVE  UNCHANGED member
    BY <2>2 DEF CreateSession
  <2> QED
    BY <2>1, <2>2, RowWriters DEF rows
<1> QED
  BY <1>1, <1>2, <1>3

\* actualStartTime is never cleared and a credential stays verified.
LEMMA Monotone ==
  ASSUME TypeOK, [Next]_vars
  PROVE  \A s \in Sessions : /\ started[s] => started'[s]
                             /\ vetted[s] \subseteq vetted'[s]
<1>1. ASSUME NEW c \in Calls, StartWrite(c)
      PROVE  /\ vetted' = vetted
             /\ \A s \in Sessions : started[s] => started'[s]
  BY <1>1, InFlight DEF StartWrite, At, TypeOK, Request
<1>2. ASSUME NEW c \in Calls, JoinCheck(c)
      PROVE  /\ started' = started
             /\ \A s \in Sessions : vetted[s] \subseteq vetted'[s]
  <2>1. call[c].s \in Sessions
    BY <1>2, InFlight DEF JoinCheck, At, Request
  <2> QED
    BY <1>2, <2>1 DEF JoinCheck, TypeOK, rows
<1>3. \/ \E c \in Calls : StartWrite(c) \/ JoinCheck(c)
      \/ UNCHANGED <<started, vetted>>
  <2>1. ASSUME NEW c \in Calls, Writes(c), ~StartWrite(c)
        PROVE  UNCHANGED started
    BY <2>1 DEF Writes, EnrollHost, UpdateWrite, EndClose, EndWrite, JoinWrite, LeaveWrite,
       KickWrite
  <2>2. ASSUME NEW c \in Calls, NEW s \in Sessions, CreateSession(c, s)
        PROVE  UNCHANGED started
    BY <2>2 DEF CreateSession
  <2> QED
    BY <2>1, <2>2, RowWriters DEF rows
<1> QED
  BY <1>1, <1>2, <1>3

\* So what a waiting request may rely on is not taken from it.
LEMMA SoundStays ==
  ASSUME TypeOK, [Next]_vars
  PROVE  SoundRequest \subseteq SoundRequest'
BY Monotone, RowsRemain DEF SoundRequest, Request

\* A step that moves slot c on to r leaves every request sound when r is.
LEMMA SlotStep ==
  ASSUME TypeOK, [Next]_vars, RequestsSound, NEW c \in Calls,
         NEW r, r \in SoundRequest' \cup {Idle}, call' = [call EXCEPT ![c] = r]
  PROVE  RequestsSound'
BY SoundStays DEF RequestsSound

\* When the variables a predicate reads do not change, it is kept.
LEMMA RowsKept ==
  ASSUME EndedWasStarted, HostStays, UNCHANGED <<status, started, member>>
  PROVE  EndedWasStarted' /\ HostStays'
BY DEF EndedWasStarted, HostStays

LEMMA AdmissionKept ==
  ASSUME TypeOK, [Next]_vars, ProtectedAdmission, UNCHANGED member
  PROVE  ProtectedAdmission'
BY SessionsAssumption, Monotone DEF ProtectedAdmission

\* A slot that becomes idle leaves the others sound.
LEMMA ReturnSound ==
  ASSUME TypeOK, [Next]_vars, RequestsSound, NEW c \in Calls, Return(c)
  PROVE  RequestsSound'
BY SlotStep DEF Return

\* A request in flight is sound, and stays sound as it moves on to an await
\* other than a join's or a leave's write.
LEMMA GoToSound ==
  ASSUME TypeOK, [Next]_vars, RequestsSound, NEW c \in Calls, call[c] # Idle,
         NEW pc \in {"close", "write", "log", "emit"}, GoTo(c, pc),
         pc # "write" \/ call[c].op = "end"
  PROVE  RequestsSound'
<1> DEFINE r == [call[c] EXCEPT !.pc = pc]
<1>1. call[c] \in SoundRequest
  BY DEF RequestsSound
<1>2. r \in Request
  BY <1>1 DEF SoundRequest, Request
<1>3. r \in SoundRequest
  BY <1>1, <1>2 DEF SoundRequest, Request
<1>4. r \in SoundRequest'
  BY <1>3, SoundStays
<1>5. call' = [call EXCEPT ![c] = r]
  BY DEF GoTo
<1> HIDE DEF r
<1> QED
  BY <1>4, <1>5, SlotStep

LEMMA IInvInit == Init => IInv
BY SessionsAssumption, TypeInit
   DEF Init, IInv, RequestsSound, EndedWasStarted, HostStays, ProtectedAdmission

LEMMA RequestsSoundStep == IInv /\ [Next]_vars => RequestsSound'
<1> SUFFICES ASSUME IInv, [Next]_vars
             PROVE  RequestsSound'
  OBVIOUS
<1> USE SessionsAssumption
<1>0. TypeOK /\ RequestsSound
  BY DEF IInv
<1>1. ASSUME NEW c \in Calls, NEW s \in Sessions, CreateSession(c, s)
      PROVE  RequestsSound'
  <2> DEFINE r == [Opened("create", s, Host[s], "enroll")
                     EXCEPT !.seen = "SCHEDULED"]
  <2>1. r \in Request
    BY <1>0, OpenedIsRequest DEF Operation, Request, SessionStatus
  <2>2. r \in SoundRequest'
    BY <2>1 DEF SoundRequest, Opened
  <2>3. call' = [call EXCEPT ![c] = r]
    BY <1>1 DEF CreateSession, Begin
  <2> HIDE DEF r
  <2> QED
    BY <1>0, <2>2, <2>3, SlotStep
<1>2. ASSUME NEW c \in Calls, NEW s \in Sessions, NEW lock \in BOOLEAN,
             UpdateBegin(c, s, lock)
      PROVE  RequestsSound'
  <2> DEFINE r == [Opened("update", s, Host[s], "write") EXCEPT !.lock = lock]
  <2>1. r \in Request
    BY <1>0, OpenedIsRequest DEF Operation, Request
  <2>2. r \in SoundRequest'
    BY <2>1 DEF SoundRequest, Opened
  <2>3. call' = [call EXCEPT ![c] = r]
    BY <1>2 DEF UpdateBegin, Begin
  <2> HIDE DEF r
  <2> QED
    BY <1>0, <2>2, <2>3, SlotStep
<1>3. ASSUME NEW c \in Calls, NEW s \in Sessions, StartBegin(c, s)
      PROVE  RequestsSound'
  <2> DEFINE r == Opened("start", s, Host[s], "write")
  <2>1. r \in Request /\ r.op = "start" /\ r.seen = status[s]
    BY <1>0, OpenedIsRequest DEF Operation
  <2>2. r \in SoundRequest'
    BY <1>3, <2>1 DEF SoundRequest, StartBegin, Startable
  <2>3. call' = [call EXCEPT ![c] = r]
    BY <1>3 DEF StartBegin, Begin
  <2> HIDE DEF r
  <2> QED
    BY <1>0, <2>2, <2>3, SlotStep
<1>4. ASSUME NEW c \in Calls, NEW s \in Sessions, EndBegin(c, s)
      PROVE  RequestsSound'
  <2> DEFINE r == Opened("end", s, Host[s], "close")
  <2>1. r \in Request /\ r.op = "end" /\ r.s = s
    BY <1>0, OpenedIsRequest DEF Operation
  <2>2. started'[s]
    BY <1>4 DEF EndBegin, Endable, IInv, EndedWasStarted, rows
  <2>3. r \in SoundRequest'
    BY <2>1, <2>2 DEF SoundRequest
  <2>4. call' = [call EXCEPT ![c] = r]
    BY <1>4 DEF EndBegin, Begin
  <2> HIDE DEF r
  <2> QED
    BY <1>0, <2>3, <2>4, SlotStep
<1>5. ASSUME NEW c \in Calls, NEW s \in Sessions, NEW u \in Users,
             NEW cred \in Credential, JoinBegin(c, s, u, cred)
      PROVE  RequestsSound'
  <2> DEFINE r == [Opened("join", s, u, "check") EXCEPT !.cred = cred]
  <2>1. r \in Request
    BY <1>0, OpenedIsRequest DEF Operation, Request
  <2>2. r \in SoundRequest'
    BY <2>1 DEF SoundRequest, Opened
  <2>3. call' = [call EXCEPT ![c] = r]
    BY <1>5 DEF JoinBegin, Begin
  <2> HIDE DEF r
  <2> QED
    BY <1>0, <2>2, <2>3, SlotStep
<1>6. ASSUME NEW c \in Calls, NEW s \in Sessions, NEW u \in Users,
             NEW op \in {"leave", "kick"}, u # Host[s],
             Begin(c, Opened(op, s, u, "check"))
      PROVE  RequestsSound'
  <2> DEFINE r == Opened(op, s, u, "check")
  <2>1. /\ r \in Request
        /\ r.op = op /\ r.s = s /\ r.u = u /\ r.pc = "check"
    BY <1>0, OpenedIsRequest DEF Operation
  <2>2. r \in SoundRequest'
    BY <1>6, <2>1 DEF SoundRequest
  <2>3. call' = [call EXCEPT ![c] = r]
    BY <1>6 DEF Begin
  <2> HIDE DEF r
  <2> QED
    BY <1>0, <2>2, <2>3, SlotStep
<1>7. ASSUME NEW c \in Calls, JoinCheck(c)
      PROVE  RequestsSound'
  <2> DEFINE existing == member[call[c].s][call[c].u]
             r == [call[c] EXCEPT !.pc = "write", !.existing = existing]
  <2>1. call[c] \in Request /\ existing \in ParticipantStatus
    BY <1>0, <1>7, InFlight DEF JoinCheck, At, TypeOK, Request
  <2>2. CASE existing = "ACTIVE"
    BY <1>0, <1>7, <2>2, GoToSound DEF JoinCheck, At
  <2>3. CASE existing # "ACTIVE" /\ MayReturn(existing) /\ ~LocksOut(c) /\ Admits(c)
    <3>1. /\ r \in Request
          /\ r.op = "join" /\ r.pc = "write" /\ r.existing = existing
          /\ r.s = call[c].s /\ r.u = call[c].u /\ r.locked = call[c].locked
      BY <1>7, <2>1 DEF Request, JoinCheck, At
    <3>2. call[c].s \in Protected => call[c].u \in vetted'[call[c].s]
      BY <1>0, <1>7, <2>1, <2>3 DEF JoinCheck, Admits, TypeOK, Request
    <3>3. r \in SoundRequest'
      BY <2>3, <3>1, <3>2 DEF SoundRequest, MayReturn, LocksOut
    <3>4. call' = [call EXCEPT ![c] = r]
      BY <1>7, <2>3 DEF JoinCheck
    <3> HIDE DEF r
    <3> QED
      BY <1>0, <3>3, <3>4, SlotStep
  <2>4. CASE existing # "ACTIVE"
             /\ ~(MayReturn(existing) /\ ~LocksOut(c) /\ Admits(c))
    BY <1>0, <1>7, <2>4, ReturnSound DEF JoinCheck
  <2> QED
    BY <2>2, <2>3, <2>4
<1>8. ASSUME NEW c \in Calls, RemovalCheck(c)
      PROVE  RequestsSound'
  <2> DEFINE r == [call[c] EXCEPT !.pc = "write", !.existing = "ACTIVE"]
  <2>1. call[c] \in SoundRequest /\ call[c].op \in {"leave", "kick"}
    BY <1>0, <1>8 DEF RemovalCheck, At, RequestsSound
  <2>2. /\ r \in Request
        /\ r.op = call[c].op /\ r.s = call[c].s /\ r.u = call[c].u
        /\ r.existing = "ACTIVE"
    BY <2>1 DEF SoundRequest, Request, ParticipantStatus
  <2>3. CASE member[call[c].s][call[c].u] = "ACTIVE"
    <3>1. r \in SoundRequest'
      BY <1>8, <2>1, <2>2, <2>3 DEF SoundRequest, RemovalCheck, rows
    <3>2. call' = [call EXCEPT ![c] = r]
      BY <1>8, <2>3 DEF RemovalCheck
    <3> HIDE DEF r
    <3> QED
      BY <1>0, <3>1, <3>2, SlotStep
  <2>4. CASE member[call[c].s][call[c].u] # "ACTIVE"
    BY <1>0, <1>8, <2>4, ReturnSound DEF RemovalCheck
  <2> QED
    BY <2>3, <2>4
<1>9. ASSUME NEW c \in Calls,
             \/ EnrollHost(c) \/ EndClose(c) \/ EndWrite(c)
             \/ JoinWrite(c) \/ LeaveWrite(c) \/ KickWrite(c)
      PROVE  RequestsSound'
  BY <1>0, <1>9, GoToSound, ReturnSound
     DEF EnrollHost, EndClose, EndWrite, JoinWrite, LeaveWrite, KickWrite, At
<1>10. ASSUME NEW c \in Calls, Return(c)
       PROVE  RequestsSound'
  BY <1>0, <1>10, ReturnSound
<1>11. CASE Crash
  BY <1>11 DEF Crash, RequestsSound
<1>12. CASE UNCHANGED call
  BY <1>0, <1>12, SoundStays DEF RequestsSound
<1>13. ASSUME NEW c \in Calls,
              \/ \E invited \in SUBSET Invitees : EmitCreated(c, invited)
              \/ UpdateWrite(c) \/ StartWrite(c) \/ EmitEnded(c)
              \/ EmitJoined(c) \/ EmitLeft(c) \/ Fail(c)
       PROVE  Return(c)
  BY <1>13 DEF EmitCreated, UpdateWrite, StartWrite, EmitEnded, EmitJoined,
               EmitLeft, Fail
<1>14. ASSUME NEW s \in Sessions, NEW u \in Users, ExpireInvite(s, u)
       PROVE  UNCHANGED call
  BY <1>14 DEF ExpireInvite
<1>15. ASSUME NEW c \in Calls, NEW s \in Sessions, NEW u \in Users,
              LeaveBegin(c, s, u) \/ KickBegin(c, s, u)
       PROVE  RequestsSound'
  BY <1>6, <1>15 DEF LeaveBegin, KickBegin, MayRemove
<1>16. CASE UNCHANGED vars
  BY <1>12, <1>16 DEF vars
<1> QED
  BY <1>1, <1>2, <1>3, <1>4, <1>5, <1>7, <1>8, <1>9, <1>10, <1>11, <1>12,
     <1>13, <1>14, <1>15, <1>16 DEF Next

\* What a request about to write knows.
LEMMA WriterSound ==
  ASSUME IInv, NEW c \in Calls, call[c] # Idle
  PROVE  call[c] \in SoundRequest /\ call[c].s \in Sessions /\ call[c].u \in Users
BY DEF IInv, RequestsSound, SoundRequest, Request

LEMMA RowsStep == IInv /\ [Next]_vars => EndedWasStarted' /\ HostStays'
<1> SUFFICES ASSUME IInv, [Next]_vars
             PROVE  EndedWasStarted' /\ HostStays'
  OBVIOUS
<1> USE SessionsAssumption
<1>0. TypeOK /\ EndedWasStarted /\ HostStays
  BY DEF IInv
<1>1. CASE UNCHANGED rows
  BY <1>0, <1>1, RowsKept DEF rows
<1>2. ASSUME NEW c \in Calls, NEW s \in Sessions, CreateSession(c, s)
      PROVE  EndedWasStarted' /\ HostStays'
  BY <1>0, <1>2 DEF CreateSession, TypeOK, EndedWasStarted, HostStays
<1>3. ASSUME NEW c \in Calls, NEW value \in {"ACTIVE", "LEFT", "KICKED"},
             call[c] # Idle, value # "ACTIVE" => call[c].u # Host[call[c].s],
             SetMember(c, value), UNCHANGED <<status, started>>
      PROVE  EndedWasStarted' /\ HostStays'
  BY <1>0, <1>3, WriterSound DEF SetMember, TypeOK, EndedWasStarted, HostStays
<1>4. ASSUME NEW c \in Calls, EnrollHost(c) \/ JoinWrite(c)
      PROVE  EndedWasStarted' /\ HostStays'
  BY <1>0, <1>3, <1>4, RowsKept DEF EnrollHost, JoinWrite, At
<1>5. ASSUME NEW c \in Calls, LeaveWrite(c) \/ KickWrite(c)
      PROVE  EndedWasStarted' /\ HostStays'
  <2>1. call[c] # Idle /\ call[c].u # Host[call[c].s]
    BY <1>5, WriterSound DEF LeaveWrite, KickWrite, At, SoundRequest
  <2> QED
    BY <1>3, <1>5, <2>1 DEF LeaveWrite, KickWrite
<1>6. ASSUME NEW c \in Calls, UpdateWrite(c)
      PROVE  EndedWasStarted' /\ HostStays'
  BY <1>0, <1>6, RowsKept DEF UpdateWrite
<1>7. ASSUME NEW c \in Calls, StartWrite(c)
      PROVE  EndedWasStarted' /\ HostStays'
  <2>1. call[c].s \in Sessions
    BY <1>7, WriterSound DEF StartWrite, At
  <2> QED
    BY <1>0, <1>7, <2>1 DEF StartWrite, TypeOK, EndedWasStarted, HostStays
<1>8. ASSUME NEW c \in Calls, EndClose(c)
      PROVE  EndedWasStarted' /\ HostStays'
  <2>1. call[c].s \in Sessions /\ started[call[c].s]
    BY <1>8, WriterSound DEF EndClose, At, SoundRequest
  <2> QED
    BY <1>0, <1>8, <2>1 DEF EndClose, TypeOK, EndedWasStarted, HostStays
<1>9. ASSUME NEW c \in Calls, EndWrite(c)
      PROVE  EndedWasStarted' /\ HostStays'
  <2>1. call[c].s \in Sessions /\ started[call[c].s]
    BY <1>9, WriterSound DEF EndWrite, At, SoundRequest
  <2> QED
    BY <1>0, <1>9, <2>1 DEF EndWrite, TypeOK, EndedWasStarted, HostStays
<1> QED
  BY <1>1, <1>2, <1>4, <1>5, <1>6, <1>7, <1>8, <1>9, RowWriters DEF Writes

LEMMA AdmissionStep == IInv /\ [Next]_vars => ProtectedAdmission'
<1> SUFFICES ASSUME IInv, [Next]_vars
             PROVE  ProtectedAdmission'
  OBVIOUS
<1> USE SessionsAssumption
<1>0. TypeOK /\ ProtectedAdmission
  BY DEF IInv
<1>1. CASE UNCHANGED member
  BY <1>0, <1>1, AdmissionKept
\* Only a row that did not exist needs an admission.
<1>2. ASSUME NEW c \in Calls, call[c] # Idle, NEW value, SetMember(c, value),
             \/ member[call[c].s][call[c].u] # "NONE"
             \/ call[c].u = Host[call[c].s]
             \/ call[c].s \in Protected => call[c].u \in vetted[call[c].s]
      PROVE  ProtectedAdmission'
  BY <1>0, <1>2, WriterSound, Monotone DEF SetMember, TypeOK, ProtectedAdmission
<1>3. ASSUME NEW c \in Calls, EnrollHost(c)
      PROVE  ProtectedAdmission'
  <2>1. call[c] # Idle /\ call[c].u = Host[call[c].s]
    BY <1>3, WriterSound DEF EnrollHost, At, SoundRequest
  <2> QED
    BY <1>1, <1>2, <1>3, <2>1 DEF EnrollHost
<1>4. ASSUME NEW c \in Calls, JoinWrite(c)
      PROVE  ProtectedAdmission'
  <2>1. /\ call[c] # Idle
        /\ call[c].s \in Protected => call[c].u \in vetted[call[c].s]
    BY <1>4, WriterSound DEF JoinWrite, At, SoundRequest
  <2> QED
    BY <1>1, <1>2, <1>4, <2>1 DEF JoinWrite
<1>5. ASSUME NEW c \in Calls, EndClose(c)
      PROVE  ProtectedAdmission'
  <2>1. call[c].s \in Sessions
    BY <1>5, WriterSound DEF EndClose, At
  <2>2. \A s \in Sessions, u \in Users :
          member'[s][u] # "NONE" => member[s][u] # "NONE"
    BY <1>0, <1>5, <2>1 DEF EndClose, TypeOK
  <2> QED
    BY <1>0, <2>2, Monotone DEF ProtectedAdmission
<1>6. ASSUME NEW c \in Calls, LeaveWrite(c) \/ KickWrite(c)
      PROVE  ProtectedAdmission'
  <2>1. call[c] # Idle /\ member[call[c].s][call[c].u] # "NONE"
    BY <1>6, WriterSound DEF LeaveWrite, KickWrite, At, SoundRequest
  <2> QED
    BY <1>2, <1>6, <2>1 DEF LeaveWrite, KickWrite
<1> QED
  BY <1>1, <1>3, <1>4, <1>5, <1>6, RowWriters DEF Writes, rows, CreateSession,
     UpdateWrite, StartWrite, EndWrite

LEMMA IInvStep == IInv /\ [Next]_vars => IInv'
BY TypeStep, RequestsSoundStep, RowsStep, AdmissionStep DEF IInv

LEMMA Inductive == Spec => []IInv
BY IInvInit, IInvStep, PTL DEF Spec

\* No session is ever ACTIVE or ENDED without an actual start time, however
\* start() and end() overlap.
THEOREM EndedWasStartedAlways == Spec => []EndedWasStarted
<1>1. IInv => EndedWasStarted
  BY DEF IInv
<1> QED
  BY <1>1, Inductive, PTL

\* The host is never kicked and never leaves a session before it has started.
THEOREM HostStaysAlways == Spec => []HostStays
<1>1. IInv => HostStays
  BY DEF IInv
<1> QED
  BY <1>1, Inductive, PTL

\* A password keeps out who has not presented it or an invitation token.
THEOREM ProtectedAdmissionAlways == Spec => []ProtectedAdmission
<1>1. IInv => ProtectedAdmission
  BY DEF IInv
<1> QED
  BY <1>1, Inductive, PTL

-----------------------------------------------------------------------------
(* What only a request with a stale snapshot can do.                       *)

\* The one step that brings a kicked participant back is a write of a join or
\* a leave that read another status: it read the row before the kick.
THEOREM KickUndoneOnlyByStaleAlways == Spec => KickUndoneOnlyByStale
<1>1. ASSUME IInv, [Next]_vars, NEW s \in Sessions, NEW u \in Users,
             member[s][u] = "KICKED", member'[s][u] # "KICKED"
      PROVE  WritesStale({"join", "leave"}, s, u, "KICKED")
  <2>0. TypeOK
    BY <1>1 DEF IInv
  <2>1. ASSUME NEW c \in Calls, NEW op \in {"join", "leave"}, At(c, op, "write"),
               NEW value, SetMember(c, value)
        PROVE  WritesStale({"join", "leave"}, s, u, "KICKED")
    <3>1. call[c].s = s /\ call[c].u = u
      BY <1>1, <2>0, <2>1, WriterSound DEF SetMember, TypeOK, At
    <3>2. call[c].existing # "KICKED"
      BY <1>1, <2>1, WriterSound DEF At, SoundRequest
    <3> QED
      BY <2>1, <3>1, <3>2 DEF WritesStale
  <2>2. ASSUME NEW c \in Calls, EnrollHost(c)
        PROVE  FALSE
    <3>1. call[c].s \in Sessions /\ call[c].u \in Users
      BY <1>1, <2>2, WriterSound DEF EnrollHost, At
    <3>2. \/ member' = member
          \/ /\ member[call[c].s][call[c].u] = "NONE"
             /\ member' = [member EXCEPT ![call[c].s][call[c].u] = "ACTIVE"]
      BY <2>2 DEF EnrollHost, SetMember
    <3>3. CASE call[c].s = s /\ call[c].u = u
      BY <1>1, <3>2, <3>3
    <3>4. CASE ~(call[c].s = s /\ call[c].u = u)
      <4>1. member \in [Sessions -> [Users -> ParticipantStatus]]
        BY <2>0 DEF TypeOK
      <4>2. member'[s][u] = member[s][u]
        BY <3>1, <3>2, <3>4, <4>1
      <4> QED
        BY <1>1, <4>2
    <3> QED
      BY <3>3, <3>4
  <2>3. ASSUME NEW c \in Calls, EndClose(c)
        PROVE  FALSE
    BY <1>1, <2>0, <2>3, WriterSound DEF EndClose, At, TypeOK
  <2>4. ASSUME NEW c \in Calls, KickWrite(c)
        PROVE  FALSE
    BY <1>1, <2>0, <2>4, WriterSound DEF KickWrite, At, SetMember, TypeOK
  <2>5. member' # member
    BY <1>1
  <2>6. \E c \in Calls : JoinWrite(c) \/ LeaveWrite(c)
    BY <1>1, <2>2, <2>3, <2>4, <2>5, RowWriters
       DEF Writes, rows, CreateSession, UpdateWrite, StartWrite, EndWrite
  <2>7. PICK c \in Calls : JoinWrite(c) \/ LeaveWrite(c)
    BY <2>6
  <2> QED
    BY <2>1, <2>5, <2>7 DEF JoinWrite, LeaveWrite
<1>2. IInv /\ [Next]_vars =>
        [\A s \in Sessions, u \in Users :
           member[s][u] = "KICKED" /\ member'[s][u] # "KICKED" =>
             WritesStale({"join", "leave"}, s, u, "KICKED")]_vars
  BY <1>1
<1> QED
  BY <1>2, Inductive, PTL DEF Spec, KickUndoneOnlyByStale

\* The one step that takes a session out of ENDED is the write of a start()
\* that read it as SCHEDULED.
THEOREM ReopenedOnlyByStaleAlways == Spec => ReopenedOnlyByStale
<1>1. ASSUME IInv, [Next]_vars, NEW s \in Sessions,
             status[s] = "ENDED", status'[s] # "ENDED"
      PROVE  \E c \in Calls : /\ At(c, "start", "write")
                              /\ call[c].s = s
                              /\ call[c].seen = "SCHEDULED"
  <2>0. TypeOK
    BY <1>1 DEF IInv
  <2>1. ASSUME NEW c \in Calls, NEW r \in Sessions, CreateSession(c, r)
        PROVE  FALSE
    BY <1>1, <2>0, <2>1 DEF CreateSession, TypeOK
  <2>2. ASSUME NEW c \in Calls, EndWrite(c)
        PROVE  FALSE
    BY <1>1, <2>0, <2>2, WriterSound DEF EndWrite, At, TypeOK
  <2>3. status' # status
    BY <1>1
  <2>4. \E c \in Calls : StartWrite(c)
    BY <1>1, <2>1, <2>2, <2>3, RowWriters
       DEF Writes, rows, EnrollHost, UpdateWrite, EndClose, JoinWrite, LeaveWrite, KickWrite
  <2>5. PICK c \in Calls : StartWrite(c)
    BY <2>4
  <2>6. call[c].s = s
    BY <1>1, <2>0, <2>5, WriterSound DEF StartWrite, At, TypeOK
  <2>7. call[c].seen = "SCHEDULED"
    BY <1>1, <2>5, WriterSound DEF StartWrite, At, SoundRequest
  <2> QED
    BY <2>5, <2>6, <2>7 DEF StartWrite
<1>2. IInv /\ [Next]_vars =>
        [\A s \in Sessions :
           status[s] = "ENDED" /\ status'[s] # "ENDED" =>
             \E c \in Calls : /\ At(c, "start", "write")
                              /\ call[c].s = s
                              /\ call[c].seen = "SCHEDULED"]_vars
  BY <1>1
<1> QED
  BY <1>2, Inductive, PTL DEF Spec, ReopenedOnlyByStale

\* The steps that let a user into a locked session are the write of a join
\* that read it unlocked and the host's own enrolment.
THEOREM LockedEntryOnlyByStaleAlways == Spec => LockedEntryOnlyByStale
<1> DEFINE Enters(c, s, u) ==
             /\ call[c] # Idle
             /\ call[c].s = s
             /\ call[c].u = u
             /\ \/ At(c, "join", "write") /\ ~call[c].locked
                \/ At(c, "create", "enroll") /\ u = Host[s]
<1>1. ASSUME IInv, [Next]_vars, NEW s \in Sessions, NEW u \in Users,
             isLocked[s], member[s][u] # "ACTIVE", member'[s][u] = "ACTIVE"
      PROVE  \E c \in Calls : Enters(c, s, u)
  <2>0. TypeOK
    BY <1>1 DEF IInv
  <2>1. ASSUME NEW c \in Calls, call[c] # Idle, NEW value, SetMember(c, value)
        PROVE  call[c].s = s /\ call[c].u = u /\ value = "ACTIVE"
    BY <1>1, <2>0, <2>1, WriterSound DEF SetMember, TypeOK
  <2>2. member' # member
    BY <1>1
  <2>3. ASSUME NEW c \in Calls, EnrollHost(c)
        PROVE  Enters(c, s, u)
    <3>1. call[c] # Idle /\ call[c].s = s /\ call[c].u = u
      BY <2>1, <2>2, <2>3 DEF EnrollHost, At
    <3>2. At(c, "create", "enroll") /\ u = Host[s]
      BY <1>1, <2>3, <3>1, WriterSound DEF EnrollHost, At, SoundRequest
    <3> QED
      BY <3>1, <3>2
  <2>4. ASSUME NEW c \in Calls, JoinWrite(c)
        PROVE  Enters(c, s, u)
    <3>1. call[c] # Idle /\ call[c].s = s /\ call[c].u = u
      BY <2>1, <2>2, <2>4 DEF JoinWrite, At
    <3>2. At(c, "join", "write") /\ ~call[c].locked
      BY <1>1, <2>4, <3>1, WriterSound DEF JoinWrite, At, SoundRequest
    <3> QED
      BY <3>1, <3>2
  <2>5. ASSUME NEW c \in Calls, EndClose(c)
        PROVE  FALSE
    BY <1>1, <2>0, <2>5, WriterSound DEF EndClose, At, TypeOK
  <2>6. ASSUME NEW c \in Calls, LeaveWrite(c) \/ KickWrite(c)
        PROVE  FALSE
    BY <2>1, <2>6 DEF LeaveWrite, KickWrite, At
  <2>7. \E c \in Calls : EnrollHost(c) \/ JoinWrite(c)
    BY <1>1, <2>2, <2>5, <2>6, RowWriters
       DEF Writes, rows, CreateSession, UpdateWrite, StartWrite, EndWrite
  <2> QED
    BY <2>3, <2>4, <2>7
<1>2. IInv /\ [Next]_vars =>
        [\A s \in Sessions, u \in Users :
           isLocked[s] /\ member[s][u] # "ACTIVE" /\ member'[s][u] = "ACTIVE" =>
             \E c \in Calls : Enters(c, s, u)]_vars
  BY <1>1
<1> QED
  BY <1>2, Inductive, PTL DEF Spec, LockedEntryOnlyByStale

-----------------------------------------------------------------------------
(* Sessions implements SessionContract while no two requests that race      *)
(* overlap, failures and crashes included: what a request has read may be   *)
(* out of date when it writes, but what it writes is still allowed.  The    *)
(* contract's own promises follow.                                          *)

\* The requests that may still write, after whatever may overlap them, what they
\* decided from what they read.
SafeRequest ==
  {r \in Request :
     r.pc \notin {"log", "emit"} =>
       /\ r.op = "create" => status[r.s] \in Joinable /\ ~isLocked[r.s]
       /\ r.op \in {"update", "start", "join"} => status[r.s] \in Joinable
       /\ r.op = "end" => status[r.s] \in {"ACTIVE", "ENDED"}
       /\ r.op = "end" /\ r.pc = "write" =>
            \A u \in Users : member[r.s][u] # "ACTIVE"
       /\ r.op = "join" /\ r.pc = "check" => r.locked = isLocked[r.s]
       /\ r.op = "join" /\ r.pc = "write" =>
            ~isLocked[r.s] /\ member[r.s][r.u] # "KICKED"
       /\ r.op = "leave" => status[r.s] \in Joinable \cup {"ENDED"}
       /\ r.op = "leave" /\ r.pc = "write" => member[r.s][r.u] \in {"ACTIVE", "LEFT"}
       /\ r.op = "kick" /\ r.pc = "write" => member[r.s][r.u] \in {"ACTIVE", "KICKED"}}

RequestsSafe == call \in [Calls -> SafeRequest \cup {Idle}]

\* A session that does not exist has no lock and no participants.
UncreatedIsEmpty ==
  \A s \in Sessions : status[s] = "NONE" =>
    ~isLocked[s] /\ \A u \in Users : member[s][u] = "NONE"

SInv == IInv /\ Raceless /\ RequestsSafe /\ UncreatedIsEmpty /\ EndedIsEmpty

LEMMA SInvInit == Init => SInv
BY IInvInit DEF Init, SInv, Raceless, Undone, RequestsSafe, UncreatedIsEmpty, EndedIsEmpty

\* A request in flight, and what is true of the others while it has yet to write.
LEMMA SafeInFlight ==
  ASSUME SInv, NEW c \in Calls, call[c] # Idle
  PROVE  /\ call[c] \in Request /\ call[c] \in SafeRequest /\ call[c] \in SoundRequest
         /\ call[c].s \in Sessions /\ call[c].u \in Users
BY DEF SInv, IInv, RequestsSafe, RequestsSound, SafeRequest, Request

LEMMA NoneRaces ==
  ASSUME SInv, NEW c \in Calls, NEW d \in Calls, Undone(c), Undone(d)
  PROVE  ~Race(call[c], call[d]) /\ ~Race(call[d], call[c])
BY DEF SInv, Raceless

\* What the other requests rely on stays as it is: so the step keeps all safe.
Others(c) == \A d \in Calls : d # c /\ call[d] # Idle => call[d] \in SafeRequest'

LEMMA SlotSafe ==
  ASSUME TypeOK, NEW c \in Calls, Others(c), NEW r, r \in SafeRequest' \cup {Idle},
         call' = [call EXCEPT ![c] = r]
  PROVE  RequestsSafe'
BY DEF TypeOK, RequestsSafe, Others

LEMMA RowsKeptSafe ==
  ASSUME SInv, NEW c \in Calls, UNCHANGED <<status, isLocked, member>>
  PROVE  Others(c)
BY DEF SInv, RequestsSafe, SafeRequest, Others

LEMMA ReturnSafe ==
  ASSUME TypeOK, NEW c \in Calls, Others(c), Return(c)
  PROVE  RequestsSafe'
BY SlotSafe DEF Return

\* The request that moves on to an await after its write relies on nothing.
LEMMA DoneSafe ==
  ASSUME TypeOK, NEW c \in Calls, Others(c), call[c] # Idle,
         NEW pc \in {"log", "emit"}, GoTo(c, pc)
  PROVE  RequestsSafe'
<1> DEFINE r == [call[c] EXCEPT !.pc = pc]
<1>1. r \in SafeRequest'
  BY InFlight DEF SafeRequest, Request
<1>2. call' = [call EXCEPT ![c] = r]
  BY DEF GoTo
<1> HIDE DEF r
<1> QED
  BY <1>1, <1>2, SlotSafe

\* One participant row is written: the others rely on it only where they race.
LEMMA RowWriteSafe ==
  ASSUME TypeOK, NEW s \in Sessions, NEW u \in Users,
         NEW to \in {"ACTIVE", "LEFT", "KICKED"},
         member' = [member EXCEPT ![s][u] = to], UNCHANGED <<status, isLocked>>,
         NEW r \in SafeRequest, r.s = s,
         r.op = "end" /\ r.pc = "write" => to # "ACTIVE",
         r.u = u /\ r.op = "join" /\ r.pc = "write" => to # "KICKED",
         r.u = u /\ r.op = "leave" /\ r.pc = "write" => to # "KICKED",
         r.u = u /\ r.op = "kick" /\ r.pc = "write" => to = "KICKED"
  PROVE  r \in SafeRequest'
<1>1. r \in Request
  BY DEF SafeRequest
<1>2. \A w \in Users : member'[s][w] = IF w = u THEN to ELSE member[s][w]
  BY DEF TypeOK
<1> QED
  BY <1>1, <1>2 DEF SafeRequest, Request

LEMMA ElsewhereSafe ==
  ASSUME SInv, NEW c \in Calls, NEW s \in Sessions,
         \A t \in Sessions : t # s => /\ status'[t] = status[t]
                                      /\ isLocked'[t] = isLocked[t]
                                      /\ member'[t] = member[t],
         \A d \in Calls : d # c /\ Undone(d) /\ call[d].s = s => call[d] \in SafeRequest'
  PROVE  Others(c)
<1> SUFFICES ASSUME NEW d \in Calls, d # c, call[d] # Idle
             PROVE  call[d] \in SafeRequest'
  BY DEF Others
<1>1. call[d] \in SafeRequest /\ call[d] \in Request
  BY SafeInFlight
<1>2. CASE ~Undone(d)
  BY <1>1, <1>2 DEF Undone, SafeRequest
<1>3. CASE call[d].s # s
  BY <1>1, <1>3 DEF SafeRequest, Request
<1> QED
  BY <1>2, <1>3

\* The writes, one lemma each: what they leave of what the others rely on.
LEMMA CreateSafe ==
  ASSUME SInv, NEW c \in Calls, NEW s \in Sessions, CreateSession(c, s)
  PROVE  Others(c)
<1>1. TypeOK /\ status[s] = "NONE"
  BY DEF SInv, IInv, CreateSession
<1>2. \A t \in Sessions : status'[t] = IF t = s THEN "SCHEDULED" ELSE status[t]
  BY <1>1 DEF CreateSession, TypeOK
<1>3. ASSUME NEW d \in Calls, call[d] # Idle, call[d].s = s
      PROVE  call[d] \in SafeRequest'
  BY <1>1, <1>2, <1>3, SafeInFlight DEF CreateSession, SafeRequest, Joinable
<1> QED
  BY <1>2, <1>3, ElsewhereSafe DEF CreateSession, Undone

LEMMA MemberWriteSafe ==
  ASSUME SInv, NEW c \in Calls, Undone(c), NEW to \in {"ACTIVE", "LEFT", "KICKED"},
         SetMember(c, to), UNCHANGED <<status, isLocked>>,
         \/ call[c].op \in {"create", "join"} /\ to = "ACTIVE"
         \/ call[c].op = "leave" /\ to = "LEFT"
         \/ call[c].op = "kick" /\ to = "KICKED"
  PROVE  Others(c)
<1> DEFINE s == call[c].s
           u == call[c].u
<1>1. TypeOK /\ call[c] # Idle
  BY DEF SInv, IInv, Undone
<1>2. s \in Sessions /\ u \in Users /\ call[c] \in SoundRequest
  BY <1>1, SafeInFlight
<1>3. member' = [member EXCEPT ![s][u] = to]
  BY DEF SetMember
<1>4. ASSUME NEW d \in Calls, d # c, Undone(d), call[d].s = s
      PROVE  call[d] \in SafeRequest'
  <2>1. call[d] \in SafeRequest /\ call[d] \in SoundRequest
    BY <1>4, SafeInFlight DEF Undone
  <2>2. ~Race(call[c], call[d]) /\ ~Race(call[d], call[c])
    BY <1>4, NoneRaces
  <2>3. call[d].op = "kick" /\ call[d].u = u => call[c].op = "kick"
    BY <1>2, <1>4, <2>1, <2>2 DEF Race, SoundRequest
  <2>4. /\ call[d].op = "end" => to # "ACTIVE"
        /\ call[d].u = u /\ call[d].op \in {"join", "leave"} => to # "KICKED"
        /\ call[d].u = u /\ call[d].op = "kick" => to = "KICKED"
    BY <1>4, <2>2, <2>3 DEF Race
  <2> DEFINE r == call[d]
  <2>5. /\ r \in SafeRequest /\ r.s = s
        /\ r.op = "end" => to # "ACTIVE"
        /\ r.u = u /\ r.op \in {"join", "leave"} => to # "KICKED"
        /\ r.u = u /\ r.op = "kick" => to = "KICKED"
    BY <1>4, <2>1, <2>4
  <2> HIDE DEF r, s, u
  <2>6. r \in SafeRequest'
    BY <1>1, <1>2, <1>3, <2>5, RowWriteSafe
  <2> QED
    BY <2>6 DEF r
<1>5. \A t \in Sessions : t # s => member'[t] = member[t]
  BY <1>1, <1>2, <1>3 DEF TypeOK
<1> QED
  BY <1>2, <1>4, <1>5, ElsewhereSafe

LEMMA UpdateSafe ==
  ASSUME SInv, NEW c \in Calls, UpdateWrite(c)
  PROVE  Others(c)
<1>1. TypeOK /\ Undone(c) /\ call[c].op = "update" /\ call[c].s \in Sessions
  BY SafeInFlight DEF SInv, IInv, UpdateWrite, At, Undone
<1>2. ASSUME NEW d \in Calls, d # c, Undone(d), call[d].s = call[c].s
      PROVE  call[d] \in SafeRequest'
  <2>1. call[d] \in SafeRequest
    BY <1>2, SafeInFlight DEF Undone
  <2>2. call[d].op \notin {"create", "join"}
    BY <1>1, <1>2, NoneRaces DEF Race
  <2> QED
    BY <2>1, <2>2 DEF UpdateWrite, SafeRequest
<1>3. \A t \in Sessions : t # call[c].s => isLocked'[t] = isLocked[t]
  BY <1>1 DEF UpdateWrite, TypeOK
<1> QED
  BY <1>1, <1>2, <1>3, ElsewhereSafe DEF UpdateWrite

LEMMA StartSafe ==
  ASSUME SInv, NEW c \in Calls, StartWrite(c)
  PROVE  Others(c)
<1>1. TypeOK /\ call[c].s \in Sessions
  BY SafeInFlight DEF SInv, IInv, StartWrite, At
<1>2. \A t \in Sessions : status'[t] = IF t = call[c].s THEN "ACTIVE" ELSE status[t]
  BY <1>1 DEF StartWrite, TypeOK
<1>3. ASSUME NEW d \in Calls, d # c, Undone(d), call[d].s = call[c].s
      PROVE  call[d] \in SafeRequest'
  <2>1. call[d] \in SafeRequest
    BY <1>3, SafeInFlight DEF Undone
  <2> QED
    BY <1>1, <1>2, <1>3, <2>1 DEF StartWrite, SafeRequest, Joinable
<1> QED
  BY <1>1, <1>2, <1>3, ElsewhereSafe DEF StartWrite

LEMMA CloseSafe ==
  ASSUME SInv, NEW c \in Calls, EndClose(c)
  PROVE  Others(c)
<1>1. TypeOK /\ Undone(c) /\ call[c].op = "end" /\ call[c].s \in Sessions
  BY SafeInFlight DEF SInv, IInv, EndClose, At, Undone
<1>2. \A t \in Sessions, u \in Users :
        member'[t][u] = IF t = call[c].s /\ member[t][u] = "ACTIVE" THEN "LEFT"
                        ELSE member[t][u]
  BY <1>1 DEF EndClose, TypeOK
<1>3. ASSUME NEW d \in Calls, d # c, Undone(d), call[d].s = call[c].s
      PROVE  call[d] \in SafeRequest'
  <2>1. call[d] \in SafeRequest /\ call[d] \in Request
    BY <1>3, SafeInFlight DEF Undone
  <2>2. call[d].op # "kick"
    BY <1>1, <1>3, NoneRaces DEF Race
  <2> DEFINE r == call[d]
  <2>3. /\ r \in SafeRequest /\ r \in Request /\ r.op # "kick"
        /\ r.s \in Sessions /\ r.u \in Users
    BY <2>1, <2>2 DEF Request
  <2>4. UNCHANGED <<status, isLocked>>
    BY DEF EndClose
  <2> HIDE DEF r
  <2>5. r \in SafeRequest'
    BY <1>2, <2>3, <2>4 DEF SafeRequest
  <2> QED
    BY <2>5 DEF r
<1>4. \A t \in Sessions : t # call[c].s => member'[t] = member[t]
  BY <1>1 DEF EndClose, TypeOK
<1> QED
  BY <1>1, <1>3, <1>4, ElsewhereSafe DEF EndClose

LEMMA EndSafe ==
  ASSUME SInv, NEW c \in Calls, EndWrite(c)
  PROVE  Others(c)
<1>1. TypeOK /\ Undone(c) /\ call[c].op = "end" /\ call[c].s \in Sessions
  BY SafeInFlight DEF SInv, IInv, EndWrite, At, Undone
<1>2. \A t \in Sessions : status'[t] = IF t = call[c].s THEN "ENDED" ELSE status[t]
  BY <1>1 DEF EndWrite, TypeOK
<1>3. ASSUME NEW d \in Calls, d # c, Undone(d), call[d].s = call[c].s
      PROVE  call[d] \in SafeRequest'
  <2>1. call[d] \in SafeRequest
    BY <1>3, SafeInFlight DEF Undone
  <2>2. call[d].op \notin {"create", "update", "start", "join", "kick"}
    BY <1>1, <1>3, NoneRaces DEF Race
  <2> QED
    BY <1>1, <1>2, <1>3, <2>1, <2>2 DEF EndWrite, SafeRequest
<1> QED
  BY <1>1, <1>2, <1>3, ElsewhereSafe DEF EndWrite

LEMMA SafeStep == SInv /\ [Next]_vars => RequestsSafe'
<1> SUFFICES ASSUME SInv, [Next]_vars
             PROVE  RequestsSafe'
  OBVIOUS
<1> USE SessionsAssumption
<1>0. TypeOK /\ IInv /\ RequestsSafe /\ UncreatedIsEmpty
  BY DEF SInv, IInv
<1>1. ASSUME NEW c \in Calls, NEW s \in Sessions, CreateSession(c, s)
      PROVE  RequestsSafe'
  <2> DEFINE r == [Opened("create", s, Host[s], "enroll")
                     EXCEPT !.seen = "SCHEDULED"]
  <2>1. r \in Request /\ r.op = "create" /\ r.s = s /\ r.u = Host[s]
    BY <1>0, OpenedIsRequest DEF Operation, Request, SessionStatus
  <2>2. status'[s] \in Joinable /\ ~isLocked'[s]
    BY <1>0, <1>1 DEF CreateSession, TypeOK, UncreatedIsEmpty, Joinable
  <2>3. call' = [call EXCEPT ![c] = r]
    BY <1>1 DEF CreateSession, Begin
  <2> HIDE DEF r
  <2>4. r \in SafeRequest'
    BY <2>1, <2>2 DEF SafeRequest
  <2> QED
    BY <1>0, <1>1, <2>3, <2>4, CreateSafe, SlotSafe
<1>2. ASSUME NEW c \in Calls, NEW s \in Sessions, NEW lock \in BOOLEAN,
             UpdateBegin(c, s, lock)
      PROVE  RequestsSafe'
  <2> DEFINE r == [Opened("update", s, Host[s], "write") EXCEPT !.lock = lock]
  <2>1. r \in Request /\ r.op = "update" /\ r.s = s
    BY <1>0, OpenedIsRequest DEF Operation, Request
  <2>2. status'[s] \in Joinable
    BY <1>0, <1>2
       DEF UpdateBegin, rows, TypeOK, SessionStatus, Finished, Joinable
  <2>3. call' = [call EXCEPT ![c] = r]
    BY <1>2 DEF UpdateBegin, Begin
  <2> HIDE DEF r
  <2>4. r \in SafeRequest'
    BY <2>1, <2>2 DEF SafeRequest
  <2> QED
    BY <1>0, <1>2, <2>3, <2>4, RowsKeptSafe, SlotSafe DEF UpdateBegin, rows
<1>3. ASSUME NEW c \in Calls, NEW s \in Sessions, StartBegin(c, s)
      PROVE  RequestsSafe'
  <2> DEFINE r == Opened("start", s, Host[s], "write")
  <2>1. r \in Request /\ r.op = "start" /\ r.s = s
    BY <1>0, OpenedIsRequest DEF Operation
  <2>2. call' = [call EXCEPT ![c] = r] /\ status'[s] \in Joinable
    BY <1>3 DEF StartBegin, Begin, Startable, Joinable, rows
  <2> HIDE DEF r
  <2>3. r \in SafeRequest'
    BY <2>1, <2>2 DEF SafeRequest
  <2> QED
    BY <1>0, <1>3, <2>2, <2>3, RowsKeptSafe, SlotSafe DEF StartBegin, rows
<1>4. ASSUME NEW c \in Calls, NEW s \in Sessions, EndBegin(c, s)
      PROVE  RequestsSafe'
  <2> DEFINE r == Opened("end", s, Host[s], "close")
  <2>1. r \in Request /\ r.op = "end" /\ r.s = s /\ r.pc = "close"
    BY <1>0, OpenedIsRequest DEF Operation
  <2>2. call' = [call EXCEPT ![c] = r] /\ status'[s] = "ACTIVE"
    BY <1>4 DEF EndBegin, Begin, Endable, rows
  <2> HIDE DEF r
  <2>3. r \in SafeRequest'
    BY <2>1, <2>2 DEF SafeRequest
  <2> QED
    BY <1>0, <1>4, <2>2, <2>3, RowsKeptSafe, SlotSafe DEF EndBegin, rows
<1>5. ASSUME NEW c \in Calls, NEW s \in Sessions, NEW u \in Users,
             NEW cred \in Credential, JoinBegin(c, s, u, cred)
      PROVE  RequestsSafe'
  <2> DEFINE r == [Opened("join", s, u, "check") EXCEPT !.cred = cred]
  <2>1. /\ r \in Request /\ r.op = "join" /\ r.s = s /\ r.pc = "check"
        /\ r.locked = isLocked[s]
    BY <1>0, OpenedIsRequest DEF Operation, Request
  <2>2. /\ call' = [call EXCEPT ![c] = r]
        /\ status'[s] \in Joinable
        /\ isLocked'[s] = isLocked[s]
    BY <1>5 DEF JoinBegin, Begin, rows
  <2> HIDE DEF r
  <2>3. r \in SafeRequest'
    BY <2>1, <2>2 DEF SafeRequest
  <2> QED
    BY <1>0, <1>5, <2>2, <2>3, RowsKeptSafe, SlotSafe DEF JoinBegin, rows
<1>6. ASSUME NEW c \in Calls, NEW s \in Sessions, NEW u \in Users,
             NEW op \in {"leave", "kick"},
             UNCHANGED rows, Begin(c, Opened(op, s, u, "check")),
             op = "leave" => status'[s] \in Joinable \cup {"ENDED"}
      PROVE  RequestsSafe'
  <2> DEFINE r == Opened(op, s, u, "check")
  <2>1. r \in Request /\ r.op = op /\ r.s = s /\ r.pc = "check"
    BY <1>0, OpenedIsRequest DEF Operation
  <2>2. call' = [call EXCEPT ![c] = r]
    BY <1>6 DEF Begin
  <2> HIDE DEF r
  <2>3. r \in SafeRequest'
    BY <1>6, <2>1 DEF SafeRequest
  <2> QED
    BY <1>0, <1>6, <2>2, <2>3, RowsKeptSafe, SlotSafe DEF rows
<1>7. ASSUME NEW c \in Calls, NEW s \in Sessions, NEW u \in Users,
             LeaveBegin(c, s, u) \/ KickBegin(c, s, u)
      PROVE  RequestsSafe'
  <2>1. LeaveBegin(c, s, u) => status'[s] \in Joinable \cup {"ENDED"}
    BY <1>0 DEF LeaveBegin, rows, TypeOK, SessionStatus, Finished, Joinable
  <2> QED
    BY <1>6, <1>7, <2>1 DEF LeaveBegin, KickBegin
<1>8. ASSUME NEW c \in Calls, JoinCheck(c)
      PROVE  RequestsSafe'
  <2> DEFINE existing == member[call[c].s][call[c].u]
             r == [call[c] EXCEPT !.pc = "write", !.existing = existing]
  <2>1. /\ call[c] \in SafeRequest /\ call[c] # Idle
        /\ call[c].op = "join" /\ call[c].pc = "check"
    BY <1>0, <1>8 DEF JoinCheck, At, RequestsSafe
  <2>2. existing \in ParticipantStatus /\ Others(c)
    BY <1>0, <1>8, <2>1, RowsKeptSafe DEF TypeOK, JoinCheck, rows, SafeRequest, Request
  <2>3. CASE existing = "ACTIVE"
    BY <1>0, <1>8, <2>1, <2>2, <2>3, DoneSafe DEF JoinCheck
  <2>4. CASE existing # "ACTIVE" /\ MayReturn(existing) /\ ~LocksOut(c) /\ Admits(c)
    <3>1. /\ r \in Request /\ r.op = "join" /\ r.pc = "write"
          /\ r.s = call[c].s /\ r.u = call[c].u
      BY <2>1, <2>2 DEF SafeRequest, Request
    <3>2. /\ status'[r.s] \in Joinable /\ ~isLocked'[r.s]
          /\ member'[r.s][r.u] # "KICKED"
      BY <1>8, <2>1, <2>2, <2>4, <3>1
         DEF JoinCheck, rows, SafeRequest, MayReturn, LocksOut
    <3>3. call' = [call EXCEPT ![c] = r]
      BY <1>8, <2>4 DEF JoinCheck
    <3> HIDE DEF r
    <3>4. r \in SafeRequest'
      BY <3>1, <3>2 DEF SafeRequest
    <3> QED
      BY <1>0, <2>2, <3>3, <3>4, SlotSafe
  <2>5. CASE existing # "ACTIVE"
             /\ ~(MayReturn(existing) /\ ~LocksOut(c) /\ Admits(c))
    BY <1>0, <1>8, <2>2, <2>5, ReturnSafe DEF JoinCheck
  <2> QED
    BY <2>3, <2>4, <2>5
<1>9. ASSUME NEW c \in Calls, RemovalCheck(c)
      PROVE  RequestsSafe'
  <2> DEFINE r == [call[c] EXCEPT !.pc = "write", !.existing = "ACTIVE"]
  <2>1. /\ call[c] \in SafeRequest /\ call[c] # Idle
        /\ call[c].op \in {"leave", "kick"} /\ call[c].pc = "check"
        /\ Others(c)
    BY <1>0, <1>9, RowsKeptSafe DEF RemovalCheck, At, rows, RequestsSafe
  <2>2. CASE member[call[c].s][call[c].u] = "ACTIVE"
    <3>1. /\ r \in Request /\ r.op = call[c].op
          /\ r.s = call[c].s /\ r.u = call[c].u
      BY <2>1 DEF SafeRequest, Request, ParticipantStatus
    <3>2. /\ r.op = "leave" => status'[r.s] \in Joinable \cup {"ENDED"}
          /\ member'[r.s][r.u] = "ACTIVE"
      BY <1>9, <2>1, <2>2, <3>1 DEF RemovalCheck, rows, SafeRequest
    <3>3. call' = [call EXCEPT ![c] = r]
      BY <1>9, <2>2 DEF RemovalCheck
    <3> HIDE DEF r
    <3>4. r \in SafeRequest'
      BY <2>1, <3>1, <3>2 DEF SafeRequest
    <3> QED
      BY <1>0, <2>1, <3>3, <3>4, SlotSafe
  <2>3. CASE member[call[c].s][call[c].u] # "ACTIVE"
    BY <1>0, <1>9, <2>1, <2>3, ReturnSafe DEF RemovalCheck
  <2> QED
    BY <2>2, <2>3
<1>10. ASSUME NEW c \in Calls, EndClose(c)
       PROVE  RequestsSafe'
  <2> DEFINE r == [call[c] EXCEPT !.pc = "write"]
  <2>1. /\ call[c] \in SafeRequest /\ call[c] # Idle
        /\ call[c].op = "end" /\ call[c].pc = "close"
    BY <1>0, <1>10 DEF EndClose, At, RequestsSafe
  <2>2. /\ r \in Request /\ r.op = "end" /\ r.s = call[c].s
    BY <2>1 DEF SafeRequest, Request
  <2>3. /\ status'[r.s] \in {"ACTIVE", "ENDED"}
        /\ \A u \in Users : member'[r.s][u] # "ACTIVE"
    BY <1>0, <1>10, <2>1, <2>2 DEF EndClose, SafeRequest, Request, TypeOK
  <2>4. call' = [call EXCEPT ![c] = r]
    BY <1>10 DEF EndClose, GoTo
  <2> HIDE DEF r
  <2>5. r \in SafeRequest'
    BY <2>2, <2>3 DEF SafeRequest
  <2> QED
    BY <1>0, <1>10, <2>4, <2>5, CloseSafe, SlotSafe
<1>11. ASSUME NEW c \in Calls, EnrollHost(c) \/ JoinWrite(c) \/ LeaveWrite(c) \/ KickWrite(c)
       PROVE  RequestsSafe'
  <2>1. Undone(c) /\ call[c] # Idle
    BY <1>11 DEF EnrollHost, JoinWrite, LeaveWrite, KickWrite, At, Undone
  <2>2. CASE UNCHANGED member /\ Return(c)
    BY <1>0, <1>11, <2>2, RowsKeptSafe, ReturnSafe
       DEF EnrollHost, JoinWrite, LeaveWrite, KickWrite
  <2>3. CASE ~(UNCHANGED member /\ Return(c))
    <3>1. /\ GoTo(c, "log") \/ GoTo(c, "emit")
          /\ UNCHANGED <<status, isLocked>>
          /\ \/ call[c].op \in {"create", "join"} /\ SetMember(c, "ACTIVE")
             \/ call[c].op = "leave" /\ SetMember(c, "LEFT")
             \/ call[c].op = "kick" /\ SetMember(c, "KICKED")
      BY <1>11, <2>3 DEF EnrollHost, JoinWrite, LeaveWrite, KickWrite, At
    <3>2. Others(c)
      BY <2>1, <3>1, MemberWriteSafe
    <3> QED
      BY <1>0, <2>1, <3>1, <3>2, DoneSafe
  <2> QED
    BY <2>2, <2>3
<1>12. ASSUME NEW c \in Calls,
              \/ \E invited \in SUBSET Invitees : EmitCreated(c, invited)
              \/ EmitEnded(c) \/ EmitJoined(c) \/ EmitLeft(c) \/ Fail(c)
       PROVE  RequestsSafe'
  BY <1>0, <1>12, RowsKeptSafe, ReturnSafe
     DEF EmitCreated, EmitEnded, EmitJoined, EmitLeft, Fail, rows
<1>17. ASSUME NEW c \in Calls, UpdateWrite(c) \/ StartWrite(c) \/ EndWrite(c)
       PROVE  RequestsSafe'
  BY <1>0, <1>17, UpdateSafe, StartSafe, EndSafe, ReturnSafe, DoneSafe
     DEF UpdateWrite, StartWrite, EndWrite, At
<1>13. CASE Crash
  BY <1>13 DEF Crash, RequestsSafe
<1>14. CASE UNCHANGED <<rows, call>>
  BY <1>0, <1>14 DEF rows, RequestsSafe, SafeRequest
<1>15. ASSUME NEW s \in Sessions, NEW u \in Users, ExpireInvite(s, u)
       PROVE  UNCHANGED <<rows, call>>
  BY <1>15 DEF ExpireInvite
<1>16. CASE UNCHANGED vars
  BY <1>14, <1>16 DEF vars, rows
<1> QED
  BY <1>1, <1>2, <1>3, <1>4, <1>5, <1>7, <1>8, <1>9, <1>10, <1>11, <1>12,
     <1>13, <1>14, <1>15, <1>16, <1>17 DEF Next

\* Every action is one step of the contract, or none.
LEMMA ContractStep ==
  ASSUME SInv, [Next]_vars
  PROVE  [Contract!ContractNext]_(Contract!contractVars)
<1> USE SessionsAssumption
<1>0. TypeOK /\ EndedIsEmpty
  BY DEF SInv, IInv
<1>1. CASE UNCHANGED rows
  BY <1>1 DEF rows, Contract!contractVars
<1>2. ASSUME NEW c \in Calls, NEW s \in Sessions, CreateSession(c, s)
      PROVE  Contract!ContractNext
  BY <1>2 DEF CreateSession, Contract!ContractNext, Contract!Create, Contract!Move
<1>3. ASSUME NEW c \in Calls, EnrollHost(c), ~ UNCHANGED member
      PROVE  Contract!ContractNext
  <2>1. /\ call[c].s \in Sessions /\ call[c].u \in Users
        /\ status[call[c].s] \in Joinable /\ ~isLocked[call[c].s]
        /\ member[call[c].s][call[c].u] = "NONE"
    BY <1>3, SafeInFlight DEF EnrollHost, At, SafeRequest
  <2>2. Contract!Join(call[c].s, call[c].u)
    BY <1>3, <2>1
       DEF EnrollHost, SetMember, Joinable, Contract!Join, Contract!Open, Contract!Become
  <2> QED
    BY <2>1, <2>2 DEF Contract!ContractNext
<1>4. ASSUME NEW c \in Calls, UpdateWrite(c)
      PROVE  Contract!ContractNext
  <2>1. /\ call[c].s \in Sessions /\ call[c].lock \in BOOLEAN
        /\ status[call[c].s] \in Joinable
    BY <1>4, SafeInFlight DEF UpdateWrite, At, SafeRequest, Request
  <2>2. Contract!SetLock(call[c].s, call[c].lock)
    BY <1>4, <2>1 DEF UpdateWrite, Joinable, Contract!SetLock, Contract!Open
  <2> QED
    BY <2>1, <2>2 DEF Contract!ContractNext
\* A second start writes ACTIVE again, a second end LEFT and ENDED: nothing changes.
<1>5. ASSUME NEW c \in Calls, StartWrite(c)
      PROVE  Contract!ContractNext \/ UNCHANGED <<status, isLocked, member>>
  <2>1. call[c].s \in Sessions /\ status[call[c].s] \in Joinable
    BY <1>5, SafeInFlight DEF StartWrite, At, SafeRequest
  <2>2. CASE status[call[c].s] = "SCHEDULED"
    <3>1. Contract!Start(call[c].s)
      BY <1>5, <2>2 DEF StartWrite, Contract!Start, Contract!Move
    <3> QED
      BY <2>1, <3>1 DEF Contract!ContractNext
  <2>3. CASE status[call[c].s] = "ACTIVE"
    BY <1>0, <1>5, <2>3 DEF StartWrite, TypeOK
  <2> QED
    BY <2>1, <2>2, <2>3 DEF Joinable
<1>6. ASSUME NEW c \in Calls, EndClose(c)
      PROVE  Contract!ContractNext \/ UNCHANGED <<status, isLocked, member>>
  <2>1. call[c].s \in Sessions /\ status[call[c].s] \in {"ACTIVE", "ENDED"}
    BY <1>6, SafeInFlight DEF EndClose, At, SafeRequest
  <2>2. CASE status[call[c].s] = "ACTIVE"
    <3>1. Contract!Close(call[c].s)
      BY <1>6, <2>2 DEF EndClose, Contract!Close
    <3> QED
      BY <2>1, <3>1 DEF Contract!ContractNext
  <2>3. CASE status[call[c].s] = "ENDED"
    <3>1. \A u \in Users : member[call[c].s][u] # "ACTIVE"
      BY <1>0, <2>1, <2>3 DEF EndedIsEmpty
    <3>2. [u \in Users |-> IF member[call[c].s][u] = "ACTIVE" THEN "LEFT"
                           ELSE member[call[c].s][u]] = member[call[c].s]
      BY <1>0, <2>1, <3>1 DEF TypeOK
    <3>3. member' = member
      BY <1>0, <1>6, <2>1, <3>2 DEF EndClose, TypeOK
    <3> QED
      BY <1>6, <3>3 DEF EndClose
  <2> QED
    BY <2>1, <2>2, <2>3
<1>7. ASSUME NEW c \in Calls, EndWrite(c)
      PROVE  Contract!ContractNext \/ UNCHANGED <<status, isLocked, member>>
  <2>1. /\ call[c].s \in Sessions /\ status[call[c].s] \in {"ACTIVE", "ENDED"}
        /\ \A u \in Users : member[call[c].s][u] # "ACTIVE"
    BY <1>7, SafeInFlight DEF EndWrite, At, SafeRequest
  <2>2. CASE status[call[c].s] = "ACTIVE"
    <3>1. Contract!End(call[c].s)
      BY <1>7, <2>1, <2>2 DEF EndWrite, Contract!End, Contract!Move
    <3> QED
      BY <2>1, <3>1 DEF Contract!ContractNext
  <2>3. CASE status[call[c].s] = "ENDED"
    BY <1>0, <1>7, <2>3 DEF EndWrite, TypeOK
  <2> QED
    BY <2>1, <2>2, <2>3
\* One participant row is written, as the contract allows or as it is.
<1>8. ASSUME NEW c \in Calls, call[c] # Idle, NEW to \in ParticipantStatus,
             SetMember(c, to), member[call[c].s][call[c].u] = to
      PROVE  UNCHANGED member
  <2>1. call[c].s \in Sessions /\ call[c].u \in Users
    BY <1>8, SafeInFlight
  <2> QED
    BY <1>0, <1>8, <2>1 DEF SetMember, TypeOK
<1>9. ASSUME NEW c \in Calls, JoinWrite(c), ~ UNCHANGED member
      PROVE  Contract!ContractNext
  <2>1. /\ call[c] # Idle /\ call[c].s \in Sessions /\ call[c].u \in Users
        /\ status[call[c].s] \in Joinable /\ ~isLocked[call[c].s]
        /\ member[call[c].s][call[c].u] # "KICKED" /\ SetMember(c, "ACTIVE")
    BY <1>9, SafeInFlight DEF JoinWrite, At, SafeRequest
  <2>2. member[call[c].s][call[c].u] \in {"NONE", "LEFT"}
    BY <1>0, <1>8, <1>9, <2>1 DEF TypeOK, ParticipantStatus
  <2>3. Contract!Join(call[c].s, call[c].u)
    BY <1>9, <2>1, <2>2 DEF JoinWrite, SetMember, Joinable,
                            Contract!Join, Contract!Open, Contract!Become
  <2> QED
    BY <2>1, <2>3 DEF Contract!ContractNext
<1>10. ASSUME NEW c \in Calls, LeaveWrite(c), ~ UNCHANGED member
       PROVE  Contract!ContractNext
  <2>1. /\ call[c] # Idle /\ call[c].s \in Sessions /\ call[c].u \in Users
        /\ status[call[c].s] \in Joinable \cup {"ENDED"} /\ call[c].u # Host[call[c].s]
        /\ member[call[c].s][call[c].u] \in {"ACTIVE", "LEFT"}
    BY <1>10, SafeInFlight DEF LeaveWrite, At, SafeRequest, SoundRequest
  <2>2. member[call[c].s][call[c].u] = "ACTIVE"
    BY <1>8, <1>10, <2>1 DEF LeaveWrite, ParticipantStatus
  <2>3. status[call[c].s] \in Joinable
    BY <1>0, <2>1, <2>2 DEF EndedIsEmpty
  <2>4. Contract!Leave(call[c].s, call[c].u)
    BY <1>10, <2>1, <2>2, <2>3 DEF LeaveWrite, SetMember, Joinable,
                                   Contract!Leave, Contract!Open, Contract!Become
  <2> QED
    BY <2>1, <2>4 DEF Contract!ContractNext
<1>11. ASSUME NEW c \in Calls, KickWrite(c), ~ UNCHANGED member
       PROVE  Contract!ContractNext
  <2>1. /\ call[c] # Idle /\ call[c].s \in Sessions /\ call[c].u \in Users
        /\ call[c].u # Host[call[c].s]
        /\ member[call[c].s][call[c].u] \in {"ACTIVE", "KICKED"}
    BY <1>11, SafeInFlight DEF KickWrite, At, SafeRequest, SoundRequest
  <2>2. member[call[c].s][call[c].u] = "ACTIVE"
    BY <1>8, <1>11, <2>1 DEF KickWrite, ParticipantStatus
  <2>3. Contract!Kick(call[c].s, call[c].u)
    BY <1>11, <2>1, <2>2 DEF KickWrite, SetMember, Contract!Kick, Contract!Become
  <2> QED
    BY <2>1, <2>3 DEF Contract!ContractNext
<1>12. ASSUME NEW c \in Calls, Writes(c)
       PROVE  Contract!ContractNext \/ UNCHANGED <<status, isLocked, member>>
  BY <1>3, <1>4, <1>5, <1>6, <1>7, <1>9, <1>10, <1>11, <1>12
     DEF Writes, EnrollHost, JoinWrite, LeaveWrite, KickWrite
<1> QED
  BY <1>1, <1>2, <1>12, RowWriters DEF Contract!contractVars

-----------------------------------------------------------------------------
(* The contract's invariants, proved of the contract alone.                *)

ContractTypeOK ==
  /\ status \in [Sessions -> SessionStatus]
  /\ isLocked \in [Sessions -> BOOLEAN]
  /\ member \in [Sessions -> [Users -> ParticipantStatus]]

ContractInv == ContractTypeOK /\ UncreatedIsEmpty /\ EndedIsEmpty

\* A user becomes ACTIVE only in an open, unlocked session; nobody who was
\* kicked does.
ContractAct ==
  \A s \in Sessions, u \in Users :
    /\ member[s][u] = "KICKED" => member'[s][u] = "KICKED"
    /\ isLocked[s] /\ member[s][u] # "ACTIVE" => member'[s][u] # "ACTIVE"

LEMMA ContractKeeps ==
  ASSUME ContractInv, [Contract!ContractNext]_(Contract!contractVars)
  PROVE  ContractInv' /\ ContractAct
<1> USE SessionsAssumption
<1>1. CASE UNCHANGED Contract!contractVars
  BY <1>1 DEF Contract!contractVars, ContractInv, ContractTypeOK, UncreatedIsEmpty,
              EndedIsEmpty, ContractAct
<1>2. ASSUME NEW s \in Sessions,
             Contract!Create(s) \/ Contract!Start(s) \/ Contract!End(s)
      PROVE  ContractInv' /\ ContractAct
  <2>1. /\ UNCHANGED <<isLocked, member>>
        /\ \E to \in {"SCHEDULED", "ACTIVE", "ENDED"} :
             /\ status' = [status EXCEPT ![s] = to]
             /\ to = "ENDED" => \A u \in Users : member[s][u] # "ACTIVE"
    BY <1>2 DEF Contract!Create, Contract!Start, Contract!End, Contract!Move
  <2>2. PICK to \in {"SCHEDULED", "ACTIVE", "ENDED"} :
          /\ status' = [status EXCEPT ![s] = to]
          /\ to = "ENDED" => \A u \in Users : member[s][u] # "ACTIVE"
    BY <2>1
  <2>3. \A r \in Sessions : status'[r] = IF r = s THEN to ELSE status[r]
    BY <2>2 DEF ContractInv, ContractTypeOK
  <2>4. ContractTypeOK'
    BY <2>1, <2>2 DEF ContractInv, ContractTypeOK, SessionStatus, Finished
  <2>5. UncreatedIsEmpty' /\ EndedIsEmpty' /\ ContractAct
    BY <2>1, <2>2, <2>3
       DEF ContractInv, UncreatedIsEmpty, EndedIsEmpty, ContractAct
  <2> QED
    BY <2>4, <2>5 DEF ContractInv
<1>3. ASSUME NEW s \in Sessions, NEW lock \in BOOLEAN, Contract!SetLock(s, lock)
      PROVE  ContractInv' /\ ContractAct
  BY <1>3 DEF Contract!SetLock, Contract!Open, ContractInv, ContractTypeOK,
              UncreatedIsEmpty, EndedIsEmpty, ContractAct
<1>4. ASSUME NEW s \in Sessions, Contract!Close(s)
      PROVE  ContractInv' /\ ContractAct
  BY <1>4 DEF Contract!Close, ParticipantStatus, ContractInv, ContractTypeOK,
              UncreatedIsEmpty, EndedIsEmpty, ContractAct
\* A single row changes: nobody comes in unless the session is open.
<1>5. ASSUME NEW s \in Sessions, NEW u \in Users,
             NEW to \in {"ACTIVE", "LEFT", "KICKED"}, status[s] # "NONE",
             member' = [member EXCEPT ![s][u] = to], UNCHANGED <<status, isLocked>>,
             member[s][u] # "KICKED",
             to = "ACTIVE" => status[s] # "ENDED" /\ ~isLocked[s]
      PROVE  ContractInv' /\ ContractAct
  <2>1. ContractTypeOK'
    BY <1>5 DEF ContractInv, ContractTypeOK, ParticipantStatus
  <2>2. \A r \in Sessions, w \in Users :
          member'[r][w] = IF r = s /\ w = u THEN to ELSE member[r][w]
    BY <1>5 DEF ContractInv, ContractTypeOK
  <2>3. UncreatedIsEmpty' /\ EndedIsEmpty'
    BY <1>5, <2>2 DEF ContractInv, UncreatedIsEmpty, EndedIsEmpty
  <2>4. ContractAct
    BY <1>5, <2>2 DEF ContractAct
  <2> QED
    BY <2>1, <2>3, <2>4 DEF ContractInv
<1>6. ASSUME NEW s \in Sessions, NEW u \in Users, Contract!Join(s, u)
      PROVE  ContractInv' /\ ContractAct
  BY <1>5, <1>6 DEF Contract!Join, Contract!Open, Contract!Become
<1>7. ASSUME NEW s \in Sessions, NEW u \in Users,
             Contract!Leave(s, u) \/ Contract!Kick(s, u)
      PROVE  ContractInv' /\ ContractAct
  <2>1. member[s][u] = "ACTIVE"
    BY <1>7 DEF Contract!Leave, Contract!Kick, Contract!Become
  <2>2. status[s] # "NONE"
    BY <2>1 DEF ContractInv, UncreatedIsEmpty
  <2> QED
    BY <1>5, <1>7, <2>1, <2>2 DEF Contract!Leave, Contract!Kick, Contract!Become
<1> QED
  BY <1>1, <1>2, <1>3, <1>4, <1>6, <1>7 DEF Contract!ContractNext

LEMMA ContractStarts == Contract!ContractInit => ContractInv
BY DEF Contract!ContractInit, ContractInv, ContractTypeOK, UncreatedIsEmpty,
       EndedIsEmpty, SessionStatus, ParticipantStatus

-----------------------------------------------------------------------------
(* The results.                                                            *)

Whole == SInv /\ ContractInv

LEMMA WholeInit == Init => Contract!ContractInit /\ Whole
BY SInvInit, ContractStarts DEF Init, Contract!ContractInit, Whole

LEMMA WholeStep ==
  Whole /\ [Next /\ Raceless']_vars => /\ Whole'
                                       /\ ContractAct
                                       /\ [Contract!ContractNext]_(Contract!contractVars)
<1> SUFFICES ASSUME Whole, [Next /\ Raceless']_vars
             PROVE  /\ Whole'
                    /\ ContractAct
                    /\ [Contract!ContractNext]_(Contract!contractVars)
  OBVIOUS
<1>0. [Next]_vars
  OBVIOUS
<1>1. [Contract!ContractNext]_(Contract!contractVars)
  BY <1>0, ContractStep DEF Whole
<1>2. ContractInv' /\ ContractAct
  BY <1>1, ContractKeeps DEF Whole
<1>3. RequestsSafe' /\ IInv'
  BY <1>0, SafeStep, IInvStep DEF Whole, SInv
<1>4. Raceless'
  BY DEF Whole, SInv, Raceless, Undone, vars
<1> QED
  BY <1>1, <1>2, <1>3, <1>4 DEF Whole, SInv, ContractInv

\* While no two requests that race overlap, SessionsService implements the contract,
\* whatever other requests overlap and whatever await a failure or a crash stops one at.
THEOREM RacelessImplements == RacelessSpec => Implements
<1>1. Whole /\ [Next /\ Raceless']_vars =>
        /\ Whole'
        /\ [Contract!ContractNext]_(Contract!contractVars)
  BY WholeStep
<1> QED
  BY <1>1, WholeInit, PTL DEF RacelessSpec, Implements, Contract!ContractSpec

\* Then a session that has ended is empty.
THEOREM RacelessEndedIsEmpty == RacelessSpec => []EndedIsEmpty
<1>1. Whole /\ [Next /\ Raceless']_vars => Whole'
  BY WholeStep
<1>2. Whole => EndedIsEmpty
  BY DEF Whole, ContractInv
<1> QED
  BY <1>1, <1>2, WholeInit, PTL DEF RacelessSpec

\* And kicked participants stay out.
THEOREM RacelessKickedIsFinal == RacelessSpec => KickedIsFinal
<1>1. Whole /\ [Next /\ Raceless']_vars => Whole' /\ ContractAct
  BY WholeStep
<1>2. ContractAct =>
        [\A s \in Sessions, u \in Users :
           member[s][u] = "KICKED" => member'[s][u] = "KICKED"]_vars
  BY DEF ContractAct
<1> QED
  BY <1>1, <1>2, WholeInit, PTL DEF RacelessSpec, KickedIsFinal

\* And nobody enters a locked session.
THEOREM RacelessLockHolds == RacelessSpec => LockHolds
<1>1. Whole /\ [Next /\ Raceless']_vars => Whole' /\ ContractAct
  BY WholeStep
<1>2. ContractAct =>
        [\A s \in Sessions, u \in Users :
           isLocked[s] /\ member[s][u] # "ACTIVE" => member'[s][u] # "ACTIVE"]_vars
  BY DEF ContractAct
<1> QED
  BY <1>1, <1>2, WholeInit, PTL DEF RacelessSpec, LockHolds

\* One request at a time is the simplest way to keep those pairs apart.
THEOREM SerialIsRaceless ==
  ASSUME \A c, d \in Calls : c = d
  PROVE  Spec => RacelessSpec
<1>1. Raceless'
  BY DEF Raceless, Race
<1>2. [Next]_vars => [Next /\ Raceless']_vars
  BY <1>1
<1> QED
  BY <1>2, PTL DEF Spec, RacelessSpec
=============================================================================
