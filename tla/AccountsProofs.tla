--------------------------- MODULE AccountsProofs ---------------------------
(***************************************************************************)
(* Proofs about Accounts, for any names, passwords, zones, requests and    *)
(* seed scripts.  What carries them: a role is only ever raised, so what a *)
(* token, a request or a script remembers of an admin stays true; and a    *)
(* zone's room is never removed, so one script at a time finds it again.   *)
(***************************************************************************)
EXTENDS Accounts, TLAPS

-----------------------------------------------------------------------------
(* What the states of requests and scripts hold.                           *)

LEMMA RequestKinds ==
  ASSUME TypeOK, NEW r \in Requests
  PROVE  /\ request[r] # Idle => request[r].at \in {"hash", "compare", "answered"}
         /\ request[r].at \in {"hash", "compare"} =>
              request[r].name \in Names /\ request[r].password \in Passwords
         /\ request[r].at = "compare" => request[r].row \in Row
         /\ request[r].at = "answered" => request[r].token \in Token
         /\ request[r] = Idle => request[r].at = "idle"
<1>1. request[r] \in InFlight \cup {Idle}
  BY DEF TypeOK
<1>2. CASE request[r] = Idle
  BY <1>2 DEF Idle
<1>3. CASE request[r] \in [at : {"hash"}, name : Names, password : Passwords]
  BY <1>3 DEF Idle
<1>4. CASE request[r] \in [at : {"compare"}, name : Names, password : Passwords, row : Row]
  BY <1>4 DEF Idle
<1>5. CASE request[r] \in [at : {"answered"}, token : Token]
  BY <1>5 DEF Idle
<1> QED
  BY <1>1, <1>2, <1>3, <1>4, <1>5 DEF InFlight

Lines == [Zones -> RoomIds \cup {None}]

LEMMA ScriptKinds ==
  ASSUME TypeOK, NEW s \in Seeds
  PROVE  /\ seed[s] # Idle =>
              seed[s].at \in {"admin", "publish", "find", "write"} /\ seed[s].lines \in Lines
         /\ seed[s].at \in {"find", "write"} => seed[s].zone \in Zones
         /\ seed[s].at = "write" => seed[s].found \in RoomIds \cup {None}
         /\ seed[s] = Idle => seed[s].at = "idle"
<1>1. seed[s] \in Script \cup {Idle}
  BY DEF TypeOK
<1>2. CASE seed[s] = Idle
  BY <1>2 DEF Idle
<1>3. CASE seed[s] \in [at : {"admin", "publish"}, lines : Lines]
  BY <1>3 DEF Idle
<1>4. CASE seed[s] \in [at : {"find"}, zone : Zones, lines : Lines]
  BY <1>4 DEF Idle
<1>5. CASE seed[s] \in [at : {"write"}, zone : Zones, found : RoomIds \cup {None}, lines : Lines]
  BY <1>5 DEF Idle
<1> QED
  BY <1>1, <1>2, <1>3, <1>4, <1>5 DEF Script, Lines

LEMMA RowKinds ==
  ASSUME TypeOK, NEW n \in Names
  PROVE  /\ Exists(n) => account[n] \in Row
         /\ Exists(n) <=> account[n].role \in Roles
BY DEF TypeOK, Exists, NoRow, Row, Roles

\* A script that has its zone's room goes on with typed lines.
LEMMA AdvanceTypes ==
  ASSUME TypeOK, NEW s \in Seeds, seed[s].at = "write", NEW id \in RoomIds, Advance(s, id)
  PROVE  /\ seed' \in [Seeds -> Script \cup {Idle}]
         /\ seed'[s] # Idle /\ seed'[s].at \in {"find", "publish"}
         /\ seed'[s].lines = [seed[s].lines EXCEPT ![seed[s].zone] = id]
         /\ \A t \in Seeds : t # s => seed'[t] = seed[t]
<1> DEFINE zone == seed[s].zone
           lines == [seed[s].lines EXCEPT ![zone] = id]
<1>1. zone \in Zones /\ seed[s].lines \in Lines /\ lines \in Lines
  BY ScriptKinds DEF Idle, Lines
<1> HIDE DEF lines
<1>2. seed' = [seed EXCEPT ![s] =
                 IF zone = ZoneCount THEN [at |-> "publish", lines |-> lines]
                 ELSE [at |-> "find", zone |-> zone + 1, lines |-> lines]]
  BY DEF Advance, Run, lines
<1>3. CASE zone = ZoneCount
  <2>1. [at |-> "publish", lines |-> lines] \in Script
    BY <1>1 DEF Script, Lines
  <2>2. [at |-> "publish", lines |-> lines] # Idle
    BY DEF Idle
  <2> QED
    BY <1>2, <1>3, <2>1, <2>2 DEF TypeOK, lines
<1>4. CASE zone # ZoneCount
  <2>1. zone + 1 \in Zones
    BY <1>1, <1>4, AccountsAssumption DEF Zones
  <2>2. [at |-> "find", zone |-> zone + 1, lines |-> lines] \in Script
    BY <1>1, <2>1 DEF Script, Lines
  <2>3. [at |-> "find", zone |-> zone + 1, lines |-> lines] # Idle
    BY DEF Idle
  <2> QED
    BY <1>2, <1>4, <2>2, <2>3 DEF TypeOK, lines
<1> QED
  BY <1>3, <1>4

-----------------------------------------------------------------------------
(* Types.                                                                  *)

LEMMA TypeInit == Init => TypeOK
<1> SUFFICES ASSUME Init
             PROVE  TypeOK
  OBVIOUS
<1>1. NoLines \in [Zones -> RoomIds \cup {None}]
  BY DEF NoLines
<1> QED
  BY <1>1 DEF Init, TypeOK

LEMMA TypeStep == TypeOK /\ [Next]_vars => TypeOK'
<1> SUFFICES ASSUME TypeOK, [Next]_vars
             PROVE  TypeOK'
  OBVIOUS
<1> USE AccountsAssumption
<1>1. ASSUME NEW r \in Requests, NEW next \in InFlight \cup {Idle}, Go(r, next)
      PROVE  request' \in [Requests -> InFlight \cup {Idle}]
  BY <1>1 DEF Go, TypeOK
<1>2. ASSUME NEW s \in Seeds, NEW next \in Script \cup {Idle}, Run(s, next)
      PROVE  seed' \in [Seeds -> Script \cup {Idle}]
  BY <1>2 DEF Run, TypeOK
<1>3. NoLines \in [Zones -> RoomIds \cup {None}]
  BY DEF NoLines
<1>4. ASSUME NEW i \in RoomIds, NEW zone \in Zones \cup {0}, NEW by \in Names,
             InsertRoom(i, zone, by)
      PROVE  room' \in [RoomIds -> [zone : Zones \cup {0}, by : Names] \cup {NoRoom}]
  BY <1>4 DEF InsertRoom, TypeOK
<1>5. ASSUME NEW r \in Requests, NEW n \in Names, NEW p \in Passwords,
             RegisterFind(r, n, p)
      PROVE  TypeOK'
  <2>1. [at |-> "hash", name |-> n, password |-> p] \in InFlight
    BY DEF InFlight
  <2>2. request' \in [Requests -> InFlight \cup {Idle}]
    BY <1>1, <1>5, <2>1 DEF RegisterFind
  <2> QED
    BY <1>5, <2>2 DEF RegisterFind, TypeOK
<1>6. ASSUME NEW r \in Requests, NEW n \in Names, NEW p \in Passwords,
             LoginRead(r, n, p)
      PROVE  TypeOK'
  <2>1. [at |-> "compare", name |-> n, password |-> p, row |-> account[n]] \in InFlight
    BY <1>6, RowKinds DEF LoginRead, InFlight
  <2>2. request' \in [Requests -> InFlight \cup {Idle}]
    BY <1>1, <1>6, <2>1 DEF LoginRead
  <2> QED
    BY <1>6, <2>2 DEF LoginRead, TypeOK
<1>7. ASSUME NEW r \in Requests, RegisterCreate(r)
      PROVE  TypeOK'
  <2> DEFINE n == request[r].name
  <2>1. n \in Names /\ request[r].password \in Passwords
    BY <1>7, RequestKinds DEF RegisterCreate
  <2>2. NewRow(request[r].password) \in Row
    BY <2>1 DEF NewRow, Row, Roles, Statuses
  <2>3. [at |-> "answered", token |-> [name |-> n, role |-> "USER"]] \in InFlight
    BY <2>1 DEF InFlight, Token, Roles
  <2>4. request' \in [Requests -> InFlight \cup {Idle}]
    BY <1>1, <1>7, <2>3 DEF RegisterCreate
  <2> QED
    BY <1>7, <2>2, <2>4 DEF RegisterCreate, TypeOK
<1>8. ASSUME NEW r \in Requests, LoginSign(r)
      PROVE  TypeOK'
  <2>1. request[r].name \in Names /\ request[r].row.role \in Roles
    BY <1>8, RequestKinds DEF LoginSign, Row
  <2>2. [at |-> "answered",
         token |-> [name |-> request[r].name, role |-> request[r].row.role]] \in InFlight
    BY <2>1 DEF InFlight, Token
  <2>3. request' \in [Requests -> InFlight \cup {Idle}]
    BY <1>1, <1>8, <2>2 DEF LoginSign
  <2> QED
    BY <1>8, <2>3 DEF LoginSign, TypeOK
<1>9. ASSUME NEW r \in Requests, Receive(r)
      PROVE  TypeOK'
  <2>1. request[r].token \in Token
    BY <1>9, RequestKinds DEF Receive
  <2>2. request' \in [Requests -> InFlight \cup {Idle}]
    BY <1>1, <1>9 DEF Receive
  <2> QED
    BY <1>9, <2>1, <2>2 DEF Receive, TypeOK
<1>10. ASSUME NEW r \in Requests, Fail(r)
       PROVE  TypeOK'
  <2>1. request' \in [Requests -> InFlight \cup {Idle}]
    BY <1>1, <1>10 DEF Fail
  <2> QED
    BY <1>10, <2>1 DEF Fail, TypeOK
<1>11. ASSUME NEW t \in Token, Expire(t)
       PROVE  TypeOK'
  BY <1>11 DEF Expire, TypeOK
<1>12. ASSUME NEW t \in Token, NEW status \in Statuses, UpdateMe(t, status)
       PROVE  TypeOK'
  <2>1. t.name \in Names
    BY DEF Token
  <2>2. account' = [account EXCEPT ![t.name].status = status]
    BY <1>12 DEF UpdateMe, WriteProfile
  <2>3. [account[t.name] EXCEPT !.status = status] \in Row \cup {NoRow}
    BY <2>1 DEF TypeOK, Row, NoRow
  <2>4. account' \in [Names -> Row \cup {NoRow}]
    BY <2>1, <2>2, <2>3 DEF TypeOK
  <2> QED
    BY <1>12, <2>4 DEF UpdateMe, TypeOK
<1>13. ASSUME NEW t \in Token, NEW i \in RoomIds, NEW zone \in Zones \cup {0},
              CreateRoom(t, i, zone)
       PROVE  TypeOK'
  BY <1>4, <1>13 DEF CreateRoom, TypeOK, Token
<1>14. ASSUME NEW s \in Seeds, SeedStart(s)
       PROVE  TypeOK'
  <2>1. [at |-> "admin", lines |-> NoLines] \in Script
    BY <1>3 DEF Script
  <2>2. seed' \in [Seeds -> Script \cup {Idle}]
    BY <1>2, <1>14, <2>1 DEF SeedStart
  <2> QED
    BY <1>14, <2>2 DEF SeedStart, TypeOK
<1>15. ASSUME NEW s \in Seeds, SeedAdmin(s)
       PROVE  TypeOK'
  <2>1. [at |-> "find", zone |-> 1, lines |-> NoLines] \in Script
    BY <1>3 DEF Script, Zones
  <2>2. seed' \in [Seeds -> Script \cup {Idle}]
    BY <1>2, <1>15, <2>1 DEF SeedAdmin
  <2>3. [NewRow(SeedPassword) EXCEPT !.role = "ADMIN"] \in Row
    BY DEF NewRow, Row, Roles, Statuses
  <2>4. Exists(Admin) =>
          [account[Admin] EXCEPT !.role = "ADMIN", !.password = SeedPassword] \in Row
    BY RowKinds DEF Row, Roles
  <2>5. account' \in [Names -> Row \cup {NoRow}]
    BY <1>15, <2>3, <2>4 DEF SeedAdmin, TypeOK
  <2> QED
    BY <1>15, <2>2, <2>5 DEF SeedAdmin, TypeOK
<1>16. ASSUME NEW s \in Seeds, SeedFind(s)
       PROVE  TypeOK'
  <2>1. PICK found \in RoomIds \cup {None} :
          Run(s, [at |-> "write", zone |-> seed[s].zone, found |-> found,
                  lines |-> seed[s].lines])
    BY <1>16 DEF SeedFind, Named
  <2>2. seed[s].zone \in Zones /\ seed[s].lines \in Lines
    BY <1>16, ScriptKinds DEF SeedFind
  <2>3. [at |-> "write", zone |-> seed[s].zone, found |-> found, lines |-> seed[s].lines]
          \in Script
    BY <2>2 DEF Script, Lines
  <2>4. seed' \in [Seeds -> Script \cup {Idle}]
    BY <1>2, <2>1, <2>3
  <2> QED
    BY <1>16, <2>4 DEF SeedFind, TypeOK
<1>17. ASSUME NEW s \in Seeds, SeedUpdate(s)
       PROVE  TypeOK'
  <2>1. seed[s].at = "write" /\ seed[s].found \in RoomIds /\ Advance(s, seed[s].found)
    BY <1>17, ScriptKinds DEF SeedUpdate
  <2> QED
    BY <1>17, <2>1, AdvanceTypes DEF SeedUpdate, TypeOK
<1>18. ASSUME NEW s \in Seeds, NEW i \in RoomIds, SeedCreate(s, i)
       PROVE  TypeOK'
  <2>1. seed[s].zone \in Zones /\ Admin \in Names
    BY <1>18, ScriptKinds DEF SeedCreate
  <2>2. room' \in [RoomIds -> [zone : Zones \cup {0}, by : Names] \cup {NoRoom}]
    BY <1>4, <1>18, <2>1 DEF SeedCreate
  <2>3. seed' \in [Seeds -> Script \cup {Idle}]
    BY <1>18, AdvanceTypes DEF SeedCreate
  <2> QED
    BY <1>18, <2>2, <2>3 DEF SeedCreate, TypeOK
<1>19. ASSUME NEW s \in Seeds, SeedPublish(s)
       PROVE  TypeOK'
  <2>1. seed[s].lines \in [Zones -> RoomIds \cup {None}]
    BY <1>19, ScriptKinds DEF SeedPublish, Lines
  <2>2. seed' \in [Seeds -> Script \cup {Idle}]
    BY <1>2, <1>19 DEF SeedPublish
  <2> QED
    BY <1>19, <2>1, <2>2 DEF SeedPublish, TypeOK
<1>20. ASSUME NEW s \in Seeds, SeedFail(s)
       PROVE  TypeOK'
  <2>1. seed' \in [Seeds -> Script \cup {Idle}]
    BY <1>2, <1>20 DEF SeedFail
  <2> QED
    BY <1>20, <2>1 DEF SeedFail, TypeOK
<1>21. CASE UNCHANGED vars
  BY <1>21 DEF vars, TypeOK
<1> QED
  BY <1>5, <1>6, <1>7, <1>8, <1>9, <1>10, <1>11, <1>12, <1>13, <1>14, <1>15, <1>16,
     <1>17, <1>18, <1>19, <1>20, <1>21 DEF Next

\* Every variable keeps its type, however requests and scripts interleave.
THEOREM TypeCorrect == Spec => []TypeOK
BY TypeInit, TypeStep, PTL DEF Spec

-----------------------------------------------------------------------------
(* Roles.  What is remembered of a row's role stays true of the row.       *)

\* A name and a role that were read together, or signed into a token.
Granted(name, role) == Exists(name) /\ (role = "ADMIN" => account[name].role = "ADMIN")

TokensKept == \A t \in tokens : Granted(t.name, t.role)
RequestKept(r) ==
  /\ request[r].at = "compare" => Granted(request[r].name, request[r].row.role)
  /\ request[r].at = "answered" => Granted(request[r].token.name, request[r].token.role)
RoomsKept == \A i \in RoomIds : room[i] # NoRoom => account[room[i].by].role = "ADMIN"
ScriptKept(s) ==
  seed[s].at \in {"find", "write", "publish"} => account[Admin].role = "ADMIN"

RolesKept ==
  /\ TokensKept /\ RoomsKept
  /\ \A r \in Requests : RequestKept(r)
  /\ \A s \in Seeds : ScriptKept(s)

\* No step takes a row or a role away.
LEMMA RolesOnlyRise ==
  ASSUME TypeOK, [Next]_vars, NEW n \in Names
  PROVE  /\ Exists(n) => Exists(n)'
         /\ account[n].role = "ADMIN" => account'[n].role = "ADMIN"
<1> USE AccountsAssumption
<1>1. ASSUME NEW r \in Requests, RegisterCreate(r)
      PROVE  (Exists(n) => Exists(n)') /\ (account[n].role = "ADMIN" => account'[n].role = "ADMIN")
  <2>1. account' = [account EXCEPT ![request[r].name] = NewRow(request[r].password)]
        /\ ~Exists(request[r].name)
    BY <1>1 DEF RegisterCreate
  <2>2. CASE n = request[r].name
    BY <2>1, <2>2 DEF Exists, NoRow
  <2>3. CASE n # request[r].name
    BY <2>1, <2>3 DEF Exists, TypeOK
  <2> QED
    BY <2>2, <2>3
<1>2. ASSUME NEW t \in Token, NEW status \in Statuses, UpdateMe(t, status)
      PROVE  (Exists(n) => Exists(n)') /\ (account[n].role = "ADMIN" => account'[n].role = "ADMIN")
  <2>1. account' = [account EXCEPT ![t.name].status = status]
    BY <1>2 DEF UpdateMe, WriteProfile
  <2>2. n # t.name => account'[n] = account[n]
    BY <2>1 DEF TypeOK
  <2>3. n = t.name => account'[n] = [account[n] EXCEPT !.status = status]
    BY <2>1 DEF TypeOK
  <2>4. Exists(n) => account[n] \in Row
    BY RowKinds
  <2>5. Exists(n) => Exists(n)' /\ account'[n].role = account[n].role
    BY <2>2, <2>3, <2>4 DEF Exists, Row, NoRow, Roles
  <2> QED
    BY <2>5 DEF Exists, NoRow
<1>3. ASSUME NEW s \in Seeds, SeedAdmin(s)
      PROVE  (Exists(n) => Exists(n)') /\ (account[n].role = "ADMIN" => account'[n].role = "ADMIN")
  <2>1. account' = [account EXCEPT ![Admin] =
          IF Exists(Admin) THEN [@ EXCEPT !.role = "ADMIN", !.password = SeedPassword]
          ELSE [NewRow(SeedPassword) EXCEPT !.role = "ADMIN"]]
    BY <1>3 DEF SeedAdmin
  <2>2. CASE n # Admin
    BY <2>1, <2>2 DEF Exists, TypeOK
  <2>3. CASE n = Admin
    <3>1. account'[n].role = "ADMIN"
      BY <2>1, <2>3, RowKinds DEF TypeOK, NewRow, Row
    <3> QED
      BY <3>1 DEF Exists, NoRow
  <2> QED
    BY <2>2, <2>3
<1>4. CASE account' = account
  BY <1>4 DEF Exists
<1>5. CASE \E r \in Requests :
             \/ \E m \in Names, p \in Passwords : RegisterFind(r, m, p) \/ LoginRead(r, m, p)
             \/ LoginSign(r) \/ Receive(r) \/ Fail(r)
  BY <1>4, <1>5 DEF RegisterFind, LoginRead, LoginSign, Receive, Fail
<1>6. CASE \E t \in Token :
             Expire(t) \/ \E i \in RoomIds, zone \in Zones \cup {0} : CreateRoom(t, i, zone)
  BY <1>4, <1>6 DEF Expire, CreateRoom
<1>7. CASE \E s \in Seeds :
             \/ SeedStart(s) \/ SeedFind(s) \/ SeedUpdate(s) \/ SeedPublish(s) \/ SeedFail(s)
             \/ \E i \in RoomIds : SeedCreate(s, i)
  BY <1>4, <1>7 DEF SeedStart, SeedFind, SeedUpdate, SeedPublish, SeedFail, SeedCreate
<1>8. CASE UNCHANGED vars
  BY <1>4, <1>8 DEF vars
<1> QED
  BY <1>1, <1>2, <1>3, <1>5, <1>6, <1>7, <1>8 DEF Next

LEMMA RolesInit == Init => RolesKept
BY DEF Init, RolesKept, TokensKept, RoomsKept, RequestKept, ScriptKept, Idle

LEMMA RolesStep == TypeOK /\ RolesKept /\ [Next]_vars => RolesKept'
<1> SUFFICES ASSUME TypeOK, RolesKept, [Next]_vars
             PROVE  RolesKept'
  OBVIOUS
<1> USE AccountsAssumption
<1>1. \A n \in Names : /\ Exists(n) => Exists(n)'
                       /\ account[n].role = "ADMIN" => account'[n].role = "ADMIN"
  BY RolesOnlyRise
<1>2. \A n \in Names : \A role : Granted(n, role) => Granted(n, role)'
  BY <1>1 DEF Granted
<1>3. ASSUME tokens' \subseteq tokens
      PROVE  TokensKept'
  BY <1>2, <1>3 DEF RolesKept, TokensKept, TypeOK, Token
<1>4. ASSUME NEW r \in Requests, request'[r] = request[r]
      PROVE  RequestKept(r)'
  <2>1. request[r].at = "compare" => request[r].name \in Names
    BY RequestKinds
  <2>2. request[r].at = "answered" => request[r].token.name \in Names
    BY RequestKinds DEF Token
  <2> QED
    BY <1>2, <1>4, <2>1, <2>2 DEF RolesKept, RequestKept
<1>5. ASSUME NEW r \in Requests, NEW next, Go(r, next), RequestKept(r)'
      PROVE  \A q \in Requests : RequestKept(q)'
  <2> SUFFICES ASSUME NEW q \in Requests, q # r
               PROVE  RequestKept(q)'
    BY <1>5
  <2>1. request'[q] = request[q]
    BY <1>5 DEF Go, TypeOK
  <2> QED
    BY <1>4, <2>1
<1>6. ASSUME request' = request
      PROVE  \A r \in Requests : RequestKept(r)'
  BY <1>4, <1>6
<1>7. ASSUME room' = room
      PROVE  RoomsKept'
  BY <1>1, <1>7 DEF RolesKept, RoomsKept, TypeOK
<1>8. ASSUME NEW i \in RoomIds, NEW zone, NEW by \in Names, InsertRoom(i, zone, by),
             account'[by].role = "ADMIN"
      PROVE  RoomsKept'
  BY <1>1, <1>8 DEF RolesKept, RoomsKept, InsertRoom, TypeOK
<1>9. ASSUME account'[Admin].role = "ADMIN" \/ \A s \in Seeds : seed'[s].at \in {"find", "write", "publish"} =>
                                               seed[s].at \in {"find", "write", "publish"}
      PROVE  \A s \in Seeds : ScriptKept(s)'
  BY <1>1, <1>9 DEF RolesKept, ScriptKept
<1>10. ASSUME NEW r \in Requests, NEW n \in Names, NEW p \in Passwords, RegisterFind(r, n, p)
       PROVE  RolesKept'
  <2>1. request'[r].at = "hash"
    BY <1>10 DEF RegisterFind, Go, TypeOK
  <2> QED
    BY <1>3, <1>5, <1>7, <1>9, <1>10, <2>1 DEF RegisterFind, RolesKept, RequestKept
<1>11. ASSUME NEW r \in Requests, NEW n \in Names, NEW p \in Passwords, LoginRead(r, n, p)
       PROVE  RolesKept'
  <2>1. request'[r] = [at |-> "compare", name |-> n, password |-> p, row |-> account[n]]
    BY <1>11 DEF LoginRead, Go, TypeOK
  <2>2. RequestKept(r)'
    BY <1>1, <1>11, <2>1 DEF LoginRead, RequestKept, Granted
  <2> QED
    BY <1>3, <1>5, <1>7, <1>9, <1>11, <2>2 DEF LoginRead, RolesKept
<1>12. ASSUME NEW r \in Requests, RegisterCreate(r)
       PROVE  RolesKept'
  <2>1. PICK n \in Names : n = request[r].name
    BY <1>12, RequestKinds DEF RegisterCreate
  <2>2. request'[r] = [at |-> "answered", token |-> [name |-> n, role |-> "USER"]]
    BY <1>12, <2>1 DEF RegisterCreate, Go, TypeOK
  <2>3. Exists(n)'
    BY <1>12, <2>1 DEF RegisterCreate, Exists, NewRow, NoRow, TypeOK
  <2>4. RequestKept(r)'
    BY <2>2, <2>3 DEF RequestKept, Granted
  <2> QED
    BY <1>3, <1>5, <1>7, <1>9, <1>12, <2>4 DEF RegisterCreate, RolesKept
<1>13. ASSUME NEW r \in Requests, LoginSign(r)
       PROVE  RolesKept'
  <2>1. request'[r] = [at |-> "answered",
                       token |-> [name |-> request[r].name, role |-> request[r].row.role]]
    BY <1>13 DEF LoginSign, Go, TypeOK
  <2>2. request[r].name \in Names /\ Granted(request[r].name, request[r].row.role)
    BY <1>13, RequestKinds DEF LoginSign, RolesKept, RequestKept
  <2>3. RequestKept(r)'
    BY <1>2, <2>1, <2>2 DEF RequestKept
  <2> QED
    BY <1>3, <1>5, <1>7, <1>9, <1>13, <2>3 DEF LoginSign, RolesKept
<1>14. ASSUME NEW r \in Requests, Receive(r)
       PROVE  RolesKept'
  <2>1. request'[r].at = "idle"
    BY <1>14 DEF Receive, Go, Idle, TypeOK
  <2>2. request[r].token.name \in Names /\ Granted(request[r].token.name, request[r].token.role)
    BY <1>14, RequestKinds DEF Receive, RolesKept, RequestKept, Token
  <2>3. TokensKept'
    BY <1>2, <1>14, <2>2 DEF Receive, RolesKept, TokensKept, TypeOK, Token
  <2> QED
    BY <1>5, <1>7, <1>9, <1>14, <2>1, <2>3 DEF Receive, RolesKept, RequestKept
<1>15. ASSUME NEW r \in Requests, Fail(r)
       PROVE  RolesKept'
  <2>1. request'[r].at = "idle"
    BY <1>15 DEF Fail, Go, Idle, TypeOK
  <2> QED
    BY <1>3, <1>5, <1>7, <1>9, <1>15, <2>1 DEF Fail, RolesKept, RequestKept
<1>16. ASSUME NEW t \in Token, Expire(t)
       PROVE  RolesKept'
  BY <1>3, <1>6, <1>7, <1>9, <1>16 DEF Expire, RolesKept
<1>17. ASSUME NEW t \in Token, NEW status \in Statuses, UpdateMe(t, status)
       PROVE  RolesKept'
  BY <1>3, <1>6, <1>7, <1>9, <1>17 DEF UpdateMe, RolesKept
<1>18. ASSUME NEW t \in Token, NEW i \in RoomIds, NEW zone \in Zones \cup {0},
              CreateRoom(t, i, zone)
       PROVE  RolesKept'
  <2>1. t.name \in Names /\ account'[t.name].role = "ADMIN" /\ InsertRoom(i, zone, t.name)
    BY <1>1, <1>18 DEF CreateRoom, Authenticated, Allowed, RolesKept, TokensKept, Granted, Token
  <2> QED
    BY <1>3, <1>6, <1>8, <1>9, <1>18, <2>1 DEF CreateRoom, RolesKept
<1>19. ASSUME NEW s \in Seeds, SeedStart(s)
       PROVE  RolesKept'
  BY <1>3, <1>6, <1>7, <1>9, <1>19 DEF SeedStart, Run, RolesKept, TypeOK
<1>20. ASSUME NEW s \in Seeds, SeedAdmin(s)
       PROVE  RolesKept'
  <2>1. account'[Admin].role = "ADMIN"
    BY <1>20, RowKinds DEF SeedAdmin, NewRow, Row, TypeOK
  <2> QED
    BY <1>3, <1>6, <1>7, <1>9, <1>20, <2>1 DEF SeedAdmin, RolesKept
<1>21. ASSUME NEW s \in Seeds, seed[s].at \in {"find", "write", "publish"}
       PROVE  account'[Admin].role = "ADMIN"
  BY <1>1, <1>21 DEF RolesKept, ScriptKept
<1>22. ASSUME NEW s \in Seeds, SeedFind(s) \/ SeedUpdate(s) \/ SeedPublish(s)
       PROVE  RolesKept'
  BY <1>3, <1>6, <1>7, <1>9, <1>21, <1>22 DEF SeedFind, SeedUpdate, SeedPublish, RolesKept
<1>23. ASSUME NEW s \in Seeds, NEW i \in RoomIds, SeedCreate(s, i)
       PROVE  RolesKept'
  BY <1>3, <1>6, <1>8, <1>9, <1>21, <1>23 DEF SeedCreate, RolesKept
<1>24. ASSUME NEW s \in Seeds, SeedFail(s)
       PROVE  RolesKept'
  BY <1>3, <1>6, <1>7, <1>9, <1>24 DEF SeedFail, Run, Idle, RolesKept, TypeOK
<1>25. CASE UNCHANGED vars
  BY <1>3, <1>6, <1>7, <1>9, <1>25 DEF vars, RolesKept
<1> QED
  BY <1>10, <1>11, <1>12, <1>13, <1>14, <1>15, <1>16, <1>17, <1>18, <1>19, <1>20,
     <1>22, <1>23, <1>24, <1>25 DEF Next

LEMMA RolesInductive == Spec => [](TypeOK /\ RolesKept)
BY TypeInit, TypeStep, RolesInit, RolesStep, PTL DEF Spec

\* Whoever holds an admin's token is an admin, and only admins have created rooms,
\* although a token's role is never read again: no operation lowers a role.
THEOREM AdminsOnlyAlways == Spec => []AdminsOnly
<1>1. RolesKept => AdminsOnly
  BY DEF RolesKept, TokensKept, RoomsKept, Granted, AdminsOnly
<1> QED
  BY <1>1, RolesInductive, PTL

-----------------------------------------------------------------------------
(* Passwords.  The row a login has read is still the account's.            *)

PasswordsKept ==
  "reseed" \notin env =>
    \A r \in Requests : request[r].at = "compare" =>
      account[request[r].name].password = request[r].row.password

LEMMA PasswordsStep == TypeOK /\ RolesKept /\ PasswordsKept /\ [Next]_vars => PasswordsKept'
<1> SUFFICES ASSUME TypeOK, RolesKept, PasswordsKept, [Next]_vars, "reseed" \notin env',
                    NEW q \in Requests, request'[q].at = "compare"
             PROVE  account'[request'[q].name].password = request'[q].row.password
  BY DEF PasswordsKept
<1> USE AccountsAssumption
<1>0. env' = env
  BY DEF Next, vars, RegisterFind, RegisterCreate, LoginRead, LoginSign, Receive, Fail,
         Expire, UpdateMe, CreateRoom, SeedStart, SeedAdmin, SeedFind, SeedUpdate,
         SeedCreate, SeedPublish, SeedFail
<1> DEFINE Goal == account'[request'[q].name].password = request'[q].row.password
\* A login that was there before.
<1>1. ASSUME request[q].at = "compare"
      PROVE  /\ request[q].name \in Names /\ Exists(request[q].name)
             /\ account[request[q].name] \in Row
             /\ account[request[q].name].password = request[q].row.password
  BY <1>0, <1>1, RequestKinds, RowKinds DEF RolesKept, RequestKept, Granted, PasswordsKept
<1>2. ASSUME request'[q] = request[q], account' = account
      PROVE  Goal
  BY <1>1, <1>2
<1>3. ASSUME NEW r \in Requests, NEW next, Go(r, next), next.at # "compare", account' = account
      PROVE  Goal
  BY <1>1, <1>3 DEF Go, TypeOK
<1>4. ASSUME NEW r \in Requests, NEW n \in Names, NEW p \in Passwords,
             RegisterFind(r, n, p) \/ LoginSign(r) \/ Receive(r) \/ Fail(r)
      PROVE  Goal
  BY <1>3, <1>4 DEF RegisterFind, LoginSign, Receive, Fail, Idle
<1>5. ASSUME NEW r \in Requests, RegisterCreate(r)
      PROVE  Goal
  <2>1. request'[q] = request[q]
    BY <1>5 DEF RegisterCreate, Go, TypeOK
  <2>2. request[q].name # request[r].name
    BY <1>1, <1>5, <2>1 DEF RegisterCreate
  <2>3. account'[request[q].name] = account[request[q].name]
    BY <1>1, <1>5, <2>1, <2>2 DEF RegisterCreate, TypeOK
  <2> QED
    BY <1>1, <2>1, <2>3
<1>6. ASSUME NEW r \in Requests, NEW n \in Names, NEW p \in Passwords, LoginRead(r, n, p)
      PROVE  Goal
  <2>1. CASE q = r
    BY <1>6, <2>1 DEF LoginRead, Go, TypeOK
  <2>2. CASE q # r
    BY <1>2, <1>6, <2>2 DEF LoginRead, Go, TypeOK
  <2> QED
    BY <2>1, <2>2
<1>7. ASSUME NEW t \in Token, NEW status \in Statuses, UpdateMe(t, status)
      PROVE  Goal
  <2>1. request'[q] = request[q] /\ account' = [account EXCEPT ![t.name].status = status]
    BY <1>7 DEF UpdateMe, WriteProfile
  <2>2. \/ account'[request[q].name] = account[request[q].name]
        \/ account'[request[q].name] = [account[request[q].name] EXCEPT !.status = status]
    BY <1>1, <2>1 DEF TypeOK
  <2>3. account'[request[q].name].password = account[request[q].name].password
    BY <1>1, <2>1, <2>2 DEF Row
  <2> QED
    BY <1>1, <2>1, <2>3
<1>8. ASSUME NEW t \in Token,
             Expire(t) \/ \E i \in RoomIds, zone \in Zones \cup {0} : CreateRoom(t, i, zone)
      PROVE  Goal
  BY <1>2, <1>8 DEF Expire, CreateRoom
<1>9. ASSUME NEW s \in Seeds, SeedAdmin(s)
      PROVE  Goal
  <2>1. request'[q] = request[q] /\ request[q].name # Admin
    BY <1>0, <1>9 DEF SeedAdmin
  <2>2. account'[request[q].name] = account[request[q].name]
    BY <1>1, <1>9, <2>1 DEF SeedAdmin, TypeOK
  <2> QED
    BY <1>1, <2>1, <2>2
<1>10. ASSUME NEW s \in Seeds,
              \/ SeedStart(s) \/ SeedFind(s) \/ SeedUpdate(s) \/ SeedPublish(s) \/ SeedFail(s)
              \/ \E i \in RoomIds : SeedCreate(s, i)
       PROVE  Goal
  BY <1>2, <1>10 DEF SeedStart, SeedFind, SeedUpdate, SeedPublish, SeedFail, SeedCreate
<1>11. CASE UNCHANGED vars
  BY <1>2, <1>11 DEF vars
<1> QED
  BY <1>4, <1>5, <1>6, <1>7, <1>8, <1>9, <1>10, <1>11 DEF Next

LEMMA PasswordsInductive == Spec => [](TypeOK /\ RolesKept /\ PasswordsKept)
<1>1. Init => PasswordsKept
  BY DEF Init, PasswordsKept, Idle
<1> QED
  BY <1>1, PasswordsStep, RolesInductive, PTL DEF Spec

\* What LoginCurrent asks of a step.
SignsCurrent ==
  \A r \in Requests :
    request[r].at = "compare" /\ request'[r].at = "answered" /\ "reseed" \notin env =>
      account[request[r].name].password = request[r].password

\* A login is answered with a token only for the password the account has at that
\* moment: of all operations only the seed replaces a password.
THEOREM LoginCurrentAlways == Spec => LoginCurrent
<1>1. TypeOK /\ RolesKept /\ PasswordsKept /\ [Next]_vars => [SignsCurrent]_vars
  <2> SUFFICES ASSUME TypeOK, PasswordsKept, Next, NEW q \in Requests,
                      request[q].at = "compare", request'[q].at = "answered",
                      "reseed" \notin env
               PROVE  account[request[q].name].password = request[q].password
    BY DEF SignsCurrent
  <2>1. account[request[q].name].password = request[q].row.password
    BY DEF PasswordsKept
  <2>2. ASSUME NEW r \in Requests, NEW next, Go(r, next), next.at # "answered" \/ r # q
        PROVE  FALSE
    BY <2>2 DEF Go, TypeOK
  <2>3. CASE request' = request
    BY <2>3
  <2>4. CASE \E r \in Requests :
               \/ \E n \in Names, p \in Passwords : RegisterFind(r, n, p) \/ LoginRead(r, n, p)
               \/ RegisterCreate(r) \/ Receive(r) \/ Fail(r)
    BY <2>2, <2>4 DEF RegisterFind, LoginRead, RegisterCreate, Receive, Fail, Idle
  <2>5. ASSUME NEW r \in Requests, LoginSign(r)
        PROVE  account[request[q].name].password = request[q].password
    BY <2>1, <2>2, <2>5 DEF LoginSign
  <2> QED
    BY <2>3, <2>4, <2>5
       DEF Next, Expire, UpdateMe, CreateRoom, SeedStart, SeedAdmin, SeedFind, SeedUpdate,
           SeedCreate, SeedPublish, SeedFail
<1> QED
  BY <1>1, PasswordsInductive, PTL DEF Spec, LoginCurrent, SignsCurrent

-----------------------------------------------------------------------------
(* Zones.  One script at a time: what it has found or not found is so.     *)

Single == env \cap {"overlap", "homonym"} = {}

\* Every id on a list of lines is the room of its zone.
Right(lines) == \A z \in Zones : lines[z] # None => lines[z] \in Named(z)

ScriptRight(s) ==
  /\ seed[s] # Idle => Right(seed[s].lines)
  /\ seed[s].at = "write" =>
       IF seed[s].found = None THEN Named(seed[s].zone) = {}
       ELSE seed[s].found \in Named(seed[s].zone)

ZonesInv ==
  Single =>
    /\ \A z \in Zones : \A i, j \in Named(z) : i = j
    /\ Right(published)
    /\ \A s \in Seeds : ScriptRight(s)
    /\ \A s, t \in Seeds : seed[s] # Idle /\ seed[t] # Idle => s = t

LEMMA NoneIsNoRoomId == None \notin RoomIds
BY AccountsAssumption

\* A script that has its zone's room goes on with right lines.
LEMMA AdvanceRight ==
  ASSUME TypeOK, NEW s \in Seeds, NEW zone, seed[s].at = "write", seed[s].zone = zone,
         NEW id \in RoomIds, Advance(s, id), ScriptRight(s),
         \A z \in Zones : Named(z) \subseteq Named(z)', id \in Named(zone)'
  PROVE  ScriptRight(s)'
<1>1. zone \in Zones /\ seed[s].lines \in Lines /\ seed[s] # Idle
  BY ScriptKinds DEF Idle
<1>2. /\ seed'[s].at \in {"find", "publish"}
      /\ seed'[s].lines = [seed[s].lines EXCEPT ![zone] = id]
  BY AdvanceTypes
<1>3. ASSUME NEW z \in Zones, seed'[s].lines[z] # None
      PROVE  seed'[s].lines[z] \in Named(z)'
  <2>1. CASE z = zone
    BY <1>1, <1>2, <2>1 DEF Lines
  <2>2. CASE z # zone
    BY <1>1, <1>2, <1>3, <2>2 DEF ScriptRight, Right, Lines
  <2> QED
    BY <2>1, <2>2
<1> QED
  BY <1>2, <1>3 DEF ScriptRight, Right

LEMMA ZonesStep == TypeOK /\ ZonesInv /\ [Next]_vars => ZonesInv'
<1> SUFFICES ASSUME TypeOK, ZonesInv, [Next]_vars, Single'
             PROVE  ZonesInv'
  BY DEF ZonesInv
<1> USE AccountsAssumption
<1>0. env' = env /\ Single
  BY DEF Next, vars, RegisterFind, RegisterCreate, LoginRead, LoginSign, Receive, Fail,
         Expire, UpdateMe, CreateRoom, SeedStart, SeedAdmin, SeedFind, SeedUpdate,
         SeedCreate, SeedPublish, SeedFail, Single
<1>i. /\ \A z \in Zones : \A i, j \in Named(z) : i = j
      /\ Right(published)
      /\ \A s \in Seeds : ScriptRight(s)
      /\ \A s, t \in Seeds : seed[s] # Idle /\ seed[t] # Idle => s = t
  BY <1>0 DEF ZonesInv
\* A step that adds no room to a zone.
<1>1. ASSUME \A z \in Zones : Named(z)' = Named(z), published' = published \/ Right(published'),
             \A s \in Seeds : seed'[s] = seed[s] \/ ScriptRight(s)',
             \A s, t \in Seeds : seed'[s] # Idle /\ seed'[t] # Idle => s = t
      PROVE  ZonesInv'
  <2>1. Right(published)'
    BY <1>1, <1>i DEF Right
  <2>2. ASSUME NEW s \in Seeds
        PROVE  ScriptRight(s)'
    <3>1. seed[s].at = "write" => seed[s].zone \in Zones
      BY ScriptKinds
    <3> QED
      BY <1>1, <1>i, <3>1 DEF ScriptRight, Right
  <2> QED
    BY <1>1, <1>i, <2>1, <2>2 DEF ZonesInv
<1>2. \A z : room' = room => Named(z)' = Named(z)
  BY DEF Named
<1>3. ASSUME UNCHANGED <<room, seed, published>>
      PROVE  ZonesInv'
  BY <1>1, <1>2, <1>3, <1>i
<1>4. ASSUME NEW t \in Token, NEW i \in RoomIds, NEW zone \in Zones \cup {0},
             CreateRoom(t, i, zone)
      PROVE  ZonesInv'
  <2>1. room[i] = NoRoom /\ room' = [room EXCEPT ![i] = [zone |-> 0, by |-> t.name]]
    BY <1>0, <1>4 DEF CreateRoom, InsertRoom, Single
  <2>2. \A z \in Zones : Named(z)' = Named(z)
    BY <2>1 DEF Named, NoRoom, Zones, TypeOK
  <2> QED
    BY <1>1, <1>4, <1>i, <2>2 DEF CreateRoom
<1>5. ASSUME NEW s \in Seeds, SeedStart(s)
      PROVE  ZonesInv'
  <2>1. /\ \A t \in Seeds : seed[t] = Idle
        /\ seed' = [seed EXCEPT ![s] = [at |-> "admin", lines |-> NoLines]]
        /\ UNCHANGED <<room, published>>
    BY <1>0, <1>5 DEF SeedStart, Run, Single
  <2>2. seed'[s] = [at |-> "admin", lines |-> NoLines]
    BY <2>1 DEF TypeOK
  <2>3. ScriptRight(s)'
    BY <2>2 DEF ScriptRight, Right, NoLines
  <2> QED
    BY <1>1, <1>2, <2>1, <2>3 DEF TypeOK
\* A step of a running script, which stays the only one.
<1>6. ASSUME NEW s \in Seeds, seed[s] # Idle, \A t \in Seeds : t # s => seed'[t] = seed[t]
      PROVE  \A t, q \in Seeds : seed'[t] # Idle /\ seed'[q] # Idle => t = q
  BY <1>6, <1>i
<1>7. ASSUME NEW s \in Seeds, SeedAdmin(s)
      PROVE  ZonesInv'
  <2>1. /\ seed' = [seed EXCEPT ![s] = [at |-> "find", zone |-> 1, lines |-> NoLines]]
        /\ UNCHANGED <<room, published>> /\ seed[s] # Idle
    BY <1>7 DEF SeedAdmin, Run, Idle
  <2>2. seed'[s] = [at |-> "find", zone |-> 1, lines |-> NoLines]
        /\ \A t \in Seeds : t # s => seed'[t] = seed[t]
    BY <2>1 DEF TypeOK
  <2>3. ScriptRight(s)'
    BY <2>2 DEF ScriptRight, Right, NoLines
  <2> QED
    BY <1>1, <1>2, <1>6, <2>1, <2>2, <2>3
<1>8. ASSUME NEW s \in Seeds, SeedFind(s)
      PROVE  ZonesInv'
  <2>1. PICK found \in (IF Named(seed[s].zone) = {} THEN {None} ELSE Named(seed[s].zone)) :
          seed' = [seed EXCEPT ![s] = [at |-> "write", zone |-> seed[s].zone,
                                       found |-> found, lines |-> seed[s].lines]]
    BY <1>8 DEF SeedFind, Run
  <2>2. UNCHANGED <<room, published>> /\ seed[s] # Idle /\ seed[s].zone \in Zones
    BY <1>8, ScriptKinds DEF SeedFind, Idle
  <2>3. /\ seed'[s] = [at |-> "write", zone |-> seed[s].zone, found |-> found,
                       lines |-> seed[s].lines]
        /\ \A t \in Seeds : t # s => seed'[t] = seed[t]
    BY <2>1 DEF TypeOK
  <2>4. found = None <=> Named(seed[s].zone) = {}
    BY NoneIsNoRoomId DEF Named
  <2>5. ScriptRight(s)'
    BY <1>2, <1>i, <2>2, <2>3, <2>4 DEF ScriptRight, Right
  <2> QED
    BY <1>1, <1>2, <1>6, <2>2, <2>3, <2>5
<1>9. ASSUME NEW s \in Seeds, SeedUpdate(s)
      PROVE  ZonesInv'
  <2>1. /\ seed[s].at = "write" /\ seed[s].found \in RoomIds /\ seed[s] # Idle
        /\ Advance(s, seed[s].found) /\ UNCHANGED <<room, published>>
    BY <1>9, ScriptKinds DEF SeedUpdate, Idle
  <2>2. PICK zone \in Zones : zone = seed[s].zone
    BY <2>1, ScriptKinds
  <2>3. ScriptRight(s)'
    <3>1. seed[s].found \in Named(zone) /\ ScriptRight(s)
      BY <1>9, <1>i, <2>1, <2>2 DEF ScriptRight, SeedUpdate
    <3>2. Named(zone)' = Named(zone) /\ \A z \in Zones : Named(z)' = Named(z)
      BY <1>2, <2>1
    <3>3. PICK id \in RoomIds : id = seed[s].found
      BY <2>1
    <3>4. Advance(s, id) /\ id \in Named(zone)'
      BY <2>1, <3>1, <3>2, <3>3
    <3> QED
      BY <2>1, <2>2, <3>1, <3>2, <3>4, AdvanceRight
  <2>4. \A t \in Seeds : t # s => seed'[t] = seed[t]
    BY <2>1, AdvanceTypes
  <2> QED
    BY <1>1, <1>2, <1>6, <2>1, <2>3, <2>4
<1>10. ASSUME NEW s \in Seeds, NEW i \in RoomIds, SeedCreate(s, i)
       PROVE  ZonesInv'
  <2>0. PICK zone \in Zones : zone = seed[s].zone
    BY <1>10, ScriptKinds DEF SeedCreate
  <2>1. /\ seed[s].at = "write" /\ seed[s].found = None /\ seed[s] # Idle
        /\ Advance(s, i) /\ UNCHANGED published
        /\ room[i] = NoRoom /\ room' = [room EXCEPT ![i] = [zone |-> zone, by |-> Admin]]
    BY <1>10, <2>0 DEF SeedCreate, InsertRoom, Idle
  <2>2. Named(zone) = {} /\ ScriptRight(s)
    BY <1>i, <2>0, <2>1 DEF ScriptRight
  <2>3. \A j \in RoomIds : j # i => room'[j] = room[j]
    BY <2>1 DEF TypeOK
  <2>4. room'[i].zone = zone /\ room[i].zone = 0
    BY <2>1 DEF TypeOK, NoRoom
  <2>5. \A z \in Zones : Named(z) \subseteq Named(z)'
    BY <2>3, <2>4 DEF Named, Zones
  <2>6. \A z \in Zones, j \in RoomIds :
          room'[j].zone = z => IF z = zone THEN j = i ELSE j \in Named(z)
    BY <2>2, <2>3, <2>4 DEF Named
  <2>7. \A z \in Zones : \A j, k \in Named(z)' : j = k
    BY <1>i, <2>6 DEF Named
  <2>8. i \in Named(zone)'
    BY <2>4 DEF Named
  <2>9. ScriptRight(s)'
    BY <2>0, <2>1, <2>2, <2>5, <2>8, AdvanceRight
  <2>10. \A t \in Seeds : t # s => seed'[t] = seed[t] /\ seed[t] = Idle
    BY <1>i, <2>1, AdvanceTypes
  <2>11. \A t \in Seeds : ScriptRight(t)'
    BY <2>9, <2>10 DEF ScriptRight, Idle
  <2>12. Right(published)'
    BY <1>i, <2>1, <2>5 DEF Right
  <2> QED
    BY <1>6, <2>1, <2>7, <2>10, <2>11, <2>12 DEF ZonesInv
<1>11. ASSUME NEW s \in Seeds, SeedPublish(s)
       PROVE  ZonesInv'
  <2>1. /\ published' = seed[s].lines /\ seed' = [seed EXCEPT ![s] = Idle]
        /\ UNCHANGED room /\ seed[s] # Idle
    BY <1>11 DEF SeedPublish, Run, Idle
  <2>2. Right(published)'
    BY <1>2, <1>i, <2>1 DEF ScriptRight, Right
  <2>3. \A t \in Seeds : IF t = s THEN seed'[t] = Idle ELSE seed'[t] = seed[t]
    BY <2>1 DEF TypeOK
  <2>4. ScriptRight(s)'
    BY <2>3 DEF ScriptRight, Idle
  <2> QED
    BY <1>2, <1>6, <1>i, <2>1, <2>2, <2>3, <2>4 DEF ZonesInv, ScriptRight, Right
<1>12. ASSUME NEW s \in Seeds, SeedFail(s)
       PROVE  ZonesInv'
  <2>1. seed' = [seed EXCEPT ![s] = Idle] /\ UNCHANGED <<room, published>> /\ seed[s] # Idle
    BY <1>12 DEF SeedFail, Run
  <2>2. \A t \in Seeds : IF t = s THEN seed'[t] = Idle ELSE seed'[t] = seed[t]
    BY <2>1 DEF TypeOK
  <2>3. ScriptRight(s)'
    BY <2>2 DEF ScriptRight, Idle
  <2> QED
    BY <1>1, <1>2, <1>6, <2>1, <2>2, <2>3
<1>13. ASSUME NEW r \in Requests, NEW n \in Names, NEW p \in Passwords,
              RegisterFind(r, n, p) \/ LoginRead(r, n, p)
       PROVE  ZonesInv'
  BY <1>3, <1>13 DEF RegisterFind, LoginRead
<1>14. ASSUME NEW r \in Requests, RegisterCreate(r) \/ LoginSign(r) \/ Receive(r) \/ Fail(r)
       PROVE  ZonesInv'
  BY <1>3, <1>14 DEF RegisterCreate, LoginSign, Receive, Fail
<1>15. ASSUME NEW t \in Token, Expire(t) \/ \E status \in Statuses : UpdateMe(t, status)
       PROVE  ZonesInv'
  BY <1>3, <1>15 DEF Expire, UpdateMe
<1>16. CASE UNCHANGED vars
  BY <1>3, <1>16 DEF vars
<1> QED
  BY <1>4, <1>5, <1>7, <1>8, <1>9, <1>10, <1>11, <1>12, <1>13, <1>14, <1>15, <1>16 DEF Next

LEMMA ZonesInductive == Spec => [](TypeOK /\ ZonesInv)
<1>1. Init => ZonesInv
  <2> SUFFICES ASSUME Init
               PROVE  ZonesInv
    OBVIOUS
  <2>1. \A z \in Zones : Named(z) = {}
    BY DEF Init, Named, NoRoom, Zones
  <2> QED
    BY <2>1 DEF Init, ZonesInv, Right, ScriptRight, NoLines, Idle
<1> QED
  BY <1>1, ZonesStep, TypeInit, TypeStep, PTL DEF Spec

\* A zone has one room and its published id is that room, however many runs of the
\* seed have failed half way, when runs do not overlap and no admin uses the name.
THEOREM ZonesOnceAlways == Spec => []ZonesOnce
<1>1. ZonesInv => ZonesOnce
  BY DEF ZonesInv, Single, Right, ZonesOnce
<1> QED
  BY <1>1, ZonesInductive, PTL
=============================================================================
