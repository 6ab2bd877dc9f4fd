------------------------------ MODULE Accounts ------------------------------
(***************************************************************************)
(* AuthService, UsersService, the guards that read tokens, the admin's     *)
(* room endpoint and prisma/seed.ts, over the tables users and rooms.      *)
(*                                                                         *)
(* A token is signed from a row that was read before, and nothing reads    *)
(* the row again when the token is used.  The seed script is run by hand,  *)
(* beside the server or again after it failed half way.                    *)
(*                                                                         *)
(* Of these disturbances a behaviour has only those in env:                *)
(*   "reseed"    the seed changes the admin's row while somebody is logging*)
(*               in under that name                                        *)
(*   "overlap"   two seed scripts run at once                              *)
(*   "homonym"   an admin creates a room with the name of a zone           *)
(* User names stand for user ids: no operation changes a user name.        *)
(***************************************************************************)
EXTENDS Naturals

CONSTANTS
  Names,          \* user names; username is unique
  Admin,          \* SEED_ADMIN_USERNAME
  Passwords,
  SeedPassword,   \* SEED_ADMIN_PASSWORD
  ZoneCount,      \* length of ZONE_ROOMS
  RoomIds,
  Requests,       \* register and login requests that may be in flight at once
  Seeds,          \* seed scripts that may run at once
  None

ASSUME AccountsAssumption ==
  /\ Admin \in Names /\ SeedPassword \in Passwords
  /\ ZoneCount \in Nat \ {0}
  /\ None \notin RoomIds

Disturbances == {"reseed", "overlap", "homonym"}

VARIABLES
  account,     \* the row of each user name
  tokens,      \* tokens that have been handed out and have not expired
  request,     \* register and login requests in flight
  room,        \* the rooms: the zone whose name it has (0: none), its creator
  seed,        \* the running seed scripts
  published,   \* .env.seed-output: the room id of each zone
  env          \* the disturbances of this behaviour

vars == <<account, tokens, request, room, seed, published, env>>

Roles == {"USER", "ADMIN"}
Statuses == {"AVAILABLE", "AWAY"}
Zones == 1..ZoneCount
NoRow == [role |-> "NONE"]
Row == [role : Roles, password : Passwords, status : Statuses]
Token == [name : Names, role : Roles]
Idle == [at |-> "idle"]
InFlight ==
  [at : {"hash"}, name : Names, password : Passwords]
    \cup [at : {"compare"}, name : Names, password : Passwords, row : Row]
    \cup [at : {"answered"}, token : Token]
NoRoom == [zone |-> 0, by |-> None]
NoLines == [z \in Zones |-> None]
Script ==
  [at : {"admin", "publish"}, lines : [Zones -> RoomIds \cup {None}]]
    \cup [at : {"find"}, zone : Zones, lines : [Zones -> RoomIds \cup {None}]]
    \cup [at : {"write"}, zone : Zones, found : RoomIds \cup {None},
          lines : [Zones -> RoomIds \cup {None}]]

Exists(n) == account[n] # NoRow

TypeOK ==
  /\ account \in [Names -> Row \cup {NoRow}]
  /\ tokens \subseteq Token
  /\ request \in [Requests -> InFlight \cup {Idle}]
  /\ room \in [RoomIds -> [zone : Zones \cup {0}, by : Names] \cup {NoRoom}]
  /\ seed \in [Seeds -> Script \cup {Idle}]
  /\ published \in [Zones -> RoomIds \cup {None}]
  /\ env \subseteq Disturbances

Init ==
  /\ account = [n \in Names |-> NoRow]
  /\ tokens = {}
  /\ request = [r \in Requests |-> Idle]
  /\ room = [i \in RoomIds |-> NoRoom]
  /\ seed = [s \in Seeds |-> Idle]
  /\ published = NoLines
  /\ env \in SUBSET Disturbances

Go(r, next) == request' = [request EXCEPT ![r] = next]
Run(s, next) == seed' = [seed EXCEPT ![s] = next]

-----------------------------------------------------------------------------
(* AuthService.  A name ending in Mutant is a mistake the operator after it*)
(* could have been written with; nothing uses it.                          *)

\* UsersService.create: the role and the status are the columns' defaults.
NewRow(p) == [role |-> "USER", password |-> p, status |-> "AVAILABLE"]

\* The name is free when it is looked up; hashing the password takes a while.
RegisterFind(r, n, p) ==
  /\ request[r] = Idle
  /\ ~Exists(n)
  /\ Go(r, [at |-> "hash", name |-> n, password |-> p])
  /\ UNCHANGED <<account, tokens, room, seed, published, env>>

\* The insert; another registration that has taken the name meanwhile makes it fail.
RegisterCreate(r) ==
  LET n == request[r].name IN
  /\ request[r].at = "hash"
  /\ ~Exists(n)
  /\ account' = [account EXCEPT ![n] = NewRow(request[r].password)]
  /\ Go(r, [at |-> "answered", token |-> [name |-> n, role |-> "USER"]])
  /\ UNCHANGED <<tokens, room, seed, published, env>>

LoginRead(r, n, p) ==
  /\ request[r] = Idle
  /\ Exists(n)
  /\ Go(r, [at |-> "compare", name |-> n, password |-> p, row |-> account[n]])
  /\ UNCHANGED <<account, tokens, room, seed, published, env>>

\* The token is signed from the row that was read before the comparison.
LoginSignMutant(r) ==
  /\ request[r].at = "compare"
  /\ Go(r, [at |-> "answered",
            token |-> [name |-> request[r].name, role |-> request[r].row.role]])
  /\ UNCHANGED <<account, tokens, room, seed, published, env>>
LoginSign(r) ==
  /\ request[r].at = "compare"
  /\ request[r].row.password = request[r].password
  /\ Go(r, [at |-> "answered",
            token |-> [name |-> request[r].name, role |-> request[r].row.role]])
  /\ UNCHANGED <<account, tokens, room, seed, published, env>>

Receive(r) ==
  /\ request[r].at = "answered"
  /\ tokens' = tokens \cup {request[r].token}
  /\ Go(r, Idle)
  /\ UNCHANGED <<account, room, seed, published, env>>

\* A wrong password, a name or an email that is taken, a failed call, a lost
\* answer or a crash: the request is gone, what it has written stays.
Fail(r) ==
  /\ request[r] # Idle
  /\ Go(r, Idle)
  /\ UNCHANGED <<account, tokens, room, seed, published, env>>

Expire(t) ==
  /\ t \in tokens
  /\ tokens' = tokens \ {t}
  /\ UNCHANGED <<account, request, room, seed, published, env>>

-----------------------------------------------------------------------------
(* What the holder of a token may do.                                      *)

\* JwtAccessGuard, and RolesGuard, which looks at the role in the token.
Authenticated(t) == t \in tokens
Allowed(t, required) == t.role \in required

\* Profile, avatar and status: UpdateUserDto and the validation pipe keep every
\* other column out of the update.
WriteProfileMutant(n, status) ==
  \E role \in Roles :
    account' = [account EXCEPT ![n].status = status, ![n].role = role]
WriteProfile(n, status) == account' = [account EXCEPT ![n].status = status]

UpdateMe(t, status) ==
  /\ Authenticated(t)
  /\ WriteProfile(t.name, status)
  /\ UNCHANGED <<tokens, request, room, seed, published, env>>

\* RoomsService.create: the name is not unique.
InsertRoom(i, zone, by) ==
  /\ room[i] = NoRoom
  /\ room' = [room EXCEPT ![i] = [zone |-> zone, by |-> by]]

CreateRoom(t, i, zone) ==
  /\ Authenticated(t) /\ Allowed(t, {"ADMIN"})
  /\ zone # 0 => "homonym" \in env
  /\ InsertRoom(i, zone, t.name)
  /\ UNCHANGED <<account, tokens, request, seed, published, env>>

-----------------------------------------------------------------------------
(* prisma/seed.ts.                                                         *)

SeedStart(s) ==
  /\ seed[s] = Idle
  /\ (\E other \in Seeds : seed[other] # Idle) => "overlap" \in env
  /\ Run(s, [at |-> "admin", lines |-> NoLines])
  /\ UNCHANGED <<account, tokens, request, room, published, env>>

\* The upsert makes the admin, or an admin of whoever has registered the name.
SeedAdmin(s) ==
  /\ seed[s].at = "admin"
  /\ (\E r \in Requests : request[r].at = "compare" /\ request[r].name = Admin)
       => "reseed" \in env
  /\ account' = [account EXCEPT ![Admin] =
       IF Exists(Admin) THEN [@ EXCEPT !.role = "ADMIN", !.password = SeedPassword]
       ELSE [NewRow(SeedPassword) EXCEPT !.role = "ADMIN"]]
  /\ Run(s, [at |-> "find", zone |-> 1, lines |-> NoLines])
  /\ UNCHANGED <<tokens, request, room, published, env>>

Named(zone) == {i \in RoomIds : room[i].zone = zone}

\* findFirst without an order: any of the rooms of that name.
SeedFindMutant(s) ==
  /\ seed[s].at = "find"
  /\ Run(s, [at |-> "write", zone |-> seed[s].zone, found |-> None,
             lines |-> seed[s].lines])
  /\ UNCHANGED <<account, tokens, request, room, published, env>>
SeedFind(s) ==
  LET zone == seed[s].zone IN
  /\ seed[s].at = "find"
  /\ \E found \in (IF Named(zone) = {} THEN {None} ELSE Named(zone)) :
       Run(s, [at |-> "write", zone |-> zone, found |-> found, lines |-> seed[s].lines])
  /\ UNCHANGED <<account, tokens, request, room, published, env>>

\* The zone has its room: on to the next one, or to the file.
Advance(s, id) ==
  LET zone  == seed[s].zone
      lines == [seed[s].lines EXCEPT ![zone] = id]
  IN  Run(s, IF zone = ZoneCount THEN [at |-> "publish", lines |-> lines]
             ELSE [at |-> "find", zone |-> zone + 1, lines |-> lines])

\* The room that was found gets the zone's type and capacity and is activated.
SeedUpdate(s) ==
  /\ seed[s].at = "write"
  /\ seed[s].found # None
  /\ Advance(s, seed[s].found)
  /\ UNCHANGED <<account, tokens, request, room, published, env>>

SeedCreate(s, i) ==
  /\ seed[s].at = "write"
  /\ seed[s].found = None
  /\ InsertRoom(i, seed[s].zone, Admin)
  /\ Advance(s, i)
  /\ UNCHANGED <<account, tokens, request, published, env>>

SeedPublish(s) ==
  /\ seed[s].at = "publish"
  /\ published' = seed[s].lines
  /\ Run(s, Idle)
  /\ UNCHANGED <<account, tokens, request, room, env>>

\* The email belongs to somebody else, a query fails or the script is killed.
SeedFail(s) ==
  /\ seed[s] # Idle
  /\ Run(s, Idle)
  /\ UNCHANGED <<account, tokens, request, room, published, env>>

Next ==
  \/ \E r \in Requests :
       \/ \E n \in Names, p \in Passwords : RegisterFind(r, n, p) \/ LoginRead(r, n, p)
       \/ RegisterCreate(r) \/ LoginSign(r) \/ Receive(r) \/ Fail(r)
  \/ \E t \in Token :
       \/ Expire(t)
       \/ \E status \in Statuses : UpdateMe(t, status)
       \/ \E i \in RoomIds, zone \in Zones \cup {0} : CreateRoom(t, i, zone)
  \/ \E s \in Seeds :
       \/ SeedStart(s) \/ SeedAdmin(s) \/ SeedFind(s) \/ SeedUpdate(s)
       \/ SeedPublish(s) \/ SeedFail(s)
       \/ \E i \in RoomIds : SeedCreate(s, i)

Spec == Init /\ [][Next]_vars

-----------------------------------------------------------------------------

\* A token grants no more than its user's row: whoever holds an admin's token is
\* an admin now, although nothing reads the row when the token is used
\* (roles.guard.ts:32), and only admins' rooms exist.
AdminsOnly ==
  /\ \A t \in tokens : Exists(t.name) /\ (t.role = "ADMIN" => account[t.name].role = "ADMIN")
  /\ \A i \in RoomIds : room[i] # NoRoom => account[room[i].by].role = "ADMIN"

\* A login succeeds with the password the row has at that moment, unless the
\* seed replaced it after the row was read (auth.service.ts:22-25).
LoginCurrent ==
  [][\A r \in Requests :
       request[r].at = "compare" /\ request'[r].at = "answered" /\ "reseed" \notin env =>
         account[request[r].name].password = request[r].password]_vars

\* However often the seed is run, and wherever it was interrupted, a zone has one
\* room and the ids published to the web client are those rooms, as long as
\* scripts run one at a time and no admin uses a zone's name (seed.ts:83-108:
\* findFirst and create are two statements, and a room's name is not unique).
ZonesOnce ==
  env \cap {"overlap", "homonym"} = {} =>
    \A z \in Zones :
      /\ \A i, j \in Named(z) : i = j
      /\ published[z] # None => published[z] \in Named(z)
=============================================================================
