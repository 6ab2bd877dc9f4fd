---------------------------- MODULE CampusProofs ----------------------------
(***************************************************************************)
(* Proofs about Campus, for any users, sessions, hosts and requests.  What *)
(* carries them: a request that overtakes no other finds what it wrote on, *)
(* so that rows are only in open sessions; and whoever is shown, or is     *)
(* about to be shown, where their rows do not put them is named by a       *)
(* request whose event will move them.                                     *)
(***************************************************************************)
EXTENDS Campus, SequenceTheorems, TLAPS

Lists(q, x) == \E i \in DOMAIN q : q[i] = x
Once(q) == \A i, j \in DOMAIN q : q[i] = q[j] => i = j

\* A user has one row in a session.
OneRow == \A u \in Users : Once(active[u])

\* A participant row is in an open session, and a request under way keeps out of the
\* way of the others.
RowsOpen == \A u \in Users, s \in Sessions : In(u, s) => status[s] \in Joinable
HostsAwaited ==
  \A c \in Calls : call[c].event = "hosting" => status[call[c].s] \in Joinable
RowsClosed ==
  \A c \in Calls, u \in Users : call[c].event = "closing" => ~In(u, call[c].s)
NotYetClosing ==
  \A c, d \in Calls :
    call[c].event = "hosting" /\ call[d].event = "closing" => call[c].s # call[d].s
Apart ==
  \A c, d \in Calls :
    c # d /\ call[c] # Idle /\ call[d] # Idle => call[c].users \cap call[d].users = {}

Orderly ==
  "overtake" \notin env => RowsOpen /\ HostsAwaited /\ RowsClosed /\ NotYetClosing /\ Apart

-----------------------------------------------------------------------------
(* What the values of the state are.                                       *)

LEMMA CallKinds ==
  ASSUME TypeOK, NEW c \in Calls
  PROVE  \/ call[c] = Idle /\ call[c].event = "none"
         \/ /\ call[c] # Idle /\ call[c].event \in {"hosting", "joined", "left"}
            /\ call[c].s \in Sessions
            /\ \E u \in Users : call[c].users = {u}
            /\ call[c].event = "hosting" => call[c].users = {Host[call[c].s]}
         \/ /\ call[c] # Idle /\ call[c].event \in {"closing", "delete", "ended"}
            /\ call[c].s \in Sessions /\ call[c].users \in SUBSET Users
<1>1. call[c] \in Requests
  BY DEF TypeOK
<1>2. CASE call[c] = Idle
  BY <1>2 DEF Idle
<1>3. CASE call[c] \in Hosting
  BY <1>3, CampusAssumption DEF Hosting, Idle
<1>4. CASE call[c] \in About
  BY <1>4 DEF About, Idle
<1>5. CASE call[c] \in Ending
  BY <1>5 DEF Ending, Idle
<1> QED
  BY <1>1, <1>2, <1>3, <1>4, <1>5 DEF Requests

\* Request d is not about the users, and it is not closing the session.
OutOfTheWay(d, users, s) ==
  /\ call[d].users \cap users = {}
  /\ call[d].event = "closing" => call[d].s # s

\* A request begins, alone unless it overtakes another.
LEMMA BeginFacts ==
  ASSUME TypeOK, NEW c \in Calls, NEW e \in {"hosting", "joined", "left", "closing"},
         NEW s \in Sessions, NEW users \in SUBSET Users, Begin(c, e, s, users),
         e \in {"joined", "left"} => \E u \in Users : users = {u},
         e = "hosting" => users = {Host[s]}
  PROVE  /\ call[c] = Idle
         /\ call' \in [Calls -> Requests]
         /\ call'[c] # Idle /\ call'[c].event = e /\ call'[c].s = s /\ call'[c].users = users
         /\ \A d \in Calls : d # c => call'[d] = call[d]
         /\ "overtake" \notin env =>
              \A d \in Calls :
                call[d] # Idle => OutOfTheWay(d, users, s)
<1>1. [event |-> e, s |-> s, users |-> users] \in Requests
  <2>1. CASE e = "hosting"
    BY <2>1 DEF Requests, Hosting
  <2>2. CASE e \in {"joined", "left"}
    BY <2>2 DEF Requests, About
  <2>3. CASE e = "closing"
    BY <2>3 DEF Requests, Ending
  <2> QED
    BY <2>1, <2>2, <2>3
<1>2. [event |-> e, s |-> s, users |-> users] # Idle
  BY DEF Idle
<1>3. "overtake" \notin env => ~Pending(users, s)
  BY DEF Begin, Alone
<1> QED
  BY <1>1, <1>2, <1>3 DEF Begin, TypeOK, Pending, OutOfTheWay

\* A request goes on.
LEMMA TurnFacts ==
  ASSUME TypeOK, NEW c \in Calls, NEW e, call' = [call EXCEPT ![c].event = e],
         \/ call[c].event = "hosting" /\ e = "joined"
         \/ call[c].event \in {"closing", "delete"} /\ e \in {"delete", "ended"}
  PROVE  /\ call' \in [Calls -> Requests]
         /\ call[c] # Idle /\ call'[c] # Idle
         /\ call'[c].event = e /\ call'[c].s = call[c].s /\ call'[c].users = call[c].users
         /\ \A d \in Calls : d # c => call'[d] = call[d]
<1>1. call[c] \in Requests
  BY DEF TypeOK
<1>2. call[c] # Idle
  BY DEF Idle
<1>3. call'[c] = [call[c] EXCEPT !.event = e] /\ \A d \in Calls : d # c => call'[d] = call[d]
  BY DEF TypeOK
<1>4. CASE call[c].event = "hosting" /\ e = "joined"
  <2>1. call[c] \in Hosting
    BY <1>1, <1>2, <1>4 DEF Requests, About, Ending
  <2>2. PICK s \in Sessions : call[c] = [event |-> "hosting", s |-> s, users |-> {Host[s]}]
    BY <2>1 DEF Hosting
  <2>3. call'[c] = [event |-> "joined", s |-> s, users |-> {Host[s]}]
    BY <1>3, <1>4, <2>2
  <2>4. call'[c] \in Requests
    BY <2>3, CampusAssumption DEF Requests, About
  <2> QED
    BY <1>2, <1>3, <1>4, <2>2, <2>3, <2>4 DEF TypeOK, Idle
<1>5. CASE call[c].event \in {"closing", "delete"} /\ e \in {"delete", "ended"}
  <2>1. call[c] \in Ending
    BY <1>1, <1>2, <1>5 DEF Requests, About, Hosting
  <2>2. /\ call'[c] \in Ending /\ call'[c].event = e
        /\ call'[c].s = call[c].s /\ call'[c].users = call[c].users
    BY <1>3, <1>5, <2>1 DEF Ending
  <2>3. call'[c] # Idle /\ call'[c] \in Requests
    BY <1>5, <2>2 DEF Idle, Requests
  <2> QED
    BY <1>2, <1>3, <2>2, <2>3 DEF TypeOK
<1> QED
  BY <1>4, <1>5

\* What is left of a user's sessions without one of them.
LEMMA WithoutFacts ==
  ASSUME TypeOK, NEW u \in Users, NEW s \in Sessions
  PROVE  /\ Without(u, s) \in Seq(Sessions)
         /\ ~In(u, s) => Without(u, s) = active[u]
         /\ Once(active[u]) =>
              /\ Once(Without(u, s))
              /\ \A x \in Sessions : Lists(Without(u, s), x) <=> In(u, x) /\ x # s
         /\ In(u, s) /\ Len(active[u]) <= 1 => Without(u, s) = <<>>
<1> DEFINE q == active[u]
           k == CHOOSE i \in DOMAIN q : q[i] = s
           p == SubSeq(q, 1, k - 1) \o SubSeq(q, k + 1, Len(q))
<1>1. q \in Seq(Sessions) /\ DOMAIN q = 1..Len(q) /\ Len(q) \in Nat
  BY DEF TypeOK
<1>2. CASE ~In(u, s)
  BY <1>1, <1>2 DEF Without, In, Lists
<1>3. CASE In(u, s)
  <2>1. k \in 1..Len(q) /\ q[k] = s
    BY <1>1, <1>3 DEF In
  <2>2. Without(u, s) = p
    BY <1>3 DEF Without
  <2> HIDE DEF k
  <2>3. /\ p \in Seq(Sessions) /\ Len(p) = Len(q) - 1
        /\ \A i \in 1..Len(p) : p[i] = IF i < k THEN q[i] ELSE q[i + 1]
    <3> DEFINE a == SubSeq(q, 1, k - 1)
               b == SubSeq(q, k + 1, Len(q))
    <3>1. /\ a \in Seq(Sessions) /\ Len(a) = k - 1
          /\ \A i \in 1..(k - 1) : a[i] = q[i]
      BY <1>1, <2>1, SubSeqProperties
    <3>2. /\ b \in Seq(Sessions) /\ Len(b) = Len(q) - k
          /\ \A i \in 1..(Len(q) - k) : b[i] = q[k + i]
      BY <1>1, <2>1, SubSeqProperties
    <3> HIDE DEF a, b
    <3>3. /\ a \o b \in Seq(Sessions) /\ Len(a \o b) = Len(a) + Len(b)
          /\ \A i \in 1..(Len(a) + Len(b)) :
               (a \o b)[i] = IF i <= Len(a) THEN a[i] ELSE b[i - Len(a)]
      BY <3>1, <3>2, ConcatProperties
    <3>4. Len(a \o b) = Len(q) - 1
      BY <1>1, <2>1, <3>1, <3>2, <3>3
    <3>5. ASSUME NEW i \in 1..Len(a \o b)
          PROVE  (a \o b)[i] = IF i < k THEN q[i] ELSE q[i + 1]
      <4>1. CASE i < k
        BY <1>1, <2>1, <3>1, <3>2, <3>3, <3>5, <4>1
      <4>2. CASE i >= k
        <5>1. i - Len(a) \in 1..(Len(q) - k) /\ k + (i - Len(a)) = i + 1
          BY <1>1, <2>1, <3>1, <3>4, <3>5, <4>2
        <5> QED
          BY <1>1, <2>1, <3>1, <3>2, <3>3, <3>5, <4>2, <5>1
      <4> QED
        BY <2>1, <3>5, <4>1, <4>2
    <3> QED
      BY <3>3, <3>4, <3>5 DEF a, b
  <2> HIDE DEF p
  <2>4. ASSUME Once(q)
        PROVE  Once(p)
    <3>1. DOMAIN p = 1..Len(p)
      BY <2>3
    <3>2. ASSUME NEW i \in 1..Len(p), NEW j \in 1..Len(p), p[i] = p[j], i < j
          PROVE  FALSE
      <4>1. PICK a \in 1..Len(q) : p[i] = q[a] /\ a = IF i < k THEN i ELSE i + 1
        BY <1>1, <2>1, <2>3, <3>2
      <4>2. PICK b \in 1..Len(q) : p[j] = q[b] /\ b = IF j < k THEN j ELSE j + 1
        BY <1>1, <2>1, <2>3, <3>2
      <4>3. a = b
        BY <1>1, <2>4, <3>2, <4>1, <4>2 DEF Once
      <4> QED
        BY <1>1, <2>1, <3>2, <4>1, <4>2, <4>3
    <3> QED
      BY <2>3, <3>1, <3>2 DEF Once
  <2>5. ASSUME Once(q), NEW x \in Sessions
        PROVE  Lists(p, x) <=> In(u, x) /\ x # s
    <3>1. ASSUME NEW i \in DOMAIN p, p[i] = x
          PROVE  In(u, x) /\ x # s
      <4>1. PICK j \in 1..Len(q) : j # k /\ q[j] = x
        BY <1>1, <2>1, <2>3, <3>1
      <4> QED
        BY <1>1, <2>1, <2>5, <4>1 DEF Once, In
    <3>2. ASSUME NEW j \in DOMAIN q, q[j] = x, x # s
          PROVE  Lists(p, x)
      <4>1. CASE j < k
        <5>1. j \in DOMAIN p /\ p[j] = x
          BY <1>1, <2>1, <2>3, <3>2, <4>1
        <5> QED
          BY <5>1 DEF Lists
      <4>2. CASE j > k
        <5>1. j - 1 \in DOMAIN p /\ p[j - 1] = x
          BY <1>1, <2>1, <2>3, <3>2, <4>2
        <5> QED
          BY <5>1 DEF Lists
      <4>3. j # k
        BY <2>1, <3>2
      <4> QED
        BY <1>1, <2>1, <4>1, <4>2, <4>3
    <3> QED
      BY <3>1, <3>2 DEF Lists, In
  <2>6. Len(q) <= 1 => p = <<>>
    BY <1>1, <2>1, <2>3
  <2> QED
    BY <1>3, <2>2, <2>3, <2>4, <2>5, <2>6
<1> QED
  BY <1>2, <1>3

\* A row becomes ACTIVE, or is ACTIVE no more, or the host has one already.
Enters(c, u, s) ==
  /\ Participate(u, s)
  /\ \/ Begin(c, "joined", s, {u})
     \/ /\ call[c].event = "hosting" /\ call[c].s = s /\ call[c].users = {u}
        /\ call' = [call EXCEPT ![c].event = "joined"]
  /\ "overtake" \notin env => ~In(u, s) /\ status[s] \in Joinable
  /\ kicked' \in [Sessions -> SUBSET Users]
  /\ UNCHANGED <<status, left, place, handshake, speech, env>>

Leaves(c, u, s) ==
  /\ Quit(u, s)
  /\ Begin(c, "left", s, {u})
  /\ "overtake" \notin env => In(u, s)
  /\ kicked' \in [Sessions -> SUBSET Users] /\ left' \in [Sessions -> SUBSET Users]
  /\ UNCHANGED <<status, place, handshake, speech, env>>

Refused(c) ==
  /\ call[c].event = "hosting"
  /\ call' = [call EXCEPT ![c] = Idle]
  /\ UNCHANGED <<rows, place, handshake, speech, env>>

\* The steps that touch neither rows, events nor the map.
Quiet == UNCHANGED <<rows, call, place, handshake, env>>

\* With nothing overtaken a request writes on what is there.
LEMMA ReadsWhatIs ==
  ASSUME "overtake" \notin env, NEW u \in Users, NEW s \in Sessions
  PROVE  /\ Open(s) => status[s] \in Joinable
         /\ "ACTIVE" \in Read(u, s) <=> In(u, s)
         /\ "NONE" \in Read(u, s) \/ "LEFT" \in Read(u, s) => ~In(u, s)
<1>1. Read(u, s) = {Row(u, s)}
  BY DEF Read
<1>2. CASE In(u, s)
  BY <1>1, <1>2 DEF Row, Open
<1>3. CASE ~In(u, s)
  <2>1. Row(u, s) # "ACTIVE"
    <3>1. CASE u \in kicked[s]
      BY <1>3, <3>1 DEF Row
    <3>2. CASE u \notin kicked[s] /\ u \in left[s] \ kicked[s]
      BY <1>3, <3>2 DEF Row
    <3>3. CASE u \notin kicked[s] /\ u \notin left[s] \ kicked[s]
      BY <1>3, <3>3 DEF Row
    <3> QED
      BY <3>1, <3>2, <3>3
  <2> QED
    BY <1>1, <1>3, <2>1 DEF Open
<1> QED
  BY <1>2, <1>3

LEMMA EntersOrLeaves ==
  ASSUME TypeOK, Orderly, NEW c \in Calls
  PROVE  /\ HostRow(c) => Refused(c) \/ \E u \in Users, s \in Sessions : Enters(c, u, s)
         /\ \A u \in Users, s \in Sessions : Join(c, s, u) => Enters(c, u, s)
         /\ \A u \in Users, s \in Sessions : Leave(c, s, u) \/ Kick(c, s, u) => Leaves(c, u, s)
<1>1. ASSUME HostRow(c), ~Refused(c)
      PROVE  \E u \in Users, s \in Sessions : Enters(c, u, s)
  <2> DEFINE s == call[c].s
             u == Host[s]
  <2>1. s \in Sessions /\ u \in Users /\ call[c].event = "hosting" /\ call[c].users = {u}
    BY <1>1, CallKinds, CampusAssumption DEF HostRow
  <2>2. /\ Row(u, s) = "NONE" /\ Participate(u, s)
        /\ call' = [call EXCEPT ![c].event = "joined"]
        /\ UNCHANGED <<status, kicked, left, place, handshake, speech, env>>
    BY <1>1 DEF HostRow, Refused, rows
  <2>3. "overtake" \notin env => ~In(u, s) /\ status[s] \in Joinable
    BY <2>1, <2>2 DEF Row, Orderly, HostsAwaited
  <2>4. kicked' \in [Sessions -> SUBSET Users]
    BY <2>2 DEF TypeOK
  <2> QED
    BY <2>1, <2>2, <2>3, <2>4 DEF Enters
<1>2. ASSUME NEW u \in Users, NEW s \in Sessions, Join(c, s, u)
      PROVE  Enters(c, u, s)
  <2>1. "overtake" \notin env => ~In(u, s) /\ status[s] \in Joinable
    BY <1>2, ReadsWhatIs DEF Join
  <2>2. kicked' \in [Sessions -> SUBSET Users]
    BY <1>2 DEF Join, TypeOK
  <2> QED
    BY <1>2, <2>1, <2>2 DEF Join, Enters
<1>3. ASSUME NEW u \in Users, NEW s \in Sessions, Leave(c, s, u) \/ Kick(c, s, u)
      PROVE  Leaves(c, u, s)
  <2>1. "overtake" \notin env => In(u, s)
    BY <1>3, ReadsWhatIs DEF Leave, Kick
  <2>2. /\ kicked \in [Sessions -> SUBSET Users] /\ left \in [Sessions -> SUBSET Users]
        /\ kicked[s] \cup {u} \in SUBSET Users /\ kicked[s] \ {u} \in SUBSET Users
        /\ left[s] \cup {u} \in SUBSET Users
    BY DEF TypeOK
  <2>3. /\ \/ kicked' = [kicked EXCEPT ![s] = kicked[s] \cup {u}]
           \/ kicked' = [kicked EXCEPT ![s] = kicked[s] \ {u}]
        /\ left' = left \/ left' = [left EXCEPT ![s] = left[s] \cup {u}]
    BY <1>3 DEF Leave, Kick
  <2>4. kicked' \in [Sessions -> SUBSET Users] /\ left' \in [Sessions -> SUBSET Users]
    BY <2>2, <2>3
  <2> QED
    BY <1>3, <2>1, <2>4 DEF Leave, Kick, Leaves
<1> QED
  BY <1>1, <1>2, <1>3

LEMMA StepCases ==
  ASSUME TypeOK, Orderly, [Next]_vars
  PROVE  \/ \E c \in Calls, u \in Users, s \in Sessions : Enters(c, u, s) \/ Leaves(c, u, s)
         \/ \E c \in Calls, s \in Sessions : CreateSession(c, s) \/ EndRows(c, s)
         \/ \E c \in Calls : EndStatus(c) \/ Refused(c)
         \/ \E c \in Calls : EmitJoined(c) \/ EmitLeft(c) \/ EmitEnded(c)
         \/ \E c \in Calls : DeleteVoiceRoom(c) \/ Lose(c)
         \/ \E s \in Sessions : Start(s) \/ \E u \in Users : JoinAgain(s, u)
         \/ \E u \in Users : Connect(u) \/ AnswerHandshake(u) \/ Register(u) \/ Disconnect(u)
         \/ Quiet
<1>1. ASSUME NEW u \in Speakers,
             VoiceIssue(u) \/ \E s \in Sessions : VoiceAsk(u, s) \/ EnterVoice(u, s) \/ LeaveVoice(u, s)
      PROVE  Quiet
  BY <1>1 DEF VoiceIssue, VoiceAsk, EnterVoice, LeaveVoice, Quiet, rows
<1>2. CASE UNCHANGED vars
  BY <1>2 DEF vars, Quiet, rows
<1> QED
  BY <1>1, <1>2, EntersOrLeaves DEF Next

\* The request in which somebody enters, and what the others are about then.
LEMMA EnterCall ==
  ASSUME TypeOK, Orderly, NEW c \in Calls, NEW u \in Users, NEW s \in Sessions, Enters(c, u, s)
  PROVE  /\ call' \in [Calls -> Requests]
         /\ call'[c] # Idle /\ call'[c].event = "joined"
         /\ call'[c].s = s /\ call'[c].users = {u}
         /\ call[c].event \in {"none", "hosting"}
         /\ \A d \in Calls : d # c => call'[d] = call[d]
         /\ "overtake" \notin env =>
              \A d \in Calls :
                d # c /\ call[d] # Idle => OutOfTheWay(d, {u}, s)
<1>1. CASE Begin(c, "joined", s, {u})
  BY <1>1, BeginFacts DEF Idle
<1>2. CASE /\ call[c].event = "hosting" /\ call[c].s = s /\ call[c].users = {u}
           /\ call' = [call EXCEPT ![c].event = "joined"]
  <2>1. /\ call' \in [Calls -> Requests] /\ call[c] # Idle
        /\ call'[c] # Idle /\ call'[c].event = "joined"
        /\ call'[c].s = s /\ call'[c].users = {u}
        /\ \A d \in Calls : d # c => call'[d] = call[d]
    BY <1>2, TurnFacts
  <2>2. ASSUME "overtake" \notin env, NEW d \in Calls, d # c, call[d] # Idle
        PROVE  OutOfTheWay(d, {u}, s)
    BY <1>2, <2>1, <2>2 DEF Orderly, Apart, NotYetClosing, OutOfTheWay
  <2> QED
    BY <1>2, <2>1, <2>2
<1> QED
  BY <1>1, <1>2 DEF Enters

-----------------------------------------------------------------------------
(* The rows.                                                               *)

LEMMA EnterRows ==
  ASSUME TypeOK, OneRow, NEW u \in Users, NEW s \in Sessions, Participate(u, s)
  PROVE  /\ OneRow'
         /\ active' \in [Users -> Seq(Sessions)]
         /\ \A v \in Users, x \in Sessions : In(v, x)' <=> In(v, x) \/ (v = u /\ x = s)
         /\ \A v \in Users : v # u => active'[v] = active[v]
<1> DEFINE q == Without(u, s)
           p == <<s>> \o q
<1>1. /\ q \in Seq(Sessions) /\ Once(q) /\ Len(q) \in Nat /\ DOMAIN q = 1..Len(q)
      /\ \A x \in Sessions : Lists(q, x) <=> In(u, x) /\ x # s
      /\ active' = [active EXCEPT ![u] = p]
  BY WithoutFacts DEF OneRow, Participate
<1> HIDE DEF q
<1>2. /\ p \in Seq(Sessions) /\ Len(p) = Len(q) + 1
      /\ \A i \in 1..Len(p) : p[i] = IF i = 1 THEN s ELSE q[i - 1]
  BY <1>1, ConcatProperties
<1>3. active' \in [Users -> Seq(Sessions)] /\ active'[u] = p
      /\ \A v \in Users : v # u => active'[v] = active[v]
  BY <1>1, <1>2 DEF TypeOK
<1> HIDE DEF p
<1>4. ASSUME NEW x \in Sessions
      PROVE  In(u, x)' <=> In(u, x) \/ x = s
  <2>1. ASSUME NEW i \in 1..Len(q), q[i] = x
        PROVE  In(u, x)'
    <3>1. i + 1 \in 1..Len(p) /\ p[i + 1] = x
      BY <1>1, <1>2, <2>1
    <3> QED
      BY <1>2, <1>3, <3>1 DEF In
  <2>2. ASSUME NEW i \in 1..Len(p), p[i] = x
        PROVE  Lists(q, x) \/ x = s
    BY <1>1, <1>2, <2>2 DEF Lists
  <2>3. 1 \in 1..Len(p) /\ p[1] = s
    BY <1>1, <1>2
  <2>4. x = s => In(u, x)'
    BY <1>2, <1>3, <2>3 DEF In
  <2>5. In(u, x)' <=> \E i \in DOMAIN p : p[i] = x
    BY <1>3 DEF In
  <2>6. Lists(q, x) => In(u, x)'
    BY <1>1, <2>1 DEF Lists
  <2> QED
    BY <1>1, <1>2, <2>2, <2>4, <2>5, <2>6
<1>5. \A v \in Users, x \in Sessions : In(v, x)' <=> In(v, x) \/ (v = u /\ x = s)
  BY <1>3, <1>4 DEF In
<1>6. Once(p)
  <2>1. ASSUME NEW i \in 1..Len(p), NEW j \in 1..Len(p), p[i] = p[j], i < j
        PROVE  FALSE
    <3>1. CASE i = 1
      <4>1. j - 1 \in DOMAIN q /\ q[j - 1] = s
        BY <1>1, <1>2, <2>1, <3>1
      <4>2. Lists(q, s)
        BY <4>1 DEF Lists
      <4> QED
        BY <1>1, <4>2
    <3>2. CASE i # 1
      <4>1. i - 1 \in DOMAIN q /\ j - 1 \in DOMAIN q /\ q[i - 1] = q[j - 1]
        BY <1>1, <1>2, <2>1, <3>2
      <4> QED
        BY <1>1, <2>1, <4>1 DEF Once
    <3> QED
      BY <3>1, <3>2
  <2> QED
    BY <1>2, <2>1 DEF Once
<1>7. \A v \in Users : Once(active'[v])
  BY <1>3, <1>6 DEF OneRow
<1> QED
  BY <1>3, <1>5, <1>7 DEF OneRow, Once

LEMMA LeaveRows ==
  ASSUME TypeOK, OneRow, NEW u \in Users, NEW s \in Sessions, Quit(u, s)
  PROVE  /\ OneRow'
         /\ active' \in [Users -> Seq(Sessions)]
         /\ \A v \in Users, x \in Sessions : In(v, x)' <=> In(v, x) /\ ~(v = u /\ x = s)
         /\ \A v \in Users : v # u => active'[v] = active[v]
<1>1. /\ Without(u, s) \in Seq(Sessions) /\ Once(Without(u, s))
      /\ \A x \in Sessions : Lists(Without(u, s), x) <=> In(u, x) /\ x # s
  BY WithoutFacts DEF OneRow
<1>2. active' \in [Users -> Seq(Sessions)] /\ active'[u] = Without(u, s)
      /\ \A v \in Users : v # u => active'[v] = active[v]
  BY <1>1 DEF TypeOK, Quit
<1>3. \A v \in Users, x \in Sessions : In(v, x)' <=> In(v, x) /\ ~(v = u /\ x = s)
  <2> SUFFICES ASSUME NEW v \in Users, NEW x \in Sessions
               PROVE  In(v, x)' <=> In(v, x) /\ ~(v = u /\ x = s)
    OBVIOUS
  <2>1. In(v, x)' <=> Lists(active'[v], x)
    BY DEF In, Lists
  <2>2. In(v, x) <=> Lists(active[v], x)
    BY DEF In, Lists
  <2> QED
    BY <1>1, <1>2, <2>1, <2>2
<1>4. \A v \in Users : Once(active'[v])
  BY <1>1, <1>2 DEF OneRow
<1> QED
  BY <1>2, <1>3, <1>4 DEF OneRow, Once

LEMMA EndFacts ==
  ASSUME TypeOK, OneRow, NEW c \in Calls, NEW s \in Sessions, EndRows(c, s)
  PROVE  /\ OneRow'
         /\ active' \in [Users -> Seq(Sessions)] /\ left' \in [Sessions -> SUBSET Users]
         /\ \A v \in Users, x \in Sessions : In(v, x)' <=> In(v, x) /\ x # s
         /\ call[c] = Idle /\ call' \in [Calls -> Requests]
         /\ call'[c] # Idle /\ call'[c].event = "closing" /\ call'[c].s = s
         /\ call'[c].users = Members(s)
         /\ \A d \in Calls : d # c => call'[d] = call[d]
         /\ "overtake" \notin env =>
              \A d \in Calls :
                call[d] # Idle =>
                  OutOfTheWay(d, Members(s), s) /\ Host[s] \notin call[d].users
<1>1. ASSUME NEW v \in Users
      PROVE  /\ Without(v, s) \in Seq(Sessions) /\ Once(Without(v, s))
             /\ \A x \in Sessions : Lists(Without(v, s), x) <=> In(v, x) /\ x # s
  BY WithoutFacts DEF OneRow
<1>2. active' = [v \in Users |-> Without(v, s)]
  BY DEF EndRows
<1>3. active' \in [Users -> Seq(Sessions)] /\ \A v \in Users : active'[v] = Without(v, s)
  BY <1>1, <1>2
<1>4. \A v \in Users, x \in Sessions : In(v, x)' <=> In(v, x) /\ x # s
  <2> SUFFICES ASSUME NEW v \in Users, NEW x \in Sessions
               PROVE  In(v, x)' <=> In(v, x) /\ x # s
    OBVIOUS
  <2>1. In(v, x)' <=> Lists(active'[v], x)
    BY DEF In, Lists
  <2> QED
    BY <1>1, <1>3, <2>1
<1>5. \A v \in Users : Once(active'[v])
  BY <1>1, <1>3
<1>6. Members(s) \in SUBSET Users
  BY DEF Members
<1>7. left' \in [Sessions -> SUBSET Users]
  BY <1>6 DEF EndRows, TypeOK
<1>8. Begin(c, "closing", s, Members(s))
  BY DEF EndRows
<1>9. "overtake" \notin env => \A d \in Calls : call[d] # Idle => Host[s] \notin call[d].users
  BY CampusAssumption DEF EndRows, Alone, Pending
<1>10. OneRow'
  BY <1>5 DEF OneRow, Once
<1> HIDE DEF Members
<1> QED
  BY <1>3, <1>4, <1>6, <1>7, <1>8, <1>9, <1>10, BeginFacts

LEMMA CreateFacts ==
  ASSUME TypeOK, NEW c \in Calls, NEW s \in Sessions, CreateSession(c, s)
  PROVE  /\ call[c] = Idle /\ call' \in [Calls -> Requests]
         /\ call'[c] # Idle /\ call'[c].event = "hosting" /\ call'[c].s = s
         /\ call'[c].users = {Host[s]}
         /\ \A d \in Calls : d # c => call'[d] = call[d]
         /\ "overtake" \notin env =>
              \A d \in Calls :
                call[d] # Idle => OutOfTheWay(d, {Host[s]}, s)
         /\ status \in [Sessions -> {"NONE", "SCHEDULED", "ACTIVE", "ENDED"}]
         /\ status[s] = "NONE" /\ status' = [status EXCEPT ![s] = "SCHEDULED"]
         /\ UNCHANGED <<active, kicked, left, place, handshake, ask, voice, talk, env>>
<1>1. Begin(c, "hosting", s, {Host[s]}) /\ {Host[s]} \in SUBSET Users
  BY CampusAssumption DEF CreateSession
<1>2. /\ call[c] = Idle /\ call' \in [Calls -> Requests]
      /\ call'[c] # Idle /\ call'[c].event = "hosting" /\ call'[c].s = s
      /\ call'[c].users = {Host[s]}
      /\ \A d \in Calls : d # c => call'[d] = call[d]
      /\ "overtake" \notin env =>
           \A d \in Calls : call[d] # Idle => OutOfTheWay(d, {Host[s]}, s)
  BY <1>1, BeginFacts
<1>3. status \in [Sessions -> {"NONE", "SCHEDULED", "ACTIVE", "ENDED"}]
  BY DEF TypeOK
<1> QED
  BY <1>2, <1>3 DEF CreateSession, speech

-----------------------------------------------------------------------------
(* Types.                                                                  *)

LEMMA MapTypes ==
  ASSUME TypeOK, NEW users \in SUBSET Users, NEW r \in Rooms, Map!MoveTo(users, r)
  PROVE  /\ place' \in [Users -> Rooms \cup {Nowhere}]
         /\ \A u \in Users :
              place'[u] = IF u \in users /\ place[u] # Nowhere THEN r ELSE place[u]
BY DEF TypeOK, Map!MoveTo

\* What an event does to the map.
LEMMA EventMoves ==
  ASSUME TypeOK, NEW c \in Calls
  PROVE  /\ EmitJoined(c) => /\ place' \in [Users -> Rooms \cup {Nowhere}]
                             /\ \A u \in Users : place'[u] =
                                  IF u \in call[c].users /\ place[u] # Nowhere
                                  THEN call[c].s ELSE place[u]
         /\ EmitLeft(c) => /\ place' \in [Users -> Rooms \cup {Nowhere}]
                           /\ \A u \in Users : place'[u] =
                                IF u \in call[c].users /\ place[u] # Nowhere
                                THEN CommonArea ELSE place[u]
         /\ EmitEnded(c) => /\ place' \in [Users -> Rooms \cup {Nowhere}]
                            /\ \A u \in Users : place'[u] =
                                 IF place[u] = call[c].s THEN CommonArea ELSE place[u]
         /\ (EmitJoined(c) \/ EmitLeft(c) \/ EmitEnded(c)) =>
              /\ call[c] # Idle /\ call'[c] = Idle
              /\ \A d \in Calls : d # c => call'[d] = call[d]
              /\ Crossed(call[c].users) => "cross" \in env
              /\ UNCHANGED <<rows, handshake, speech, env>>
<1> USE CampusAssumption
<1>1. ASSUME EmitJoined(c)
      PROVE  /\ place' \in [Users -> Rooms \cup {Nowhere}]
             /\ \A u \in Users : place'[u] =
                  IF u \in call[c].users /\ place[u] # Nowhere THEN call[c].s ELSE place[u]
  <2>1. call[c].event = "joined" /\ \A u \in call[c].users : Map!MoveTo({u}, call[c].s)
    BY <1>1 DEF EmitJoined, Emit, Map!EnterSession
  <2>2. PICK u \in Users : call[c].users = {u} /\ call[c].s \in Rooms
    BY <2>1, CallKinds DEF Rooms
  <2>3. Map!MoveTo({u}, call[c].s)
    BY <2>1, <2>2
  <2>4. /\ place' \in [Users -> Rooms \cup {Nowhere}]
        /\ \A v \in Users : place'[v] =
             IF v \in {u} /\ place[v] # Nowhere THEN call[c].s ELSE place[v]
    BY <2>2, <2>3, MapTypes
  <2> QED
    BY <2>2, <2>4
<1>2. ASSUME EmitLeft(c)
      PROVE  /\ place' \in [Users -> Rooms \cup {Nowhere}]
             /\ \A u \in Users : place'[u] =
                  IF u \in call[c].users /\ place[u] # Nowhere THEN CommonArea ELSE place[u]
  <2>1. call[c].event = "left" /\ \A u \in call[c].users : Map!MoveTo({u}, CommonArea)
    BY <1>2 DEF EmitLeft, Emit, Map!LeaveSession
  <2>2. PICK u \in Users : call[c].users = {u}
    BY <2>1, CallKinds
  <2> QED
    BY <2>1, <2>2, MapTypes DEF Rooms
<1>3. ASSUME EmitEnded(c)
      PROVE  /\ place' \in [Users -> Rooms \cup {Nowhere}]
             /\ \A u \in Users : place'[u] =
                  IF place[u] = call[c].s THEN CommonArea ELSE place[u]
  <2>1. call[c].event = "ended" /\ Map!EndSession(call[c].s)
    BY <1>3 DEF EmitEnded, Emit
  <2>2. call[c].s \in Sessions
    BY <2>1, CallKinds
  <2>3. "overlap" \notin env
    BY DEF TypeOK, Disturbances
  <2>4. Map!MoveTo({u \in Users : place[u] = call[c].s}, CommonArea)
    BY <2>1, <2>3 DEF Map!EndSession, Map!MoveTo
  <2> QED
    BY <2>2, <2>4, MapTypes DEF Rooms
<1>4. ASSUME EmitJoined(c) \/ EmitLeft(c) \/ EmitEnded(c)
      PROVE  /\ call[c] # Idle /\ call'[c] = Idle
             /\ \A d \in Calls : d # c => call'[d] = call[d]
             /\ Crossed(call[c].users) => "cross" \in env
             /\ UNCHANGED <<rows, handshake, speech, env>>
  BY <1>4, CallKinds DEF EmitJoined, EmitLeft, EmitEnded, Emit, TypeOK, Idle
<1> QED
  BY <1>1, <1>2, <1>3, <1>4

LEMMA TypeStep == TypeOK /\ OneRow /\ Orderly /\ [Next]_vars => TypeOK' /\ OneRow'
<1> SUFFICES ASSUME TypeOK, OneRow, Orderly, [Next]_vars
             PROVE  TypeOK' /\ OneRow'
  OBVIOUS
<1> USE CampusAssumption
<1>1. UNCHANGED active => OneRow'
  BY DEF OneRow, Once
<1>2. ASSUME NEW c \in Calls, NEW u \in Users, NEW s \in Sessions, Enters(c, u, s)
      PROVE  TypeOK' /\ OneRow'
  <2>1. call' \in [Calls -> Requests]
    BY <1>2, EnterCall
  <2>2. active' \in [Users -> Seq(Sessions)] /\ OneRow'
    BY <1>2, EnterRows DEF Enters
  <2> QED
    BY <1>2, <2>1, <2>2 DEF Enters, TypeOK, speech
<1>3. ASSUME NEW c \in Calls, NEW u \in Users, NEW s \in Sessions, Leaves(c, u, s)
      PROVE  TypeOK' /\ OneRow'
  <2>1. call' \in [Calls -> Requests]
    BY <1>3, BeginFacts DEF Leaves
  <2>2. active' \in [Users -> Seq(Sessions)] /\ OneRow'
    BY <1>3, LeaveRows DEF Leaves
  <2> QED
    BY <1>3, <2>1, <2>2 DEF Leaves, TypeOK, speech
<1>4. ASSUME NEW c \in Calls, NEW s \in Sessions, CreateSession(c, s) \/ EndRows(c, s)
      PROVE  TypeOK' /\ OneRow'
  <2>1. CASE CreateSession(c, s)
    <3>1. /\ status' = [status EXCEPT ![s] = "SCHEDULED"] /\ call' \in [Calls -> Requests]
          /\ UNCHANGED <<active, kicked, left, place, handshake, ask, voice, talk, env>>
      BY <2>1, CreateFacts
    <3> QED
      BY <1>1, <3>1 DEF TypeOK
  <2>2. CASE EndRows(c, s)
    <3>1. UNCHANGED <<status, kicked, place, handshake, ask, voice, talk, env>>
      BY <2>2 DEF EndRows, speech
    <3> QED
      BY <2>2, <3>1, EndFacts DEF TypeOK
  <2> QED
    BY <1>4, <2>1, <2>2
<1>5. ASSUME NEW c \in Calls, EndStatus(c)
      PROVE  TypeOK' /\ OneRow'
  <2>1. call' \in [Calls -> Requests]
    BY <1>5, TurnFacts DEF EndStatus
  <2> QED
    BY <1>1, <1>5, <2>1 DEF EndStatus, TypeOK, speech
<1>6. ASSUME NEW c \in Calls, Refused(c)
      PROVE  TypeOK' /\ OneRow'
  BY <1>1, <1>6 DEF Refused, TypeOK, rows, speech, Requests
<1>7. ASSUME NEW c \in Calls, EmitJoined(c) \/ EmitLeft(c) \/ EmitEnded(c)
      PROVE  TypeOK' /\ OneRow'
  <2>1. place' \in [Users -> Rooms \cup {Nowhere}] /\ UNCHANGED <<rows, handshake, speech, env>>
    BY <1>7, EventMoves
  <2>2. call' \in [Calls -> Requests]
    BY <1>7 DEF EmitJoined, EmitLeft, EmitEnded, Emit, TypeOK, Requests
  <2> QED
    BY <1>1, <2>1, <2>2 DEF TypeOK, rows, speech
<1>8. ASSUME NEW c \in Calls, DeleteVoiceRoom(c)
      PROVE  TypeOK' /\ OneRow'
  <2>2. call' \in [Calls -> Requests]
    BY <1>8, TurnFacts DEF DeleteVoiceRoom
  <2>3. talk' \in [Sessions -> SUBSET Speakers]
    BY <1>8 DEF DeleteVoiceRoom, TypeOK
  <2> QED
    BY <1>1, <1>8, <2>2, <2>3 DEF DeleteVoiceRoom, TypeOK, rows
<1>9. ASSUME NEW c \in Calls, Lose(c)
      PROVE  TypeOK' /\ OneRow'
  BY <1>1, <1>9 DEF Lose, TypeOK, rows, speech, Requests
<1>10. ASSUME NEW s \in Sessions, Start(s)
      PROVE  TypeOK' /\ OneRow'
  BY <1>1, <1>10 DEF Start, TypeOK, speech
<1>11. ASSUME NEW s \in Sessions, NEW u \in Users, JoinAgain(s, u)
      PROVE  TypeOK' /\ OneRow'
  <2>1. place' \in [Users -> Rooms \cup {Nowhere}]
    BY <1>11, MapTypes DEF JoinAgain, Map!EnterSession, Rooms
  <2> QED
    BY <1>1, <1>11, <2>1 DEF JoinAgain, TypeOK, rows, speech
<1>12. ASSUME NEW u \in Users,
              Connect(u) \/ AnswerHandshake(u) \/ Register(u) \/ Disconnect(u)
       PROVE  TypeOK' /\ OneRow'
  <2>1. handshake' \in [Users -> {"none", "asked"} \cup Rooms]
    <3>1. CASE Connect(u) \/ Register(u) \/ Disconnect(u)
      BY <3>1 DEF Connect, Register, Disconnect, TypeOK
    <3>2. CASE AnswerHandshake(u)
      BY <3>2 DEF AnswerHandshake, TypeOK
    <3> QED
      BY <1>12, <3>1, <3>2
  <2>2. place' \in [Users -> Rooms \cup {Nowhere}]
    BY <1>12 DEF Connect, AnswerHandshake, Register, Disconnect, TypeOK, Map!Vanish, Map!Appear
  <2>3. UNCHANGED <<rows, call, speech, env>>
    BY <1>12 DEF Connect, AnswerHandshake, Register, Disconnect
  <2> QED
    BY <1>1, <2>1, <2>2, <2>3 DEF TypeOK, rows, speech
<1>13. CASE \/ UNCHANGED vars
            \/ \E u \in Speakers :
                 VoiceIssue(u) \/ \E s \in Sessions : VoiceAsk(u, s) \/ EnterVoice(u, s) \/ LeaveVoice(u, s)
  <2>1. CASE UNCHANGED vars
    BY <1>1, <2>1 DEF vars, TypeOK, rows
  <2>2. ASSUME NEW u \in Speakers, VoiceIssue(u)
        PROVE  TypeOK' /\ OneRow'
    <3>1. ask[u] # Idle => ask[u].s \in Sessions
      BY DEF TypeOK
    <3> QED
      BY <1>1, <2>2, <3>1 DEF VoiceIssue, TypeOK, rows
  <2>3. ASSUME NEW u \in Speakers, NEW s \in Sessions,
               VoiceAsk(u, s) \/ EnterVoice(u, s) \/ LeaveVoice(u, s)
        PROVE  TypeOK' /\ OneRow'
    <3>1. ask' \in [Speakers -> {Idle} \cup [event : {"voice"}, s : Sessions]]
      <4>1. [event |-> "voice", s |-> s] \in [event : {"voice"}, s : Sessions]
        OBVIOUS
      <4>2. ask' = ask \/ ask' = [ask EXCEPT ![u] = [event |-> "voice", s |-> s]]
        BY <2>3 DEF VoiceAsk, EnterVoice, LeaveVoice
      <4> QED
        BY <4>1, <4>2 DEF TypeOK
    <3>2. talk' \in [Sessions -> SUBSET Speakers]
      <4>1. talk \in [Sessions -> SUBSET Speakers] /\ talk[s] \in SUBSET Speakers
        BY DEF TypeOK
      <4>2. talk[s] \cup {u} \in SUBSET Speakers /\ talk[s] \ {u} \in SUBSET Speakers
        BY <4>1
      <4>3. \E T \in {talk[s], talk[s] \cup {u}, talk[s] \ {u}} :
              talk' = talk \/ talk' = [talk EXCEPT ![s] = T]
        BY <2>3 DEF VoiceAsk, EnterVoice, LeaveVoice
      <4> QED
        BY <4>1, <4>2, <4>3
    <3>3. UNCHANGED <<rows, call, place, handshake, voice, env>>
      BY <2>3 DEF VoiceAsk, EnterVoice, LeaveVoice
    <3> QED
      BY <1>1, <3>1, <3>2, <3>3 DEF TypeOK, rows
  <2> QED
    BY <1>13, <2>1, <2>2, <2>3
<1>14. CASE Next
  <2>1. \/ \E c \in Calls, u \in Users, s \in Sessions : Enters(c, u, s) \/ Leaves(c, u, s)
        \/ \E c \in Calls, s \in Sessions : CreateSession(c, s) \/ EndRows(c, s)
        \/ \E c \in Calls : EndStatus(c) \/ Refused(c)
        \/ \E c \in Calls : EmitJoined(c) \/ EmitLeft(c) \/ EmitEnded(c)
        \/ \E c \in Calls : DeleteVoiceRoom(c) \/ Lose(c)
        \/ \E s \in Sessions : Start(s) \/ \E u \in Users : JoinAgain(s, u)
        \/ \E u \in Users : Connect(u) \/ AnswerHandshake(u) \/ Register(u) \/ Disconnect(u)
        \/ \E u \in Speakers :
             VoiceIssue(u) \/ \E s \in Sessions : VoiceAsk(u, s) \/ EnterVoice(u, s) \/ LeaveVoice(u, s)
    BY <1>14, EntersOrLeaves DEF Next
  <2> QED
    BY <1>2, <1>3, <1>4, <1>5, <1>6, <1>7, <1>8, <1>9, <1>10, <1>11, <1>12, <1>13, <2>1
<1> QED
  BY <1>13, <1>14

LEMMA EnvStays ==
  ASSUME [Next]_vars
  PROVE  env' = env
<1>1. ASSUME NEW c \in Calls, NEW s \in Sessions,
             \/ CreateSession(c, s) \/ EndRows(c, s)
             \/ \E u \in Users : Join(c, s, u) \/ Leave(c, s, u) \/ Kick(c, s, u)
      PROVE  env' = env
  BY <1>1 DEF CreateSession, EndRows, Join, Leave, Kick
<1>2. ASSUME NEW c \in Calls,
             \/ HostRow(c) \/ EndStatus(c) \/ DeleteVoiceRoom(c) \/ Lose(c)
             \/ EmitJoined(c) \/ EmitLeft(c) \/ EmitEnded(c)
      PROVE  env' = env
  BY <1>2 DEF HostRow, EndStatus, EmitJoined, EmitLeft, EmitEnded, Emit, DeleteVoiceRoom, Lose
<1>3. ASSUME NEW s \in Sessions, Start(s) \/ \E u \in Users : JoinAgain(s, u)
      PROVE  env' = env
  BY <1>3 DEF Start, JoinAgain
<1>4. ASSUME NEW u \in Users,
             Connect(u) \/ AnswerHandshake(u) \/ Register(u) \/ Disconnect(u)
      PROVE  env' = env
  BY <1>4 DEF Connect, AnswerHandshake, Register, Disconnect
<1>5. ASSUME NEW u \in Speakers,
             \/ VoiceIssue(u)
             \/ \E s \in Sessions : VoiceAsk(u, s) \/ EnterVoice(u, s) \/ LeaveVoice(u, s)
      PROVE  env' = env
  BY <1>5 DEF VoiceIssue, VoiceAsk, EnterVoice, LeaveVoice
<1>6. CASE UNCHANGED vars
  BY <1>6 DEF vars
<1> QED
  BY <1>1, <1>2, <1>3, <1>4, <1>5, <1>6 DEF Next

LEMMA OrderlyStep == TypeOK /\ OneRow /\ Orderly /\ [Next]_vars => Orderly'
<1> SUFFICES ASSUME TypeOK, OneRow, Orderly, [Next]_vars, "overtake" \notin env
             PROVE  RowsOpen' /\ HostsAwaited' /\ RowsClosed' /\ NotYetClosing' /\ Apart'
  BY EnvStays DEF Orderly
<1>0. RowsOpen /\ HostsAwaited /\ RowsClosed /\ NotYetClosing /\ Apart
  BY DEF Orderly
<1> DEFINE Goal == RowsOpen' /\ HostsAwaited' /\ RowsClosed' /\ NotYetClosing' /\ Apart'
<1>1. ASSUME UNCHANGED <<active, status, call>>
      PROVE  Goal
  BY <1>0, <1>1 DEF RowsOpen, HostsAwaited, RowsClosed, NotYetClosing, Apart, In
<1>2. ASSUME NEW c \in Calls, UNCHANGED <<active, status>>, call'[c] = Idle,
             \A d \in Calls : d # c => call'[d] = call[d]
      PROVE  Goal
  <2>1. Idle.event = "none"
    BY DEF Idle
  <2> QED
    BY <1>0, <1>2, <2>1 DEF RowsOpen, HostsAwaited, RowsClosed, NotYetClosing, Apart, In
<1>3. ASSUME NEW c \in Calls, NEW u \in Users, NEW s \in Sessions, Enters(c, u, s)
      PROVE  Goal
  <2>1. /\ call'[c].event = "joined" /\ call'[c].users = {u}
        /\ \A d \in Calls : d # c => call'[d] = call[d]
        /\ \A d \in Calls : d # c /\ call[d] # Idle => OutOfTheWay(d, {u}, s)
    BY <1>3, EnterCall
  <2>2. \A v \in Users, x \in Sessions : In(v, x)' <=> In(v, x) \/ (v = u /\ x = s)
    BY <1>3, EnterRows DEF Enters
  <2>3. status' = status /\ status[s] \in Joinable
    BY <1>3 DEF Enters
  <2>4. RowsOpen' /\ HostsAwaited' /\ NotYetClosing'
    BY <1>0, <2>1, <2>2, <2>3 DEF RowsOpen, HostsAwaited, NotYetClosing
  <2>5. ASSUME NEW d \in Calls, NEW v \in Users, call'[d].event = "closing"
        PROVE  ~In(v, call[d].s)'
    <3>1. d # c /\ call'[d] = call[d]
      BY <2>1, <2>5
    <3>2. call[d] # Idle /\ call[d].s \in Sessions /\ call[d].event = "closing"
      BY <2>5, <3>1, CallKinds
    <3>3. PICK x \in Sessions : x = call[d].s
      BY <3>2
    <3>4. x # s /\ ~In(v, x)
      BY <1>0, <2>1, <3>1, <3>2, <3>3 DEF OutOfTheWay, RowsClosed
    <3>5. ~In(v, x)'
      BY <2>2, <3>4
    <3> QED
      BY <3>1, <3>3, <3>5 DEF In
  <2>6. RowsClosed'
    BY <2>5 DEF RowsClosed
  <2>7. Apart'
    BY <1>0, <2>1 DEF Apart, OutOfTheWay
  <2> QED
    BY <2>4, <2>6, <2>7
<1>4. ASSUME NEW c \in Calls, NEW u \in Users, NEW s \in Sessions, Leaves(c, u, s)
      PROVE  Goal
  <2>1. /\ call'[c].event = "left" /\ call'[c].users = {u}
        /\ \A d \in Calls : d # c => call'[d] = call[d]
        /\ \A d \in Calls : call[d] # Idle => OutOfTheWay(d, {u}, s)
    BY <1>4, BeginFacts DEF Leaves
  <2>2. \A v \in Users, x \in Sessions : In(v, x)' => In(v, x)
    BY <1>4, LeaveRows DEF Leaves
  <2>3. status' = status
    BY <1>4 DEF Leaves
  <2>4. RowsOpen' /\ HostsAwaited' /\ NotYetClosing'
    BY <1>0, <2>1, <2>2, <2>3 DEF RowsOpen, HostsAwaited, NotYetClosing
  <2>5. ASSUME NEW d \in Calls, NEW v \in Users, call'[d].event = "closing"
        PROVE  ~In(v, call[d].s)'
    <3>1. call'[d] = call[d] /\ call[d].s \in Sessions
      BY <2>1, <2>5, CallKinds
    <3>2. PICK x \in Sessions : x = call[d].s
      BY <3>1
    <3>3. ~In(v, x)'
      BY <1>0, <2>2, <2>5, <3>1, <3>2 DEF RowsClosed
    <3> QED
      BY <3>1, <3>2, <3>3 DEF In
  <2>6. RowsClosed'
    BY <2>5 DEF RowsClosed
  <2>7. Apart'
    BY <1>0, <2>1 DEF Apart, OutOfTheWay
  <2> QED
    BY <2>4, <2>6, <2>7
<1>5. ASSUME NEW c \in Calls, NEW s \in Sessions, CreateSession(c, s)
      PROVE  Goal
  <2>1. /\ call'[c].event = "hosting" /\ call'[c].s = s /\ call'[c].users = {Host[s]}
        /\ \A d \in Calls : d # c => call'[d] = call[d]
        /\ \A d \in Calls : call[d] # Idle => OutOfTheWay(d, {Host[s]}, s)
        /\ status' = [status EXCEPT ![s] = "SCHEDULED"] /\ UNCHANGED active
    BY <1>5, CreateFacts
  <2>2. status'[s] \in Joinable /\ \A x \in Sessions : x # s => status'[x] = status[x]
    BY <2>1 DEF TypeOK, Joinable
  <2>3. RowsOpen' /\ HostsAwaited'
    BY <1>0, <2>1, <2>2, CallKinds DEF RowsOpen, HostsAwaited, In
  <2>4. RowsClosed' /\ NotYetClosing'
    BY <1>0, <2>1, CallKinds DEF RowsClosed, NotYetClosing, In, OutOfTheWay
  <2>5. Apart'
    BY <1>0, <2>1 DEF Apart, OutOfTheWay
  <2> QED
    BY <2>3, <2>4, <2>5
<1>6. ASSUME NEW c \in Calls, NEW s \in Sessions, EndRows(c, s)
      PROVE  Goal
  <2>1. /\ call'[c].event = "closing" /\ call'[c].s = s /\ call'[c].users = Members(s)
        /\ \A d \in Calls : d # c => call'[d] = call[d]
        /\ \A d \in Calls : call[d] # Idle =>
             OutOfTheWay(d, Members(s), s) /\ Host[s] \notin call[d].users
        /\ \A v \in Users, x \in Sessions : In(v, x)' <=> In(v, x) /\ x # s
    BY <1>6, EndFacts
  <2>2. status' = status
    BY <1>6 DEF EndRows
  <2>3. RowsOpen' /\ HostsAwaited'
    BY <1>0, <2>1, <2>2 DEF RowsOpen, HostsAwaited
  <2>4. \A d \in Calls : call[d].event = "hosting" => call[d].s # s
    BY <2>1, CallKinds
  <2>5. NotYetClosing'
    BY <1>0, <2>1, <2>4 DEF NotYetClosing
  <2>6. ASSUME NEW d \in Calls, NEW v \in Users, call'[d].event = "closing"
        PROVE  ~In(v, call[d].s)'
    <3>1. CASE d = c
      BY <2>1, <3>1 DEF In
    <3>2. CASE d # c
      <4>1. call'[d] = call[d] /\ call[d].s \in Sessions
        BY <2>1, <2>6, <3>2, CallKinds
      <4>2. PICK x \in Sessions : x = call[d].s
        BY <4>1
      <4>3. ~In(v, x)'
        BY <1>0, <2>1, <2>6, <4>1, <4>2 DEF RowsClosed
      <4> QED
        BY <4>1, <4>2, <4>3 DEF In
    <3> QED
      BY <3>1, <3>2
  <2>7. RowsClosed'
    BY <2>6 DEF RowsClosed
  <2>8. Apart'
    BY <1>0, <2>1 DEF Apart, OutOfTheWay
  <2> QED
    BY <2>3, <2>5, <2>7, <2>8
<1>7. ASSUME NEW c \in Calls, EndStatus(c)
      PROVE  Goal
  <2>1. /\ call[c].event = "closing" /\ call[c] # Idle
        /\ call'[c].event = "delete"
        /\ call'[c].s = call[c].s /\ call'[c].users = call[c].users
        /\ \A d \in Calls : d # c => call'[d] = call[d]
        /\ UNCHANGED active /\ call[c].s \in Sessions
    BY <1>7, TurnFacts, CallKinds DEF EndStatus
  <2>2. \A x \in Sessions : x # call[c].s => status'[x] = status[x]
    BY <1>7 DEF EndStatus, TypeOK
  <2>3. RowsOpen'
    BY <1>0, <2>1, <2>2 DEF RowsOpen, RowsClosed, In
  <2>4. HostsAwaited'
    BY <1>0, <2>1, <2>2, CallKinds DEF HostsAwaited, NotYetClosing
  <2>5. RowsClosed' /\ NotYetClosing'
    BY <1>0, <2>1 DEF RowsClosed, NotYetClosing, In
  <2>6. Apart'
    BY <1>0, <2>1 DEF Apart
  <2> QED
    BY <2>3, <2>4, <2>5, <2>6
<1>8. ASSUME NEW c \in Calls, Refused(c) \/ Lose(c)
      PROVE  Goal
  BY <1>2, <1>8 DEF Refused, Lose, rows, TypeOK
<1>9. ASSUME NEW c \in Calls, EmitJoined(c) \/ EmitLeft(c) \/ EmitEnded(c)
      PROVE  Goal
  BY <1>2, <1>9, EventMoves DEF rows
<1>10. ASSUME NEW c \in Calls, DeleteVoiceRoom(c)
       PROVE  Goal
  <2>1. /\ call[c].event = "delete" /\ call[c] # Idle /\ call'[c].event = "ended"
        /\ call'[c].s = call[c].s /\ call'[c].users = call[c].users
        /\ \A d \in Calls : d # c => call'[d] = call[d]
        /\ UNCHANGED <<active, status>>
    BY <1>10, TurnFacts DEF DeleteVoiceRoom, rows
  <2>2. RowsOpen' /\ HostsAwaited' /\ RowsClosed' /\ NotYetClosing'
    BY <1>0, <2>1 DEF RowsOpen, HostsAwaited, RowsClosed, NotYetClosing, In
  <2>3. Apart'
    BY <1>0, <2>1 DEF Apart
  <2> QED
    BY <2>2, <2>3
<1>11. ASSUME NEW s \in Sessions, Start(s)
       PROVE  Goal
  <2>1. UNCHANGED <<active, call>> /\ status' = [status EXCEPT ![s] = "ACTIVE"]
    BY <1>11 DEF Start
  <2>2. \A x \in Sessions : status[x] \in Joinable => status'[x] \in Joinable
    BY <2>1 DEF TypeOK, Joinable
  <2>3. RowsOpen' /\ HostsAwaited'
    BY <1>0, <2>1, <2>2, CallKinds DEF RowsOpen, HostsAwaited, In
  <2> QED
    BY <1>0, <2>1, <2>3 DEF RowsClosed, NotYetClosing, Apart, In
<1>12. ASSUME NEW s \in Sessions, NEW u \in Users, JoinAgain(s, u)
       PROVE  Goal
  BY <1>1, <1>12 DEF JoinAgain, rows
<1>13. ASSUME NEW u \in Users,
              Connect(u) \/ AnswerHandshake(u) \/ Register(u) \/ Disconnect(u)
       PROVE  Goal
  BY <1>1, <1>13 DEF Connect, AnswerHandshake, Register, Disconnect, rows
<1>14. CASE Quiet
  BY <1>1, <1>14 DEF Quiet, rows
<1> QED
  BY <1>3, <1>4, <1>5, <1>6, <1>7, <1>8, <1>9, <1>10, <1>11, <1>12, <1>13, <1>14,
     StepCases

LEMMA TypesAlways == Spec => [](TypeOK /\ OneRow /\ Orderly)
<1>1. Init => TypeOK /\ OneRow /\ Orderly
  <2> SUFFICES ASSUME Init
               PROVE  TypeOK /\ OneRow /\ Orderly
    OBVIOUS
  <2>1. TypeOK
    BY CampusAssumption DEF Init, TypeOK, Rooms, Requests, Map!NobodyPlaced
  <2>2. OneRow
    BY DEF Init, OneRow, Once
  <2>3. Orderly
    BY DEF Init, Orderly, RowsOpen, HostsAwaited, RowsClosed, NotYetClosing, Apart, In, Idle
  <2> QED
    BY <2>1, <2>2, <2>3
<1> QED
  BY <1>1, TypeStep, OrderlyStep, PTL DEF Spec

\* TypeOK: every variable keeps its type, for any users, sessions and requests.
THEOREM TypeCorrect == Spec => []TypeOK
BY TypesAlways, PTL

\* A user has one row in a session, and unless a request overtakes another the row
\* is ACTIVE only while the session is open: between the writes of create() and of
\* end() too, and when a request fails half way (sessions.service.ts:83-123,
\* 196-218, 295-309).
OpenRows ==
  \A u \in Users :
    /\ Once(active[u])
    /\ "overtake" \notin env => \A s \in Sessions : In(u, s) => status[s] \in Joinable

THEOREM RowsOnlyInOpenSessions == Spec => []OpenRows
<1>1. TypeOK /\ OneRow /\ Orderly => OpenRows
  BY DEF OneRow, Orderly, RowsOpen, OpenRows
<1> QED
  BY <1>1, TypesAlways, PTL

-----------------------------------------------------------------------------
(* Requests.                                                               *)

LEMMA DeleteFacts ==
  ASSUME TypeOK, NEW c \in Calls, DeleteVoiceRoom(c)
  PROVE  /\ call[c].event = "delete" /\ call'[c].event = "ended"
         /\ call'[c] # Idle
         /\ call'[c].s = call[c].s /\ call'[c].users = call[c].users
         /\ \A d \in Calls : d # c => call'[d] = call[d]
         /\ UNCHANGED <<rows, place, handshake, ask, voice, env>>
<1>1. call[c].event = "delete" /\ call' = [call EXCEPT ![c].event = "ended"]
  BY DEF DeleteVoiceRoom
<1>2. UNCHANGED <<rows, place, handshake, ask, voice, env>>
  BY DEF DeleteVoiceRoom, rows, speech
<1> QED
  BY <1>1, <1>2, TurnFacts

LEMMA StatusFacts ==
  ASSUME TypeOK, NEW c \in Calls, EndStatus(c)
  PROVE  /\ call[c].event = "closing" /\ call'[c].event = "delete" /\ call'[c] # Idle
         /\ call[c].s \in Sessions
         /\ call'[c].s = call[c].s /\ call'[c].users = call[c].users
         /\ \A d \in Calls : d # c => call'[d] = call[d]
         /\ status'[call[c].s] = "ENDED"
         /\ \A x \in Sessions : x # call[c].s => status'[x] = status[x]
         /\ UNCHANGED <<active, place, handshake, ask, voice, talk, env>>
<1>1. /\ call[c].event = "closing" /\ call' = [call EXCEPT ![c].event = "delete"]
      /\ status' = [status EXCEPT ![call[c].s] = "ENDED"]
      /\ UNCHANGED <<active, place, handshake, ask, voice, talk, env>>
  BY DEF EndStatus, speech
<1>2. call[c].s \in Sessions
  BY <1>1, CallKinds
<1>3. /\ call'[c] # Idle /\ call'[c].event = "delete"
      /\ call'[c].s = call[c].s /\ call'[c].users = call[c].users
      /\ \A d \in Calls : d # c => call'[d] = call[d]
  BY <1>1, TurnFacts
<1>4. /\ status'[call[c].s] = "ENDED"
      /\ \A x \in Sessions : x # call[c].s => status'[x] = status[x]
  BY <1>1, <1>2 DEF TypeOK
<1> QED
  BY <1>1, <1>2, <1>3, <1>4

-----------------------------------------------------------------------------
(* Voice.                                                                  *)

LEMMA VoiceStep == TypeOK /\ OneRow /\ Orderly /\ VoiceEnds /\ [Next]_vars => VoiceEnds'
<1> SUFFICES ASSUME TypeOK, OneRow, Orderly, VoiceEnds, [Next]_vars,
                    env' \cap {"outlive", "lost", "overtake"} = {},
                    NEW s \in Sessions, status'[s] = "ENDED",
                    \A c \in Calls : call'[c] # Idle => call'[c].s # s \/ call'[c].event # "delete"
             PROVE  talk'[s] = {}
  BY DEF VoiceEnds
<1>1. ASSUME UNCHANGED talk, env' = env, status[s] = "ENDED",
             \A c \in Calls : call[c] # Idle => call[c].s # s \/ call[c].event # "delete"
      PROVE  talk'[s] = {}
  BY <1>1 DEF VoiceEnds
<1>2. ASSUME NEW c \in Calls, NEW u \in Users, NEW x \in Sessions, Enters(c, u, x)
      PROVE  talk'[s] = {}
  <2>1. call[c].event # "delete" /\ \A d \in Calls : d # c => call'[d] = call[d]
    BY <1>2, EnterCall
  <2>2. status[s] = "ENDED" /\ UNCHANGED <<talk, env>>
    BY <1>2 DEF Enters, speech
  <2> QED
    BY <1>1, <2>1, <2>2
<1>3. ASSUME NEW c \in Calls, NEW u \in Users, NEW x \in Sessions, Leaves(c, u, x)
      PROVE  talk'[s] = {}
  <2>1. call[c] = Idle /\ \A d \in Calls : d # c => call'[d] = call[d]
    BY <1>3, BeginFacts DEF Leaves
  <2>2. status[s] = "ENDED" /\ UNCHANGED <<talk, env>>
    BY <1>3 DEF Leaves, speech
  <2> QED
    BY <1>1, <2>1, <2>2
<1>4. ASSUME NEW c \in Calls, NEW x \in Sessions, CreateSession(c, x) \/ EndRows(c, x)
      PROVE  talk'[s] = {}
  <2>1. call[c] = Idle /\ \A d \in Calls : d # c => call'[d] = call[d]
    BY <1>4, CreateFacts, EndFacts
  <2>2. status'[s] = status[s] /\ UNCHANGED <<talk, env>>
    <3>1. CASE CreateSession(c, x)
      <4>1. status' = [status EXCEPT ![x] = "SCHEDULED"] /\ UNCHANGED <<talk, env>>
        BY <3>1, CreateFacts
      <4> QED
        BY <4>1 DEF TypeOK
    <3>2. CASE EndRows(c, x)
      BY <3>2 DEF EndRows, speech
    <3> QED
      BY <1>4, <3>1, <3>2
  <2> QED
    BY <1>1, <2>1, <2>2
<1>5. ASSUME NEW c \in Calls, EndStatus(c)
       PROVE  talk'[s] = {}
  <2>1. /\ call[c].event = "closing" /\ \A d \in Calls : d # c => call'[d] = call[d]
        /\ call'[c] # Idle /\ call'[c].event = "delete" /\ call'[c].s = call[c].s
        /\ \A x \in Sessions : x # call[c].s => status'[x] = status[x]
        /\ UNCHANGED <<talk, env>>
    BY <1>5, StatusFacts
  <2>2. s # call[c].s
    BY <2>1
  <2> QED
    BY <1>1, <2>1, <2>2
<1>6. ASSUME NEW c \in Calls, Refused(c)
       PROVE  talk'[s] = {}
  <2>1. call[c].event # "delete" /\ \A d \in Calls : d # c => call'[d] = call[d]
    BY <1>6 DEF Refused, TypeOK
  <2> QED
    BY <1>1, <1>6, <2>1 DEF Refused, rows, speech
<1>7. ASSUME NEW c \in Calls, EmitJoined(c) \/ EmitLeft(c) \/ EmitEnded(c)
      PROVE  talk'[s] = {}
  <2>1. call[c].event # "delete"
    BY <1>7 DEF EmitJoined, EmitLeft, EmitEnded, Emit
  <2>2. /\ \A d \in Calls : d # c => call'[d] = call[d]
        /\ UNCHANGED <<rows, speech, env>>
    BY <1>7, EventMoves
  <2> QED
    BY <1>1, <2>1, <2>2 DEF rows, speech
<1>8. ASSUME NEW c \in Calls, DeleteVoiceRoom(c)
      PROVE  talk'[s] = {}
  <2>1. /\ call[c].event = "delete" /\ \A d \in Calls : d # c => call'[d] = call[d]
        /\ UNCHANGED <<rows, env>>
    BY <1>8, DeleteFacts
  <2>2. talk' = [talk EXCEPT ![call[c].s] = {}]
    BY <1>8, <2>1 DEF DeleteVoiceRoom
  <2>3. CASE call[c].s = s
    BY <2>2, <2>3 DEF TypeOK
  <2>4. CASE call[c].s # s
    <3>1. talk[s] = {}
      BY <2>1, <2>4 DEF VoiceEnds, rows
    <3> QED
      BY <2>2, <2>4, <3>1 DEF TypeOK
  <2> QED
    BY <2>3, <2>4
<1>9. ASSUME NEW c \in Calls, Lose(c)
      PROVE  FALSE
  BY <1>9 DEF Lose
<1>10. ASSUME NEW x \in Sessions, Start(x)
      PROVE  talk'[s] = {}
  BY <1>1, <1>10 DEF Start, speech, TypeOK
<1>11. ASSUME NEW x \in Sessions, NEW u \in Users, JoinAgain(x, u)
      PROVE  talk'[s] = {}
  BY <1>1, <1>11 DEF JoinAgain, rows, speech
<1>12. ASSUME NEW u \in Users,
              Connect(u) \/ AnswerHandshake(u) \/ Register(u) \/ Disconnect(u)
       PROVE  talk'[s] = {}
  BY <1>1, <1>12 DEF Connect, AnswerHandshake, Register, Disconnect, rows, speech
<1>13. CASE UNCHANGED vars
  BY <1>1, <1>13 DEF vars
<1>14. ASSUME NEW u \in Speakers, NEW x \in Sessions, EnterVoice(u, x)
       PROVE  talk'[s] = {}
  <2>1. talk' = [talk EXCEPT ![x] = @ \cup {u}] /\ UNCHANGED <<rows, call, env>>
    BY <1>14 DEF EnterVoice
  <2>2. status[s] = "ENDED" /\ talk[s] = {}
    BY <2>1 DEF VoiceEnds, rows
  <2>3. In(u, x)
    BY <1>14, <2>1 DEF EnterVoice
  <2>4. x # s
    BY <2>1, <2>2, <2>3, CampusAssumption DEF Orderly, RowsOpen, Joinable
  <2> QED
    BY <2>1, <2>2, <2>4 DEF TypeOK
<1>15. ASSUME NEW u \in Speakers, NEW x \in Sessions, LeaveVoice(u, x)
       PROVE  talk'[s] = {}
  <2>1. talk' = [talk EXCEPT ![x] = @ \ {u}] /\ UNCHANGED <<rows, call, env>>
    BY <1>15 DEF LeaveVoice
  <2>2. talk[s] = {}
    BY <2>1 DEF VoiceEnds, rows
  <2> QED
    BY <2>1, <2>2 DEF TypeOK
<1>16. ASSUME NEW u \in Speakers, VoiceIssue(u) \/ \E x \in Sessions : VoiceAsk(u, x)
       PROVE  talk'[s] = {}
  BY <1>1, <1>16 DEF VoiceIssue, VoiceAsk, rows
<1>17. CASE Next
  BY <1>2, <1>3, <1>4, <1>5, <1>6, <1>7, <1>8, <1>9, <1>10, <1>11, <1>12, <1>14, <1>15,
     <1>16, <1>17, EntersOrLeaves DEF Next
<1> QED
  BY <1>13, <1>17

\* VoiceEnds: the voice room of a session whose end has been announced is empty
\* and stays so, while LiveKit answers, no token outlives its row and no request
\* writes on what it read before another wrote.  The end has closed the rows by
\* then, in a step of its own, and none is opened while it is under way.
THEOREM VoiceEndsAlways == Spec => []VoiceEnds
<1>1. Init => VoiceEnds
  BY DEF Init, VoiceEnds
<1> QED
  BY <1>1, VoiceStep, TypesAlways, PTL DEF Spec

LEMMA VoiceGrantedStep ==
  ASSUME TypeOK, OneRow, Orderly, [Next]_vars, NEW u \in Speakers, NEW s \in Sessions,
         s \in voice'[u] \ voice[u]
  PROVE  In(u, s) /\ ("overtake" \notin env => status[s] \in Joinable)
<1>1. voice' # voice
  OBVIOUS
<1>2. \E v \in Speakers : VoiceIssue(v)
  <2>1. ASSUME NEW c \in Calls, NEW x \in Sessions,
               \/ CreateSession(c, x) \/ EndRows(c, x)
               \/ \E v \in Users : Join(c, x, v) \/ Leave(c, x, v) \/ Kick(c, x, v)
        PROVE  voice' = voice
    BY <2>1 DEF CreateSession, EndRows, Join, Leave, Kick, speech
  <2>2. ASSUME NEW c \in Calls,
               \/ HostRow(c) \/ EndStatus(c) \/ DeleteVoiceRoom(c) \/ Lose(c)
               \/ EmitJoined(c) \/ EmitLeft(c) \/ EmitEnded(c)
        PROVE  voice' = voice
    BY <2>2 DEF HostRow, EndStatus, EmitJoined, EmitLeft, EmitEnded, Emit, DeleteVoiceRoom,
                Lose, speech
  <2>3. ASSUME NEW x \in Sessions, Start(x) \/ \E v \in Users : JoinAgain(x, v)
        PROVE  voice' = voice
    BY <2>3 DEF Start, JoinAgain, speech
  <2>4. ASSUME NEW v \in Users,
               Connect(v) \/ AnswerHandshake(v) \/ Register(v) \/ Disconnect(v)
        PROVE  voice' = voice
    BY <2>4 DEF Connect, AnswerHandshake, Register, Disconnect, speech
  <2>5. ASSUME NEW v \in Speakers, NEW x \in Sessions,
               VoiceAsk(v, x) \/ EnterVoice(v, x) \/ LeaveVoice(v, x)
        PROVE  voice' = voice
    BY <2>5 DEF VoiceAsk, EnterVoice, LeaveVoice
  <2>6. ~UNCHANGED vars
    BY <1>1 DEF vars
  <2> QED
    BY <1>1, <2>1, <2>2, <2>3, <2>4, <2>5, <2>6 DEF Next
<1>3. PICK v \in Speakers : VoiceIssue(v)
  BY <1>2
<1>4. voice' = [voice EXCEPT ![v] = @ \cup {ask[v].s}] /\ Grant(v, ask[v].s)
  BY <1>1, <1>3 DEF VoiceIssue
<1>5. v = u /\ ask[v].s = s
  BY <1>4 DEF TypeOK
<1> QED
  BY <1>4, <1>5, CampusAssumption DEF Grant, Orderly, RowsOpen

\* VoiceForParticipants: no step signs a voice token for somebody outside the session,
\* nor, unless a request overtakes another, for a session that is not open: the row
\* is read after the status, and rows are ACTIVE only in open sessions.
THEOREM VoiceForParticipantsAlways == Spec => VoiceForParticipants
<1>1. TypeOK /\ OneRow /\ Orderly /\ [Next]_vars =>
        [\A u \in Speakers, s \in Sessions :
           s \in voice'[u] \ voice[u] =>
             In(u, s) /\ ("overtake" \notin env => status[s] \in Joinable)]_vars
  BY VoiceGrantedStep
<1> QED
  BY <1>1, TypesAlways, PTL DEF Spec, VoiceForParticipants

-----------------------------------------------------------------------------
(* The rooms of ended sessions.                                            *)

\* A request about u whose event will take them out of the room of session r.
Removes(c, u, r) ==
  \/ call[c].event = "left" /\ u \in call[c].users
  \/ /\ call[c].event \in {"closing", "delete", "ended"}
     /\ call[c].s = r /\ u \in call[c].users

JoinedAreIn ==
  \A c \in Calls, u \in Users :
    call[c].event = "joined" /\ u \in call[c].users => In(u, call[c].s)

\* Whoever is shown, or about to be shown, in a session they are not in.
StrayInRoom ==
  \A u \in Users, r \in Sessions :
    place[u] = r /\ ~In(u, r) => \E c \in Calls : Removes(c, u, r)
StrayInHandshake ==
  \A u \in Users, r \in Sessions :
    handshake[u] = r /\ ~In(u, r) => \E c \in Calls : Removes(c, u, r)

StraysAreRemoved ==
  env \cap {"overtake", "cross", "lost"} = {} =>
    JoinedAreIn /\ StrayInRoom /\ StrayInHandshake

\* What a step that writes rows leaves of the promise to remove a stray.
LEMMA RowsKeepRemoval ==
  ASSUME TypeOK, OneRow, Orderly, env \cap {"overtake", "cross", "lost"} = {},
         NEW c \in Calls, NEW u \in Users, NEW s \in Sessions,
         Enters(c, u, s) \/ Leaves(c, u, s) \/ EndRows(c, s),
         NEW v \in Users, NEW r \in Sessions,
         ~In(v, r) => \E d \in Calls : Removes(d, v, r),
         ~In(v, r)'
  PROVE  \E d \in Calls : Removes(d, v, r)'
<1>1. ASSUME NEW d \in Calls, Removes(d, v, r), call[c].event \in {"none", "hosting"},
             \A e \in Calls : e # c => call'[e] = call[e]
      PROVE  Removes(d, v, r)'
  <2>1. d # c
    BY <1>1 DEF Removes
  <2> QED
    BY <1>1, <2>1 DEF Removes
<1>2. CASE Enters(c, u, s)
  <2>1. /\ call[c].event \in {"none", "hosting"}
        /\ \A e \in Calls : e # c => call'[e] = call[e]
    BY <1>2, EnterCall
  <2>2. ~In(v, r)
    BY <1>2, EnterRows DEF Enters
  <2> QED
    BY <1>1, <2>1, <2>2
<1>3. CASE Leaves(c, u, s)
  <2>1. /\ call[c].event = "none" /\ \A e \in Calls : e # c => call'[e] = call[e]
        /\ call'[c].event = "left" /\ call'[c].users = {u}
    BY <1>3, BeginFacts DEF Leaves, Idle
  <2>2. CASE v = u
    BY <2>1, <2>2 DEF Removes
  <2>3. CASE v # u
    <3>1. ~In(v, r)
      BY <1>3, <2>3, LeaveRows DEF Leaves
    <3> QED
      BY <1>1, <2>1, <3>1
  <2> QED
    BY <2>2, <2>3
<1>4. CASE EndRows(c, s)
  <2>1. /\ call[c].event = "none" /\ \A e \in Calls : e # c => call'[e] = call[e]
        /\ call'[c].event = "closing" /\ call'[c].s = s
        /\ call'[c].users = {w \in Users : In(w, s)}
    BY <1>4, EndFacts DEF Idle, Members
  <2>2. CASE In(v, r)
    <3>1. r = s
      BY <1>4, <2>2, EndFacts
    <3> QED
      BY <2>1, <2>2, <3>1 DEF Removes
  <2>3. CASE ~In(v, r)
    BY <1>1, <2>1, <2>3
  <2> QED
    BY <2>2, <2>3
<1> QED
  BY <1>2, <1>3, <1>4

\* The steps of a request that move nobody and change none of these promises.
Aside(c) ==
  \/ \E s \in Sessions : CreateSession(c, s)
  \/ EndStatus(c) \/ Refused(c) \/ DeleteVoiceRoom(c)

LEMMA AsideFacts ==
  ASSUME TypeOK, NEW c \in Calls, Aside(c)
  PROVE  /\ \/ call[c].event \in {"none", "hosting"} /\ call'[c].event \in {"none", "hosting"}
            \/ /\ call[c].event \in {"closing", "delete"}
               /\ call'[c].event \in {"delete", "ended"}
               /\ call'[c].s = call[c].s /\ call'[c].users = call[c].users
         /\ \A d \in Calls : d # c => call'[d] = call[d]
         /\ UNCHANGED <<active, place, handshake>>
<1>1. ASSUME NEW s \in Sessions, CreateSession(c, s)
      PROVE  /\ call[c].event = "none" /\ call'[c].event = "hosting"
             /\ \A d \in Calls : d # c => call'[d] = call[d]
             /\ UNCHANGED <<active, place, handshake>>
  <2>1. /\ call[c] = Idle /\ call'[c].event = "hosting"
        /\ \A d \in Calls : d # c => call'[d] = call[d]
        /\ UNCHANGED <<active, place, handshake>>
    BY <1>1, CreateFacts
  <2> QED
    BY <2>1 DEF Idle
<1>2. CASE EndStatus(c)
  BY <1>2, StatusFacts
<1>3. CASE Refused(c)
  BY <1>3 DEF Refused, TypeOK, Idle, rows
<1>4. CASE DeleteVoiceRoom(c)
  BY <1>4, DeleteFacts DEF rows
<1> QED
  BY <1>1, <1>2, <1>3, <1>4 DEF Aside

LEMMA JoinedStep ==
  ASSUME TypeOK, OneRow, Orderly, env \cap {"overtake", "cross", "lost"} = {},
         JoinedAreIn, [Next]_vars
  PROVE  JoinedAreIn'
<1> SUFFICES ASSUME NEW d \in Calls, NEW v \in Users,
                    call'[d].event = "joined", v \in call'[d].users
             PROVE  In(v, call[d].s)'
  BY DEF JoinedAreIn
<1>1. ASSUME call'[d] = call[d], UNCHANGED active
      PROVE  In(v, call[d].s)'
  BY <1>1 DEF JoinedAreIn, In
<1>2. ASSUME call'[d] = call[d]
      PROVE  call[d].s \in Sessions /\ In(v, call[d].s)
  BY <1>2, CallKinds DEF JoinedAreIn
<1>3. ASSUME NEW c \in Calls, NEW u \in Users, NEW s \in Sessions, Enters(c, u, s)
      PROVE  In(v, call[d].s)'
  <2>1. /\ \A e \in Calls : e # c => call'[e] = call[e]
        /\ call'[c].s = s /\ call'[c].users = {u}
    BY <1>3, EnterCall
  <2>2. CASE d = c
    <3>1. v = u /\ In(u, s)'
      BY <1>3, <2>1, <2>2, EnterRows DEF Enters
    <3> QED
      BY <2>1, <2>2, <3>1 DEF In
  <2>3. CASE d # c
    <3>1. PICK x \in Sessions : x = call[d].s /\ In(v, x)
      BY <1>2, <2>1, <2>3
    <3>2. In(v, x)'
      BY <1>3, <3>1, EnterRows DEF Enters
    <3> QED
      BY <2>1, <2>3, <3>1, <3>2 DEF In
  <2> QED
    BY <2>2, <2>3
<1>4. ASSUME NEW c \in Calls, NEW u \in Users, NEW s \in Sessions, Leaves(c, u, s)
      PROVE  In(v, call[d].s)'
  <2>1. /\ \A e \in Calls : e # c => call'[e] = call[e]
        /\ call'[c].event = "left"
        /\ \A e \in Calls : call[e] # Idle => u \notin call[e].users
    BY <1>4, BeginFacts DEF Leaves, OutOfTheWay
  <2>2. d # c /\ call'[d] = call[d]
    BY <2>1
  <2>3. PICK x \in Sessions : x = call[d].s /\ In(v, x)
    BY <1>2, <2>2
  <2>4. v # u
    BY <2>1, <2>2 DEF Idle
  <2>5. In(v, x)'
    BY <1>4, <2>3, <2>4, LeaveRows DEF Leaves
  <2> QED
    BY <2>2, <2>3, <2>5 DEF In
<1>5. ASSUME NEW c \in Calls, NEW s \in Sessions, EndRows(c, s)
      PROVE  In(v, call[d].s)'
  <2>1. /\ \A e \in Calls : e # c => call'[e] = call[e]
        /\ call'[c].event = "closing"
        /\ \A e \in Calls : call[e] # Idle => call[e].users \cap Members(s) = {}
    BY <1>5, EndFacts DEF OutOfTheWay
  <2>2. d # c /\ call'[d] = call[d]
    BY <2>1
  <2>3. PICK x \in Sessions : x = call[d].s /\ In(v, x)
    BY <1>2, <2>2
  <2>4. ~In(v, s)
    BY <2>1, <2>2 DEF Members, Idle
  <2>5. In(v, x)'
    BY <1>5, <2>3, <2>4, EndFacts
  <2> QED
    BY <2>2, <2>3, <2>5 DEF In
<1>6. ASSUME NEW c \in Calls, EmitJoined(c) \/ EmitLeft(c) \/ EmitEnded(c)
      PROVE  In(v, call[d].s)'
  <2>1. /\ call'[c] = Idle /\ \A e \in Calls : e # c => call'[e] = call[e]
        /\ UNCHANGED rows
    BY <1>6, EventMoves
  <2>2. d # c
    BY <2>1 DEF Idle
  <2> QED
    BY <1>1, <2>1, <2>2 DEF rows
<1>7. ASSUME NEW c \in Calls, Aside(c)
      PROVE  In(v, call[d].s)'
  BY <1>1, <1>7, AsideFacts
<1>8. ASSUME NEW c \in Calls, Lose(c)
      PROVE  FALSE
  BY <1>8 DEF Lose
<1>9. ASSUME NEW s \in Sessions, Start(s)
      PROVE  In(v, call[d].s)'
  BY <1>1, <1>9 DEF Start
<1>10. ASSUME NEW s \in Sessions, NEW u \in Users, JoinAgain(s, u)
      PROVE  In(v, call[d].s)'
  BY <1>1, <1>10 DEF JoinAgain, rows
<1>11. ASSUME NEW u \in Users,
              Connect(u) \/ AnswerHandshake(u) \/ Register(u) \/ Disconnect(u)
       PROVE  In(v, call[d].s)'
  BY <1>1, <1>11 DEF Connect, AnswerHandshake, Register, Disconnect, rows
<1>12. CASE Quiet
  BY <1>1, <1>12 DEF Quiet, rows
<1> QED
  BY <1>3, <1>4, <1>5, <1>6, <1>7, <1>8, <1>9, <1>10, <1>11, <1>12, StepCases DEF Aside

LEMMA StrayStep ==
  ASSUME TypeOK, OneRow, Orderly, env \cap {"overtake", "cross", "lost"} = {},
         JoinedAreIn, StrayInRoom, StrayInHandshake, [Next]_vars
  PROVE  StrayInRoom' /\ StrayInHandshake'
<1> USE CampusAssumption
<1> SUFFICES ASSUME NEW v \in Users, NEW r \in Sessions, ~In(v, r)'
             PROVE  place'[v] = r \/ handshake'[v] = r => \E d \in Calls : Removes(d, v, r)'
  BY DEF StrayInRoom, StrayInHandshake
<1>0. place[v] = r \/ handshake[v] = r => (~In(v, r) => \E d \in Calls : Removes(d, v, r))
  BY DEF StrayInRoom, StrayInHandshake
<1>1. ASSUME NEW c \in Calls, NEW u \in Users, NEW s \in Sessions,
             Enters(c, u, s) \/ Leaves(c, u, s) \/ EndRows(c, s)
      PROVE  place'[v] = r \/ handshake'[v] = r => \E d \in Calls : Removes(d, v, r)'
  <2>1. UNCHANGED <<place, handshake>>
    BY <1>1 DEF Enters, Leaves, EndRows
  <2> QED
    BY <1>0, <1>1, <2>1, RowsKeepRemoval
<1>2. ASSUME NEW c \in Calls, EmitJoined(c) \/ EmitLeft(c) \/ EmitEnded(c)
      PROVE  place'[v] = r \/ handshake'[v] = r => \E d \in Calls : Removes(d, v, r)'
  <2>1. /\ call[c] # Idle /\ \A e \in Calls : e # c => call'[e] = call[e]
        /\ ~Crossed(call[c].users)
        /\ UNCHANGED <<active, handshake>>
    BY <1>2, EventMoves DEF rows
  <2>2. ~In(v, r)
    BY <2>1 DEF In
  <2>3. \A d \in Calls : d # c /\ Removes(d, v, r) => Removes(d, v, r)'
    BY <2>1 DEF Removes
  <2>4. ASSUME handshake[v] = r
        PROVE  \E d \in Calls : Removes(d, v, r)'
    <3>1. v \notin call[c].users
      BY <2>1, <2>4 DEF Crossed, Rooms
    <3> QED
      BY <1>0, <2>2, <2>3, <2>4, <3>1 DEF Removes
  <2>5. ASSUME place'[v] = r
        PROVE  place[v] = r /\ ~Removes(c, v, r)
    <3>1. CASE EmitJoined(c)
      <4>1. call[c].event = "joined"
        BY <3>1 DEF EmitJoined, Emit
      <4>2. v \in call[c].users => call[c].s # r
        BY <2>2, <4>1 DEF JoinedAreIn
      <4> QED
        BY <2>5, <3>1, <4>1, <4>2, EventMoves DEF Removes
    <3>2. CASE EmitLeft(c)
      <4>1. v \notin call[c].users /\ place[v] = r
        BY <2>5, <3>2, EventMoves
      <4> QED
        BY <4>1 DEF Removes
    <3>3. CASE EmitEnded(c)
      <4>1. call[c].event = "ended"
        BY <3>3 DEF EmitEnded, Emit
      <4>2. place'[v] = IF place[v] = call[c].s THEN CommonArea ELSE place[v]
        BY <3>3, EventMoves
      <4>3. place[v] = r /\ call[c].s # r
        BY <2>5, <4>2, CampusAssumption
      <4> QED
        BY <4>1, <4>3 DEF Removes
    <3> QED
      BY <1>2, <3>1, <3>2, <3>3
  <2> QED
    BY <1>0, <2>1, <2>2, <2>3, <2>4, <2>5
<1>3. ASSUME NEW c \in Calls, Aside(c)
      PROVE  place'[v] = r \/ handshake'[v] = r => \E d \in Calls : Removes(d, v, r)'
  <2>1. UNCHANGED <<active, place, handshake>>
    BY <1>3, AsideFacts
  <2>2. ~In(v, r)
    BY <2>1 DEF In
  <2>3. \A d \in Calls : Removes(d, v, r) => Removes(d, v, r)'
    BY <1>3, AsideFacts DEF Removes
  <2> QED
    BY <1>0, <2>1, <2>2, <2>3
<1>4. ASSUME NEW c \in Calls, Lose(c)
      PROVE  FALSE
  BY <1>4 DEF Lose
<1>5. ASSUME UNCHANGED <<active, call>>
      PROVE  /\ ~In(v, r)
             /\ \A d \in Calls : Removes(d, v, r) => Removes(d, v, r)'
  BY <1>5 DEF In, Removes
<1>6. ASSUME NEW s \in Sessions, Start(s)
      PROVE  place'[v] = r \/ handshake'[v] = r => \E d \in Calls : Removes(d, v, r)'
  BY <1>0, <1>5, <1>6 DEF Start
<1>7. ASSUME NEW s \in Sessions, NEW u \in Users, JoinAgain(s, u)
      PROVE  place'[v] = r \/ handshake'[v] = r => \E d \in Calls : Removes(d, v, r)'
  <2>1. UNCHANGED <<active, call, handshake>> /\ In(u, s)
    BY <1>7, ReadsWhatIs DEF JoinAgain, rows
  <2>2. place'[v] = r => place[v] = r
    <3>1. place'[v] = IF v \in {u} /\ place[v] # Nowhere THEN s ELSE place[v]
      <4>1. {u} \in SUBSET Users /\ s \in Rooms /\ Map!MoveTo({u}, s)
        BY <1>7 DEF JoinAgain, Map!EnterSession, Rooms
      <4> QED
        BY <4>1, MapTypes
    <3>2. u = v => s # r
      BY <1>5, <2>1
    <3> QED
      BY <3>1, <3>2
  <2> QED
    BY <1>0, <1>5, <2>1, <2>2
<1>8. ASSUME NEW u \in Users, Connect(u) \/ Disconnect(u)
      PROVE  place'[v] = r \/ handshake'[v] = r => \E d \in Calls : Removes(d, v, r)'
  <2>1. UNCHANGED <<active, call>> /\ place' = [place EXCEPT ![u] = Nowhere]
    BY <1>8 DEF Connect, Disconnect, Map!Vanish, rows
  <2>2. place'[v] = r => place[v] = r
    BY <2>1 DEF TypeOK
  <2>3. handshake'[v] = r => handshake[v] = r
    BY <1>8 DEF Connect, Disconnect, TypeOK
  <2> QED
    BY <1>0, <1>5, <2>1, <2>2, <2>3
<1>9. ASSUME NEW u \in Users, AnswerHandshake(u)
      PROVE  place'[v] = r \/ handshake'[v] = r => \E d \in Calls : Removes(d, v, r)'
  <2>1. UNCHANGED <<active, call, place>>
    BY <1>9 DEF AnswerHandshake, rows
  <2>2. handshake'[v] = r => handshake[v] = r
    <3>1. PICK q \in Rooms : ActiveSession(u, q) /\ handshake' = [handshake EXCEPT ![u] = q]
      BY <1>9 DEF AnswerHandshake
    <3>2. q = CommonArea \/ In(u, q)
      BY <3>1 DEF ActiveSession, In
    <3>3. u = v => q # r
      BY <1>5, <2>1, <3>2
    <3> QED
      BY <3>1, <3>3 DEF TypeOK
  <2> QED
    BY <1>0, <1>5, <2>1, <2>2
<1>10. ASSUME NEW u \in Users, Register(u)
       PROVE  place'[v] = r \/ handshake'[v] = r => \E d \in Calls : Removes(d, v, r)'
  <2>1. UNCHANGED <<active, call>>
    BY <1>10 DEF Register, rows
  <2>2. place'[v] = r \/ handshake'[v] = r => place[v] = r \/ handshake[v] = r
    BY <1>10 DEF Register, Map!Appear, TypeOK
  <2> QED
    BY <1>0, <1>5, <2>1, <2>2
<1>11. CASE Quiet
  BY <1>0, <1>5, <1>11 DEF Quiet, rows
<1> QED
  BY <1>1, <1>2, <1>3, <1>4, <1>6, <1>7, <1>8, <1>9, <1>10, <1>11, StepCases DEF Aside

\* EndedRoomEmpty: nobody stays in the room of an ended session once nothing about
\* them is on its way, unless events overtake, cross a handshake or are lost.
THEOREM EndedRoomEmptyAlways == Spec => []EndedRoomEmpty
<1>1. Init => StraysAreRemoved
  <2> SUFFICES ASSUME Init
               PROVE  JoinedAreIn /\ StrayInRoom /\ StrayInHandshake
    BY DEF StraysAreRemoved
  <2> QED
    BY CampusAssumption DEF Init, JoinedAreIn, StrayInRoom, StrayInHandshake, Idle, Map!NobodyPlaced
<1>2. TypeOK /\ OneRow /\ Orderly /\ StraysAreRemoved /\ [Next]_vars => StraysAreRemoved'
  <2> SUFFICES ASSUME TypeOK, OneRow, Orderly, StraysAreRemoved, [Next]_vars,
                      env' \cap {"overtake", "cross", "lost"} = {}
               PROVE  JoinedAreIn' /\ StrayInRoom' /\ StrayInHandshake'
    BY DEF StraysAreRemoved
  <2>1. env' = env
    BY EnvStays
  <2> QED
    BY <2>1, JoinedStep, StrayStep DEF StraysAreRemoved
<1>3. TypeOK /\ OneRow /\ Orderly /\ StraysAreRemoved => EndedRoomEmpty
  <2> SUFFICES ASSUME TypeOK, OneRow, Orderly, StraysAreRemoved,
                      env \cap {"overtake", "cross", "lost"} = {},
                      NEW s \in Sessions, NEW u \in Users,
                      status[s] = "ENDED", place[u] = s
               PROVE  ~Settled(u)
    BY DEF EndedRoomEmpty
  <2>1. ~In(u, s)
    BY DEF Orderly, RowsOpen, Joinable
  <2>2. PICK c \in Calls : Removes(c, u, s)
    BY <2>1 DEF StraysAreRemoved, StrayInRoom
  <2> QED
    BY <2>2 DEF Removes, Settled, Idle
<1> QED
  BY <1>1, <1>2, <1>3, TypesAlways, PTL DEF Spec

-----------------------------------------------------------------------------
(* Everybody is shown at home.                                             *)

\* The room the rows of u put them in, for users in at most one session.
AtHome(u, r) ==
  IF r \in Sessions THEN In(u, r) ELSE \A x \in Sessions : ~In(u, x)

\* A request about u that will bring them home, from the room of r if it is an end.
Homes(c, u, r) ==
  \/ call[c].event \in {"joined", "left"} /\ u \in call[c].users
  \/ /\ call[c].event \in {"closing", "delete", "ended"}
     /\ call[c].s = r /\ u \in call[c].users

OneSession ==
  \A u \in Users, s, x \in Sessions : In(u, s) /\ In(u, x) => s = x
GoneAreOut ==
  \A c \in Calls, u \in Users :
    call[c].event \in {"left", "closing", "delete", "ended"} /\ u \in call[c].users =>
      \A x \in Sessions : ~In(u, x)
EndsHaveEnded ==
  \A c \in Calls : call[c].event \in {"delete", "ended"} => status[call[c].s] = "ENDED"
HomesFromRoom ==
  \A u \in Users, r \in Rooms :
    place[u] = r /\ ~AtHome(u, r) => \E c \in Calls : Homes(c, u, r)
HomesFromHandshake ==
  \A u \in Users, r \in Rooms :
    handshake[u] = r /\ ~AtHome(u, r) => \E c \in Calls : Homes(c, u, r)

Undisturbed(e) == e \cap {"twice", "early", "overtake", "cross", "lost"} = {}

EveryoneComesHome ==
  Undisturbed(env) =>
    /\ JoinedAreIn /\ OneSession /\ GoneAreOut /\ EndsHaveEnded
    /\ HomesFromRoom /\ HomesFromHandshake

LEMMA EntersAlone ==
  ASSUME TypeOK, env \cap {"twice", "overtake"} = {},
         NEW c \in Calls, NEW u \in Users, NEW s \in Sessions,
         Enters(c, u, s)
  PROVE  \A x \in Sessions : ~In(u, x)
<1>1. Without(u, s) = <<>>
  BY DEF Enters, Participate, Others
<1>2. ~In(u, s)
  BY DEF Enters
<1>3. active[u] = <<>>
  BY <1>1, <1>2, WithoutFacts
<1> QED
  BY <1>3 DEF In

LEMMA OneSessionStep ==
  ASSUME TypeOK, OneRow, Orderly, Undisturbed(env), OneSession, [Next]_vars
  PROVE  OneSession'
<1>1. ASSUME UNCHANGED active
      PROVE  OneSession'
  BY <1>1 DEF OneSession, In
<1>2. ASSUME NEW c \in Calls, NEW u \in Users, NEW s \in Sessions, Enters(c, u, s)
      PROVE  OneSession'
  <2>1. \A x \in Sessions : ~In(u, x)
    BY <1>2, EntersAlone DEF Undisturbed
  <2>2. \A v \in Users, x \in Sessions : In(v, x)' <=> In(v, x) \/ (v = u /\ x = s)
    BY <1>2, EnterRows DEF Enters
  <2> QED
    BY <2>1, <2>2 DEF OneSession
<1>3. ASSUME NEW c \in Calls, NEW u \in Users, NEW s \in Sessions, Leaves(c, u, s)
      PROVE  OneSession'
  BY <1>3, LeaveRows DEF OneSession, Leaves
<1>4. ASSUME NEW c \in Calls, NEW s \in Sessions, EndRows(c, s)
      PROVE  OneSession'
  BY <1>4, EndFacts DEF OneSession
<1>5. ASSUME NEW c \in Calls, EmitJoined(c) \/ EmitLeft(c) \/ EmitEnded(c) \/ Lose(c)
      PROVE  UNCHANGED active
  BY <1>5 DEF EmitJoined, EmitLeft, EmitEnded, Emit, Lose, rows
<1>6. ASSUME NEW c \in Calls, Aside(c)
      PROVE  UNCHANGED active
  BY <1>6, AsideFacts
<1>7. ASSUME NEW s \in Sessions, Start(s) \/ \E u \in Users : JoinAgain(s, u)
      PROVE  UNCHANGED active
  BY <1>7 DEF Start, JoinAgain, rows
<1>8. ASSUME NEW u \in Users,
             Connect(u) \/ AnswerHandshake(u) \/ Register(u) \/ Disconnect(u)
      PROVE  UNCHANGED active
  BY <1>8 DEF Connect, AnswerHandshake, Register, Disconnect, rows
<1>9. Quiet => UNCHANGED active
  BY DEF Quiet, rows
<1> QED
  BY <1>1, <1>2, <1>3, <1>4, <1>5, <1>6, <1>7, <1>8, <1>9, StepCases DEF Aside

LEMMA GoneStep ==
  ASSUME TypeOK, OneRow, Orderly, Undisturbed(env), OneSession,
         GoneAreOut, EndsHaveEnded, [Next]_vars
  PROVE  GoneAreOut' /\ EndsHaveEnded'
<1> SUFFICES ASSUME NEW d \in Calls
             PROVE  /\ call'[d].event \in {"delete", "ended"} => status'[call'[d].s] = "ENDED"
                    /\ \A v \in Users, x \in Sessions :
                         call'[d].event \in {"left", "closing", "delete", "ended"} /\ v \in call'[d].users
                           => ~In(v, x)'
  BY DEF GoneAreOut, EndsHaveEnded
<1> DEFINE Goal == /\ call'[d].event \in {"delete", "ended"} => status'[call'[d].s] = "ENDED"
                   /\ \A v \in Users, x \in Sessions :
                        call'[d].event \in {"left", "closing", "delete", "ended"} /\ v \in call'[d].users
                          => ~In(v, x)'
<1>0. /\ call[d].event \in {"delete", "ended"} => status[call[d].s] = "ENDED"
      /\ \A v \in Users, x \in Sessions :
           call[d].event \in {"left", "closing", "delete", "ended"} /\ v \in call[d].users => ~In(v, x)
  BY DEF GoneAreOut, EndsHaveEnded
<1>1. ASSUME call'[d] = call[d], UNCHANGED <<active, status>>
      PROVE  Goal
  BY <1>0, <1>1 DEF In
<1>2. ASSUME NEW c \in Calls, NEW u \in Users, NEW s \in Sessions, Enters(c, u, s)
      PROVE  Goal
  <2>1. /\ \A e \in Calls : e # c => call'[e] = call[e]
        /\ call'[c].event = "joined"
    BY <1>2, EnterCall
  <2>2. CASE d = c
    BY <2>1, <2>2
  <2>3. CASE d # c
    <3>1. call'[d] = call[d] /\ (call[d].event # "none" => u \notin call[d].users)
      BY <1>2, <2>1, <2>3, EnterCall DEF OutOfTheWay, Undisturbed, Idle
    <3>2. call[d].event \in {"delete", "ended"} => status'[call[d].s] = "ENDED"
      BY <1>0, <1>2 DEF Enters
    <3>3. \A v \in Users, x \in Sessions : v # u /\ ~In(v, x) => ~In(v, x)'
      BY <1>2, EnterRows DEF Enters
    <3> QED
      BY <1>0, <3>1, <3>2, <3>3
  <2> QED
    BY <2>2, <2>3
<1>3. ASSUME NEW c \in Calls, NEW u \in Users, NEW s \in Sessions, Leaves(c, u, s)
      PROVE  Goal
  <2>1. /\ \A e \in Calls : e # c => call'[e] = call[e]
        /\ call'[c].event = "left" /\ call'[c].users = {u}
    BY <1>3, BeginFacts DEF Leaves
  <2>2. \A v \in Users, x \in Sessions : In(v, x)' => In(v, x) /\ ~(v = u /\ x = s)
    BY <1>3, LeaveRows DEF Leaves
  <2>3. In(u, s) /\ status' = status
    BY <1>3 DEF Leaves, Undisturbed
  <2>4. CASE d = c
    BY <2>1, <2>2, <2>3, <2>4 DEF OneSession
  <2>5. CASE d # c
    BY <1>0, <2>1, <2>2, <2>3, <2>5
  <2> QED
    BY <2>4, <2>5
<1>4. ASSUME NEW c \in Calls, NEW s \in Sessions, EndRows(c, s)
      PROVE  Goal
  <2>1. /\ \A e \in Calls : e # c => call'[e] = call[e]
        /\ call'[c].event = "closing" /\ call'[c].s = s
        /\ call'[c].users = {w \in Users : In(w, s)}
    BY <1>4, EndFacts DEF Members
  <2>2. \A v \in Users, x \in Sessions : In(v, x)' => In(v, x) /\ x # s
    BY <1>4, EndFacts
  <2>3. status' = status
    BY <1>4 DEF EndRows
  <2>4. CASE d = c
    BY <2>1, <2>2, <2>4 DEF OneSession
  <2>5. CASE d # c
    BY <1>0, <2>1, <2>2, <2>3, <2>5
  <2> QED
    BY <2>4, <2>5
<1>5. ASSUME NEW c \in Calls, NEW s \in Sessions, CreateSession(c, s)
       PROVE  Goal
  <2>1. /\ \A e \in Calls : e # c => call'[e] = call[e]
        /\ call'[c].event = "hosting" /\ UNCHANGED active
        /\ status[s] # "ENDED"
        /\ status' = [status EXCEPT ![s] = "SCHEDULED"]
    BY <1>5, CreateFacts
  <2>2. CASE d = c
    BY <2>1, <2>2
  <2>3. CASE d # c
    <3>1. call[d].event \in {"delete", "ended"} => status'[call[d].s] = "ENDED"
      BY <1>0, <2>1, CallKinds DEF TypeOK
    <3> QED
      BY <1>0, <2>1, <2>3, <3>1 DEF In
  <2> QED
    BY <2>2, <2>3
<1>6. ASSUME NEW c \in Calls, EndStatus(c)
       PROVE  Goal
  <2>1. /\ call[c].event = "closing" /\ call'[c].event = "delete"
        /\ call'[c].s = call[c].s /\ call'[c].users = call[c].users
        /\ \A e \in Calls : e # c => call'[e] = call[e]
        /\ status'[call[c].s] = "ENDED"
        /\ \A x \in Sessions : x # call[c].s => status'[x] = status[x]
        /\ UNCHANGED active
    BY <1>6, StatusFacts
  <2>2. CASE d = c
    BY <1>0, <2>1, <2>2 DEF In
  <2>3. CASE d # c
    <3>1. call[d].event \in {"delete", "ended"} => status'[call[d].s] = "ENDED"
      BY <1>0, <2>1, CallKinds
    <3> QED
      BY <1>0, <2>1, <2>3, <3>1 DEF In
  <2> QED
    BY <2>2, <2>3
<1>7. ASSUME NEW c \in Calls, Refused(c)
       PROVE  Goal
  <2>1. /\ call'[c] = Idle /\ \A e \in Calls : e # c => call'[e] = call[e]
        /\ UNCHANGED <<active, status>>
    BY <1>7 DEF Refused, rows, TypeOK
  <2>2. CASE d = c
    BY <2>1, <2>2 DEF Idle
  <2> QED
    BY <1>1, <2>1, <2>2
<1>8. ASSUME NEW c \in Calls, EmitJoined(c) \/ EmitLeft(c) \/ EmitEnded(c)
      PROVE  Goal
  <2>1. /\ call'[c] = Idle /\ \A e \in Calls : e # c => call'[e] = call[e]
        /\ UNCHANGED <<active, status>>
    BY <1>8, EventMoves DEF rows
  <2>2. CASE d = c
    BY <2>1, <2>2 DEF Idle
  <2> QED
    BY <1>1, <2>1, <2>2
<1>9. ASSUME NEW c \in Calls, DeleteVoiceRoom(c)
      PROVE  Goal
  <2>1. /\ call[c].event = "delete" /\ call'[c].event = "ended"
        /\ call'[c].s = call[c].s /\ call'[c].users = call[c].users
        /\ \A e \in Calls : e # c => call'[e] = call[e]
        /\ UNCHANGED <<active, status>>
    BY <1>9, DeleteFacts DEF rows
  <2>2. CASE d = c
    BY <1>0, <2>1, <2>2 DEF In
  <2> QED
    BY <1>1, <2>1, <2>2
<1>10. ASSUME NEW c \in Calls, Lose(c)
      PROVE  FALSE
  BY <1>10 DEF Lose, Undisturbed
<1>11. ASSUME NEW s \in Sessions, Start(s)
      PROVE  Goal
  <2>1. UNCHANGED <<active, call>> /\ status[s] = "SCHEDULED"
        /\ \A x \in Sessions : x # s => status'[x] = status[x]
    BY <1>11 DEF Start, TypeOK, Undisturbed
  <2>2. call[d].event \in {"delete", "ended"} => status'[call[d].s] = "ENDED"
    BY <1>0, <2>1, CallKinds
  <2> QED
    BY <1>0, <2>1, <2>2 DEF In
<1>12. ASSUME NEW s \in Sessions, NEW u \in Users, JoinAgain(s, u)
      PROVE  Goal
  BY <1>1, <1>12 DEF JoinAgain, rows
<1>13. ASSUME NEW u \in Users,
              Connect(u) \/ AnswerHandshake(u) \/ Register(u) \/ Disconnect(u)
       PROVE  Goal
  BY <1>1, <1>13 DEF Connect, AnswerHandshake, Register, Disconnect, rows
<1>14. CASE Quiet
  BY <1>1, <1>14 DEF Quiet, rows
<1> QED
  BY <1>2, <1>3, <1>4, <1>5, <1>6, <1>7, <1>8, <1>9, <1>10, <1>11, <1>12, <1>13, <1>14,
     StepCases

\* What a step that writes rows leaves of the promise to bring somebody home.
LEMMA RowsKeepHomes ==
  ASSUME TypeOK, OneRow, Orderly, Undisturbed(env), OneSession,
         NEW c \in Calls, NEW u \in Users, NEW s \in Sessions,
         Enters(c, u, s) \/ Leaves(c, u, s) \/ EndRows(c, s),
         NEW v \in Users, NEW r \in Rooms,
         ~AtHome(v, r) => \E d \in Calls : Homes(d, v, r),
         ~AtHome(v, r)'
  PROVE  \E d \in Calls : Homes(d, v, r)'
<1>1. ASSUME NEW d \in Calls, Homes(d, v, r), call[c].event \in {"none", "hosting"},
             \A e \in Calls : e # c => call'[e] = call[e]
      PROVE  Homes(d, v, r)'
  <2>1. d # c
    BY <1>1 DEF Homes
  <2> QED
    BY <1>1, <2>1 DEF Homes
<1>2. CASE Enters(c, u, s)
  <2>1. /\ call[c].event \in {"none", "hosting"}
        /\ \A e \in Calls : e # c => call'[e] = call[e]
        /\ call'[c].event = "joined" /\ call'[c].users = {u}
    BY <1>2, EnterCall
  <2>2. CASE v = u
    BY <2>1, <2>2 DEF Homes
  <2>3. CASE v # u
    <3>1. \A x \in Sessions : In(v, x)' <=> In(v, x)
      BY <1>2, <2>3, EnterRows DEF Enters
    <3>2. ~AtHome(v, r)
      BY <3>1 DEF AtHome
    <3> QED
      BY <1>1, <2>1, <3>2
  <2> QED
    BY <2>2, <2>3
<1>3. CASE Leaves(c, u, s)
  <2>1. /\ call[c].event = "none" /\ \A e \in Calls : e # c => call'[e] = call[e]
        /\ call'[c].event = "left" /\ call'[c].users = {u}
    BY <1>3, BeginFacts DEF Leaves, Idle
  <2>2. CASE v = u
    BY <2>1, <2>2 DEF Homes
  <2>3. CASE v # u
    <3>1. \A x \in Sessions : In(v, x)' <=> In(v, x)
      BY <1>3, <2>3, LeaveRows DEF Leaves
    <3>2. ~AtHome(v, r)
      BY <3>1 DEF AtHome
    <3> QED
      BY <1>1, <2>1, <3>2
  <2> QED
    BY <2>2, <2>3
<1>4. CASE EndRows(c, s)
  <2>1. /\ call[c].event = "none" /\ \A e \in Calls : e # c => call'[e] = call[e]
        /\ call'[c].event = "closing" /\ call'[c].s = s
        /\ call'[c].users = {w \in Users : In(w, s)}
    BY <1>4, EndFacts DEF Members, Idle
  <2>2. \A x \in Sessions : In(v, x)' <=> In(v, x) /\ x # s
    BY <1>4, EndFacts
  <2>3. CASE ~In(v, s)
    <3>1. ~AtHome(v, r)
      BY <2>2, <2>3 DEF AtHome
    <3> QED
      BY <1>1, <2>1, <3>1
  <2>4. CASE In(v, s) /\ r = s
    BY <2>1, <2>4 DEF Homes
  <2>5. CASE In(v, s) /\ r # s
    <3>1. \A x \in Sessions : ~In(v, x)'
      BY <2>2, <2>5 DEF OneSession
    <3>2. r \in Sessions /\ ~In(v, r)
      BY <2>5, <3>1 DEF AtHome, OneSession
    <3>3. PICK d \in Calls : Homes(d, v, r)
      BY <3>2 DEF AtHome
    <3>4. call[d].event # "none" /\ v \in call[d].users
      BY <3>3 DEF Homes
    <3>5. call[d].users \cap {w \in Users : In(w, s)} = {}
      BY <1>4, <3>4, EndFacts DEF Members, OutOfTheWay, Undisturbed, Idle
    <3> QED
      BY <2>5, <3>4, <3>5
  <2> QED
    BY <2>3, <2>4, <2>5
<1> QED
  BY <1>2, <1>3, <1>4

LEMMA HomesStep ==
  ASSUME TypeOK, OneRow, Orderly, Undisturbed(env), JoinedAreIn, OneSession,
         GoneAreOut, EndsHaveEnded,
         HomesFromRoom, HomesFromHandshake, [Next]_vars
  PROVE  HomesFromRoom' /\ HomesFromHandshake'
<1> USE CampusAssumption
<1> SUFFICES ASSUME NEW v \in Users, NEW r \in Rooms, ~AtHome(v, r)'
             PROVE  place'[v] = r \/ handshake'[v] = r => \E d \in Calls : Homes(d, v, r)'
  BY DEF HomesFromRoom, HomesFromHandshake
<1>0. \A q \in Rooms :
        place[v] = q \/ handshake[v] = q => (~AtHome(v, q) => \E d \in Calls : Homes(d, v, q))
  BY DEF HomesFromRoom, HomesFromHandshake
<1>1. ASSUME NEW c \in Calls, NEW u \in Users, NEW s \in Sessions,
             Enters(c, u, s) \/ Leaves(c, u, s) \/ EndRows(c, s)
      PROVE  place'[v] = r \/ handshake'[v] = r => \E d \in Calls : Homes(d, v, r)'
  <2>1. UNCHANGED <<place, handshake>>
    BY <1>1 DEF Enters, Leaves, EndRows
  <2> QED
    BY <1>0, <1>1, <2>1, RowsKeepHomes
<1>2. ASSUME NEW c \in Calls, EmitJoined(c) \/ EmitLeft(c) \/ EmitEnded(c)
      PROVE  place'[v] = r \/ handshake'[v] = r => \E d \in Calls : Homes(d, v, r)'
  <2>1. /\ call[c] # Idle /\ \A e \in Calls : e # c => call'[e] = call[e]
        /\ ~Crossed(call[c].users)
        /\ UNCHANGED <<active, status, handshake>>
    BY <1>2, EventMoves DEF rows, Undisturbed
  <2>2. \A x \in Sessions : In(v, x)' <=> In(v, x)
    BY <2>1 DEF In
  <2>3. ~AtHome(v, r)
    BY <2>2 DEF AtHome
  <2>4. \A d \in Calls : d # c /\ Homes(d, v, r) => Homes(d, v, r)'
    BY <2>1 DEF Homes
  <2>5. ASSUME handshake[v] = r
        PROVE  \E d \in Calls : Homes(d, v, r)'
    <3>1. v \notin call[c].users
      BY <2>1, <2>5, CampusAssumption DEF Crossed, Rooms
    <3> QED
      BY <1>0, <2>3, <2>4, <2>5, <3>1 DEF Homes
  <2>6. CASE EmitJoined(c) /\ place'[v] = r
    <3>1. call[c].event = "joined" /\ call[c].s \in Sessions
      BY <2>6, CallKinds DEF EmitJoined, Emit
    <3>2. v \in call[c].users => In(v, call[c].s)
      BY <3>1 DEF JoinedAreIn
    <3>3. v \notin call[c].users /\ place[v] = r
      BY <2>3, <2>6, <3>1, <3>2, EventMoves DEF AtHome, Rooms
    <3> QED
      BY <1>0, <2>3, <2>4, <3>3 DEF Homes
  <2>7. CASE EmitLeft(c) /\ place'[v] = r
    <3>1. call[c].event = "left"
      BY <2>7 DEF EmitLeft, Emit
    <3>2. v \in call[c].users => \A x \in Sessions : ~In(v, x)
      BY <3>1 DEF GoneAreOut
    <3>3. v \notin call[c].users /\ place[v] = r
      BY <2>3, <2>7, <3>2, EventMoves DEF AtHome, Rooms
    <3> QED
      BY <1>0, <2>3, <2>4, <3>3 DEF Homes
  <2>8. CASE EmitEnded(c) /\ place'[v] = r
    <3>1. call[c].event = "ended" /\ call[c].s \in Sessions
      BY <2>8, CallKinds DEF EmitEnded, Emit
    <3>2. CASE place[v] = call[c].s
      <4> DEFINE s == call[c].s
      <4>1. ~In(v, s)
        BY <3>1 DEF EndsHaveEnded, Orderly, RowsOpen, Undisturbed, Joinable
      <4>2. PICK d \in Calls : Homes(d, v, s)
        BY <1>0, <3>1, <3>2, <4>1 DEF AtHome, Rooms
      <4>3. r = CommonArea
        BY <2>8, <3>2, EventMoves
      <4>4. \E x \in Sessions : In(v, x)
        BY <2>3, <4>3 DEF AtHome
      <4>5. call[d].event \in {"joined", "left"} /\ v \in call[d].users
        BY <4>2, <4>4 DEF Homes, GoneAreOut
      <4>6. d # c
        BY <3>1, <4>5
      <4>7. Homes(d, v, r)'
        BY <2>1, <4>5, <4>6 DEF Homes
      <4> QED
        BY <4>7
    <3>3. CASE place[v] # call[c].s
      <4>1. place[v] = r /\ ~Homes(c, v, r)
        BY <2>8, <3>1, <3>3, EventMoves DEF Homes
      <4> QED
        BY <1>0, <2>3, <2>4, <4>1
    <3> QED
      BY <3>2, <3>3
  <2> QED
    BY <1>2, <2>1, <2>5, <2>6, <2>7, <2>8
<1>3. ASSUME NEW c \in Calls, Aside(c)
      PROVE  place'[v] = r \/ handshake'[v] = r => \E d \in Calls : Homes(d, v, r)'
  <2>1. UNCHANGED <<active, place, handshake>>
    BY <1>3, AsideFacts
  <2>2. ~AtHome(v, r)
    BY <2>1 DEF AtHome, In
  <2>3. \A d \in Calls : Homes(d, v, r) => Homes(d, v, r)'
    BY <1>3, AsideFacts DEF Homes
  <2> QED
    BY <1>0, <2>1, <2>2, <2>3
<1>4. ASSUME NEW c \in Calls, Lose(c)
      PROVE  FALSE
  BY <1>4 DEF Lose, Undisturbed
<1>5. ASSUME UNCHANGED <<active, call>>
      PROVE  /\ ~AtHome(v, r)
             /\ \A d \in Calls : Homes(d, v, r) => Homes(d, v, r)'
  <2>1. ~AtHome(v, r)
    BY <1>5 DEF In, AtHome
  <2> QED
    BY <1>5, <2>1 DEF Homes
<1>6. ASSUME NEW s \in Sessions, Start(s)
      PROVE  place'[v] = r \/ handshake'[v] = r => \E d \in Calls : Homes(d, v, r)'
  <2>1. UNCHANGED <<active, call, place, handshake>>
    BY <1>6 DEF Start
  <2> QED
    BY <1>0, <1>5, <2>1
<1>7. ASSUME NEW s \in Sessions, NEW u \in Users, JoinAgain(s, u)
      PROVE  place'[v] = r \/ handshake'[v] = r => \E d \in Calls : Homes(d, v, r)'
  <2>1. UNCHANGED <<active, call, handshake>> /\ In(u, s)
    BY <1>7, ReadsWhatIs DEF JoinAgain, rows, Undisturbed
  <2>2. place'[v] = r => place[v] = r
    <3>1. place'[v] = IF v \in {u} /\ place[v] # Nowhere THEN s ELSE place[v]
      <4>1. {u} \in SUBSET Users /\ s \in Rooms /\ Map!MoveTo({u}, s)
        BY <1>7 DEF JoinAgain, Map!EnterSession, Rooms
      <4> QED
        BY <4>1, MapTypes
    <3>2. u = v => s # r
      BY <1>5, <2>1 DEF AtHome
    <3> QED
      BY <3>1, <3>2
  <2> QED
    BY <1>0, <1>5, <2>1, <2>2
<1>8. ASSUME NEW u \in Users, Connect(u) \/ Disconnect(u)
      PROVE  place'[v] = r \/ handshake'[v] = r => \E d \in Calls : Homes(d, v, r)'
  <2>1. UNCHANGED <<active, call>> /\ place' = [place EXCEPT ![u] = Nowhere]
    BY <1>8 DEF Connect, Disconnect, Map!Vanish, rows
  <2>2. place'[v] = r => place[v] = r
    BY <2>1 DEF TypeOK, Rooms
  <2>3. handshake'[v] = r => handshake[v] = r
    BY <1>8 DEF Connect, Disconnect, TypeOK, Rooms
  <2> QED
    BY <1>0, <1>5, <2>1, <2>2, <2>3
<1>9. ASSUME NEW u \in Users, AnswerHandshake(u)
      PROVE  place'[v] = r \/ handshake'[v] = r => \E d \in Calls : Homes(d, v, r)'
  <2>1. UNCHANGED <<active, call, place>>
    BY <1>9 DEF AnswerHandshake, rows
  <2>2. handshake'[v] = r => handshake[v] = r
    <3>1. PICK q \in Rooms : ActiveSession(u, q) /\ handshake' = [handshake EXCEPT ![u] = q]
      BY <1>9 DEF AnswerHandshake
    <3>2. \A s \in Sessions : In(u, s) => status[s] = "ACTIVE"
      BY <1>9 DEF AnswerHandshake, Undisturbed, Orderly, RowsOpen, Joinable
    <3>3. CASE q \in Sessions
      <4>1. In(u, q)
        BY <3>1, <3>3 DEF ActiveSession, In
      <4>2. u = v => q # r
        BY <1>5, <2>1, <3>3, <4>1 DEF AtHome
      <4> QED
        BY <3>1, <4>2 DEF TypeOK
    <3>4. CASE q = CommonArea
      <4>1. {i \in DOMAIN active[u] : status[active[u][i]] = "ACTIVE"} = {}
        <5>1. \A i \in DOMAIN active[u] : active[u][i] \in Sessions
          BY DEF TypeOK
        <5> QED
          BY <3>1, <3>4, <5>1 DEF ActiveSession
      <4>2. \A s \in Sessions : ~In(u, s)
        BY <3>2, <4>1 DEF In
      <4>3. u = v => q # r
        BY <1>5, <2>1, <3>4, <4>2 DEF AtHome
      <4> QED
        BY <3>1, <4>3 DEF TypeOK
    <3> QED
      BY <3>3, <3>4 DEF Rooms
  <2> QED
    BY <1>0, <1>5, <2>1, <2>2
<1>10. ASSUME NEW u \in Users, Register(u)
       PROVE  place'[v] = r \/ handshake'[v] = r => \E d \in Calls : Homes(d, v, r)'
  <2>1. UNCHANGED <<active, call>>
    BY <1>10 DEF Register, rows
  <2>2. place'[v] = r \/ handshake'[v] = r => place[v] = r \/ handshake[v] = r
    BY <1>10 DEF Register, Map!Appear, TypeOK, Rooms
  <2> QED
    BY <1>0, <1>5, <2>1, <2>2
<1>11. CASE Quiet
  BY <1>0, <1>5, <1>11 DEF Quiet, rows
<1> QED
  BY <1>1, <1>2, <1>3, <1>4, <1>6, <1>7, <1>8, <1>9, <1>10, <1>11, StepCases DEF Aside

\* With at most one session, home is where AtHome says.
LEMMA HomeFacts ==
  ASSUME TypeOK, OneRow, Orderly, OneSession, NEW u \in Users
  PROVE  Home(u) \in Rooms /\ \A r \in Rooms : AtHome(u, r) => r = Home(u)
<1>1. active[u] \in Seq(Sessions)
  BY DEF TypeOK
<1>2. CASE active[u] = <<>>
  BY <1>2 DEF Home, AtHome, In, Rooms
<1>3. CASE active[u] # <<>>
  <2>1. 1 \in DOMAIN active[u] /\ Home(u) = active[u][1] /\ Home(u) \in Sessions
    BY <1>1, <1>3 DEF Home
  <2>2. In(u, Home(u))
    BY <2>1 DEF In
  <2> QED
    BY <2>1, <2>2 DEF AtHome, OneSession, Rooms
<1> QED
  BY <1>2, <1>3

\* ShownAtHome: undisturbed, users whose events have been handled are shown in the
\* session they are in, or in the common area.
THEOREM ShownAtHomeAlways == Spec => []ShownAtHome
<1>1. Init => EveryoneComesHome
  <2> SUFFICES ASSUME Init
               PROVE  /\ JoinedAreIn /\ OneSession /\ GoneAreOut /\ EndsHaveEnded
                      /\ HomesFromRoom /\ HomesFromHandshake
    BY DEF EveryoneComesHome
  <2>1. JoinedAreIn /\ GoneAreOut /\ EndsHaveEnded
    BY DEF Init, JoinedAreIn, GoneAreOut, EndsHaveEnded, Idle
  <2>2. OneSession
    BY DEF Init, OneSession, In
  <2>3. HomesFromRoom /\ HomesFromHandshake
    BY CampusAssumption DEF Init, HomesFromRoom, HomesFromHandshake, Rooms, Map!NobodyPlaced
  <2> QED
    BY <2>1, <2>2, <2>3
<1>2. TypeOK /\ OneRow /\ Orderly /\ EveryoneComesHome /\ [Next]_vars => EveryoneComesHome'
  <2> SUFFICES ASSUME TypeOK, OneRow, Orderly, EveryoneComesHome, [Next]_vars, Undisturbed(env)'
               PROVE  /\ JoinedAreIn' /\ OneSession' /\ GoneAreOut' /\ EndsHaveEnded'
                      /\ HomesFromRoom' /\ HomesFromHandshake'
    BY DEF EveryoneComesHome
  <2>1. Undisturbed(env) /\ env \cap {"overtake", "cross", "lost"} = {}
    BY EnvStays DEF Undisturbed
  <2>2. /\ JoinedAreIn /\ OneSession /\ GoneAreOut /\ EndsHaveEnded
        /\ HomesFromRoom /\ HomesFromHandshake
    BY <2>1 DEF EveryoneComesHome
  <2> QED
    BY <2>1, <2>2, JoinedStep, OneSessionStep, GoneStep, HomesStep
<1>3. TypeOK /\ OneRow /\ Orderly /\ EveryoneComesHome => ShownAtHome
  <2> SUFFICES ASSUME TypeOK, OneRow, Orderly, EveryoneComesHome, Undisturbed(env),
                      NEW u \in Users, place[u] # Nowhere, place[u] # Home(u)
               PROVE  ~Settled(u)
    BY DEF ShownAtHome, Undisturbed
  <2>1. PICK r \in Rooms : place[u] = r
    BY DEF TypeOK
  <2>2. ~AtHome(u, r)
    BY <2>1, HomeFacts DEF EveryoneComesHome
  <2>3. PICK c \in Calls : Homes(c, u, r)
    BY <2>1, <2>2 DEF EveryoneComesHome, HomesFromRoom
  <2> QED
    BY <2>3 DEF Homes, Settled, Idle
<1> QED
  BY <1>1, <1>2, <1>3, TypesAlways, PTL DEF Spec
=============================================================================
