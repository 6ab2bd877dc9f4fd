---------------------------- MODULE FriendsProofs ----------------------------
(***************************************************************************)
(* The properties of Friends, for any number of requests in flight and of  *)
(* rows over time.  Each holds as long as the requests that break it have  *)
(* not raced; the invariant says what that keeps true of the requests in   *)
(* flight: not that the row is as they read it, but that what they will    *)
(* write is still theirs to write.                                         *)
(***************************************************************************)
EXTENDS Friends, TLAPS

Sending(q) == request[q] # Idle /\ IsSend(request[q])
In(q, at) == request[q] # Idle /\ request[q].at = at

\* A row and its id belong to one friendship; who holds the id may write to that row
\* or find it gone.
RowsUsed ==
  /\ Rows \subseteq used
  /\ \A q \in Requests :
       request[q] # Idle /\ request[q].at # "create" => request[q].row \in used

\* Without crossing, all friend requests in flight are of one user, and one about to
\* create a row finds none or its own, which the unique index refuses.
OneAsker ==
  "crossing" \notin raced =>
    \A q \in Requests : Sending(q) =>
      /\ \A p \in Requests : Sending(p) => request[p].user = request[q].user
      /\ In(q, "create") => \A r \in Rows : row[r].from = request[q].user

\* Without turning, a request that turns a row round is in flight with no answer.
NoTurning ==
  "turning" \notin raced => \A p, q \in Requests : ~(In(p, "reopen") /\ In(q, "answer"))

\* Without disagreeing, the answers in flight are the same.
OneAnswer ==
  "disagreeing" \notin raced =>
    \A p, q \in Requests :
      In(p, "answer") /\ In(q, "answer") => request[p].answer = request[q].answer

\* Without both, what the row has become since a request read it is what the request
\* would make of it, unless it is gone.
Steady ==
  raced \cap {"turning", "disagreeing"} = {} =>
    \A q \in Requests :
      LET w == request[q] IN
      w # Idle /\ w.at # "create" /\ row[w.row] # Absent =>
        /\ w.at = "answer" => row[w.row].status \in {"PENDING", w.answer}
        /\ w.at = "reopen" => row[w.row].status \in {"DECLINED", "PENDING"}
        /\ w.at = "remove" => row[w.row].status = "ACCEPTED"

\* Without any race, who has a request pending wants the friendship, the other user
\* answers it, and what a repeated request or answer would write of its user stands.
Asked ==
  raced = {} =>
    /\ \A r \in Rows : row[r].status = "PENDING" => wants[row[r].from]
    /\ \A q \in Requests :
         LET w == request[q] IN
         w # Idle /\ w.at # "create" /\ row[w.row] # Absent =>
           /\ w.at = "answer" =>
                /\ row[w.row].from # w.user
                /\ row[w.row].status = "DECLINED" => ~wants[w.user]
           /\ w.at = "reopen" /\ row[w.row].status = "PENDING" => row[w.row].from = w.user

Inv ==
  /\ TypeOK
  /\ RowsUsed
  /\ OneAsker
  /\ NoTurning
  /\ OneAnswer
  /\ Steady
  /\ Asked
  /\ OneRow
  /\ FriendsByConsent

-----------------------------------------------------------------------------

\* The table begins empty.
LEMMA InvInit == Init => Inv
  BY DEF Init, Inv, TypeOK, RowsUsed, OneAsker, NoTurning, OneAnswer, Steady, Asked,
         OneRow, FriendsByConsent, Rows, In, Sending

\* A request in flight is a request.
LEMMA RequestType ==
  ASSUME TypeOK, NEW q \in Requests, request[q] # Idle
  PROVE  /\ request[q] \in Request
         /\ request[q].user \in Users
         /\ request[q].at \in {"create", "reopen", "remove", "answer"}
         /\ request[q].at # "create" => request[q].row \in RowIds
         /\ request[q].at = "answer" => request[q].answer \in {"ACCEPTED", "DECLINED"}
  BY DEF TypeOK, Request

\* A step that begins a request.
LEMMA BeginInv ==
  ASSUME Inv, NEW q \in Requests, NEW w \in Request, w # Idle, Begin(q, w),
         UNCHANGED <<row, used, wants>>,
         w.at = "create" => Rows = {},
         w.at # "create" => w.row \in Rows,
         w.at = "answer" => MayAnswer(w.user, w.row),
         w.at = "reopen" => row[w.row].status = "DECLINED",
         w.at = "remove" => row[w.row].status = "ACCEPTED"
  PROVE  Inv'
<1>1. /\ request' = [request EXCEPT ![q] = w] /\ request[q] = Idle
      /\ raced' \subseteq {"crossing", "turning", "disagreeing"}
      /\ raced \subseteq raced'
  BY DEF Begin, Inv, TypeOK
<1>2. ASSUME NEW kind \in {"crossing", "turning", "disagreeing"}, kind \notin raced',
             NEW p \in Requests, request[p] # Idle
      PROVE  ~Race(kind, w, request[p])
  BY <1>2 DEF Begin
<1>3. \A p \in Requests : request'[p] = IF p = q THEN w ELSE request[p]
  BY <1>1 DEF Inv, TypeOK
<1>4. TypeOK'
  BY <1>1 DEF Inv, TypeOK
<1>5. RowsUsed'
  BY <1>3 DEF Inv, RowsUsed, Rows
<1>6. OneAsker'
  <2> SUFFICES ASSUME "crossing" \notin raced' PROVE OneAsker'
    BY DEF OneAsker
  <2>1. \A p \in Requests : Sending(p) /\ IsSend(w) => request[p].user = w.user
    BY <1>2 DEF Race, Sending
  <2> QED
    BY <1>1, <1>3, <2>1 DEF Inv, OneAsker, Sending, IsSend, In, Rows
<1>7. NoTurning'
  <2> SUFFICES ASSUME "turning" \notin raced' PROVE NoTurning'
    BY DEF NoTurning
  <2>1. \A p \in Requests : request[p] # Idle => {w.at, request[p].at} # {"reopen", "answer"}
    BY <1>2 DEF Race
  <2> QED
    BY <1>1, <1>3, <2>1 DEF Inv, NoTurning, In
<1>8. OneAnswer'
  <2> SUFFICES ASSUME "disagreeing" \notin raced' PROVE OneAnswer'
    BY DEF OneAnswer
  <2>1. \A p \in Requests : In(p, "answer") /\ w.at = "answer" => request[p].answer = w.answer
    BY <1>2 DEF Race, In
  <2> QED
    BY <1>1, <1>3, <2>1 DEF Inv, OneAnswer, In
<1>9. Steady'
  BY <1>1, <1>3 DEF Inv, Steady, MayAnswer
<1>10. Asked'
  BY <1>1, <1>3 DEF Inv, Asked, Rows, MayAnswer
<1>11. (OneRow /\ FriendsByConsent)'
  BY <1>1 DEF Inv, OneRow, FriendsByConsent, Rows
<1>12. QED
  BY <1>4, <1>5, <1>6, <1>7, <1>8, <1>9, <1>10, <1>11 DEF Inv

\* A request that ends leaves those in flight as they were.
LEMMA EndRequests ==
  ASSUME Inv, NEW q \in Requests, End(q), UNCHANGED raced
  PROVE  /\ request' \in [Requests -> Request \cup {Idle}]
         /\ \A p \in Requests : request'[p] = IF p = q THEN Idle ELSE request[p]
         /\ \A p \in Requests : Sending(p)' => Sending(p)
         /\ \A p \in Requests, at \in {"create", "reopen", "answer", "remove"} :
              In(p, at)' => In(p, at) /\ p # q
         /\ NoTurning' /\ OneAnswer'
  BY DEF End, Inv, TypeOK, NoTurning, OneAnswer, Sending, In

\* A friend request begins with no row found, or with a declined one.
LEMMA SendBeginInv ==
  ASSUME Inv, NEW q \in Requests, NEW u \in Users, SendBegin(q, u)
  PROVE  Inv'
<1> USE FriendsAssumption
<1>1. CASE Existing(u) = {} /\ Begin(q, [at |-> "create", user |-> u])
  <2> DEFINE w == [at |-> "create", user |-> u]
  <2>1. w \in Request /\ w # Idle
    BY DEF Request
  <2>2. w.at = "create"
    OBVIOUS
  <2> HIDE DEF w
  <2> QED
    BY <1>1, <2>1, <2>2, BeginInv DEF SendBegin, Existing, w
<1>2. ASSUME NEW r \in Existing(u), row[r].status = "DECLINED",
             Begin(q, [at |-> "reopen", user |-> u, row |-> r])
      PROVE  Inv'
  <2> DEFINE w == [at |-> "reopen", user |-> u, row |-> r]
  <2>1. w \in Request /\ w # Idle
    BY DEF Request, Existing, Rows
  <2>2. w.at = "reopen" /\ w.row = r /\ r \in Rows
    BY DEF Existing
  <2>3. Begin(q, w)
    BY <1>2
  <2>4. UNCHANGED <<row, used, wants>>
    BY DEF SendBegin
  <2> HIDE DEF w
  <2> QED
    BY <1>2, <2>1, <2>2, <2>3, <2>4, BeginInv
<1> QED
  BY <1>1, <1>2 DEF SendBegin

\* An answer begins with the row it has found pending.
LEMMA AnswerBeginInv ==
  ASSUME Inv, NEW q \in Requests, NEW u \in Users, NEW r \in RowIds,
         NEW answer \in {"ACCEPTED", "DECLINED"}, AnswerBegin(q, u, r, answer)
  PROVE  Inv'
<1> USE FriendsAssumption
<1> DEFINE w == [at |-> "answer", user |-> u, row |-> r, answer |-> answer]
<1>1. w \in Request /\ w # Idle
  BY DEF Request
<1>2. w.at = "answer" /\ w.user = u /\ w.row = r
  OBVIOUS
<1>3. /\ Begin(q, w) /\ MayAnswer(u, r) /\ UNCHANGED <<row, used, wants>>
      /\ r \in Rows
  BY DEF AnswerBegin, MayAnswer, Rows
<1> HIDE DEF w
<1> QED
  BY <1>1, <1>2, <1>3, BeginInv

\* A removal begins with a row it has found accepted.
LEMMA RemoveBeginInv ==
  ASSUME Inv, NEW q \in Requests, NEW u \in Users, RemoveBegin(q, u)
  PROVE  Inv'
<1> USE FriendsAssumption
<1>1. PICK r \in Rows : /\ row[r].status = "ACCEPTED"
                        /\ Begin(q, [at |-> "remove", user |-> u, row |-> r])
  BY DEF RemoveBegin
<1> DEFINE w == [at |-> "remove", user |-> u, row |-> r]
<1>2. w \in Request /\ w # Idle
  BY DEF Request, Rows
<1>3. w.at = "remove" /\ w.row = r
  OBVIOUS
<1>4. Begin(q, w) /\ UNCHANGED <<row, used, wants>>
  BY <1>1 DEF RemoveBegin
<1> HIDE DEF w
<1> QED
  BY <1>1, <1>2, <1>3, <1>4, BeginInv

-----------------------------------------------------------------------------
(* The writes.  Each also is a step of the contract, or none.              *)

Kept == raced = {} => [Contract!ContractNext]_(Contract!contractVars)

\* The row that stands for the pair when there is one.
LEMMA BondIs ==
  /\ Rows = {} => bond = Absent
  /\ \A r \in Rows : Rows = {r} => bond = row[r]
  /\ Rows' = {} => bond' = Absent
  /\ \A r \in Rows' : Rows' = {r} => bond' = row'[r]
  BY DEF bond

\* A request that ends without a write.
LEMMA EndInv ==
  ASSUME Inv, NEW q \in Requests, End(q), UNCHANGED <<row, used, wants, raced>>
  PROVE  Inv' /\ Kept
<1> USE EndRequests
<1>1. TypeOK' /\ NoTurning' /\ OneAnswer'
  BY DEF Inv, TypeOK
<1>2. RowsUsed'
  BY DEF Inv, RowsUsed, Rows
<1>3. OneAsker'
  BY DEF Inv, OneAsker, Sending, In, Rows
<1>4. Steady'
  BY DEF Inv, Steady
<1>5. Asked'
  BY DEF Inv, Asked, Rows
<1>6. (OneRow /\ FriendsByConsent)'
  BY DEF Inv, OneRow, FriendsByConsent, Rows
<1>7. Kept
  BY DEF Kept, Contract!contractVars, bond, Rows
<1> QED
  BY <1>1, <1>2, <1>3, <1>4, <1>5, <1>6, <1>7 DEF Inv

\* A first request is written, unless the unique index refuses it.
LEMMA SendCreateInv ==
  ASSUME Inv, NEW q \in Requests, SendCreate(q)
  PROVE  Inv' /\ Kept
<1> DEFINE u == request[q].user
<1>1. /\ request[q] # Idle /\ request[q].at = "create" /\ End(q) /\ UNCHANGED raced
      /\ u \in Users
  BY RequestType DEF SendCreate, Inv
<1>2. CASE UNCHANGED <<row, used, wants>>
  BY <1>1, <1>2, EndInv
<1>3. CASE /\ ~Taken(u, {})
           /\ \E r \in RowIds \ used :
                /\ row' = [row EXCEPT ![r] = [from |-> u, status |-> "PENDING"]]
                /\ used' = used \cup {r}
           /\ wants' = [wants EXCEPT ![u] = TRUE]
  <2>1. PICK r \in RowIds \ used :
               /\ row' = [row EXCEPT ![r] = [from |-> u, status |-> "PENDING"]]
               /\ used' = used \cup {r}
    BY <1>3
  <2> DEFINE new == [from |-> u, status |-> "PENDING"]
  <2>2. /\ new \in Row /\ new # Absent
        /\ new.from = u /\ new.status = "PENDING"
    BY <1>1, FriendsAssumption DEF Row, FriendshipStatus
  <2>3. /\ \A s \in RowIds : row'[s] = IF s = r THEN new ELSE row[s]
        /\ wants'[u]
    BY <1>1, <1>3, <2>1 DEF Inv, TypeOK
  <2> HIDE DEF new
  <2>4. TypeOK'
    BY <1>1, <1>3, <2>1, <2>2, EndRequests DEF Inv, TypeOK, new
  <2>5. "crossing" \notin raced => Rows = {} /\ Rows' = {r}
    <3>1. "crossing" \notin raced => \A s \in Rows : row[s].from = u
      BY <1>1 DEF Inv, OneAsker, Sending, IsSend, In
    <3>2. "crossing" \notin raced => Rows = {}
      BY <1>3, <3>1 DEF Taken
    <3> QED
      BY <2>1, <2>2, <2>3, <3>2 DEF Rows
  <2>6. RowsUsed'
    BY <1>1, <2>1, <2>3, EndRequests DEF Inv, RowsUsed, Rows
  <2>7. OneAsker'
    <3> SUFFICES ASSUME "crossing" \notin raced PROVE OneAsker'
      BY <1>1 DEF OneAsker
    <3>1. \A p \in Requests : Sending(p) => request[p].user = u
      BY <1>1 DEF Inv, OneAsker, Sending, IsSend
    <3>2. \A s \in Rows' : row'[s].from = u
      BY <2>1, <2>2, <2>3, <2>5
    <3>3. \A p \in Requests : Sending(p)' => request'[p].user = u
      BY <1>1, <3>1, EndRequests DEF Sending
    <3> QED
      BY <3>2, <3>3 DEF OneAsker
  <2>8. \A p \in Requests : request'[p] # Idle /\ request'[p].at # "create" =>
          request'[p] = request[p] /\ row'[request'[p].row] = row[request[p].row]
    BY <1>1, <2>1, <2>3, EndRequests, RequestType DEF Inv, RowsUsed
  <2>9. Steady'
    BY <1>1, <2>8, EndRequests DEF Inv, Steady
  <2>10. Asked'
    <3> SUFFICES ASSUME raced = {} PROVE Asked'
      BY <1>1 DEF Asked
    <3>1. \A p \in Requests : request'[p] # Idle /\ request'[p].at # "create" =>
            row'[request'[p].row] = Absent
      BY <2>5, <2>8, EndRequests, <1>1, RequestType DEF Inv, Rows
    <3>2. \A s \in Rows' : row'[s] = new
      BY <2>1, <2>3, <2>5
    <3> QED
      BY <2>2, <2>3, <3>1, <3>2 DEF Asked
  <2>11. (OneRow /\ FriendsByConsent)'
    BY <1>1, <2>1, <2>2, <2>3, <2>5 DEF OneRow, FriendsByConsent
  <2>12. Kept
    <3> SUFFICES ASSUME raced = {} PROVE Contract!ContractNext
      BY DEF Kept
    <3>1. bond = Absent /\ bond' = new
      BY <2>1, <2>3, <2>5, BondIs
    <3>2. Contract!Ask(u)
      BY <1>3, <3>1 DEF Contract!Ask, Contract!Says, new
    <3> QED
      BY <1>1, <3>2 DEF Contract!ContractNext
  <2> QED
    BY <1>1, <2>4, <2>6, <2>7, <2>9, <2>10, <2>11, <2>12, EndRequests DEF Inv
<1> QED
  BY <1>2, <1>3 DEF SendCreate

\* A declined row is turned round, or a request that has turned it is repeated.
LEMMA SendReopenInv ==
  ASSUME Inv, NEW q \in Requests, SendReopen(q)
  PROVE  Inv' /\ Kept
<1> DEFINE u == request[q].user
           r == request[q].row
           new == [from |-> u, status |-> "PENDING"]
<1>1. /\ request[q] # Idle /\ request[q].at = "reopen" /\ End(q) /\ UNCHANGED <<used, raced>>
      /\ u \in Users /\ r \in RowIds
  BY RequestType DEF SendReopen, Inv
<1>2. CASE UNCHANGED <<row, wants>>
  BY <1>1, <1>2, EndInv
<1>3. CASE /\ row[r] # Absent
           /\ row' = [row EXCEPT ![r] = new]
           /\ wants' = [wants EXCEPT ![u] = TRUE]
  <2>2. /\ new \in Row /\ new # Absent
        /\ new.from = u /\ new.status = "PENDING"
    BY <1>1, FriendsAssumption DEF Row, FriendshipStatus
  <2>12. new = [from |-> u, status |-> "PENDING"]
    OBVIOUS
  <2> HIDE DEF new
  <2>3. /\ \A s \in RowIds : row'[s] = IF s = r THEN new ELSE row[s]
        /\ wants'[u]
        /\ \A v \in Users : wants[v] => wants'[v]
    BY <1>1, <1>3 DEF Inv, TypeOK
  <2>4. TypeOK'
    BY <1>1, <1>3, <2>2, EndRequests DEF Inv, TypeOK
  <2>5. In(q, "reopen") /\ Sending(q) /\ request[q].row = r /\ request[q].user = u
    BY <1>1 DEF In, Sending, IsSend
  <2> HIDE DEF u, r
  <2>6. Rows' = Rows /\ r \in Rows
    BY <1>1, <1>3, <2>2, <2>3 DEF Rows
  <2>7. RowsUsed'
    BY <1>1, <2>6, EndRequests DEF Inv, RowsUsed
  <2>8. OneAsker'
    <3> SUFFICES ASSUME "crossing" \notin raced PROVE OneAsker'
      BY <1>1 DEF OneAsker
    <3>1. \A p \in Requests : Sending(p) => request[p].user = u
      BY <2>5 DEF Inv, OneAsker
    <3>2. \A p \in Requests : Sending(p)' => Sending(p) /\ request'[p] = request[p]
      BY <1>1, EndRequests DEF Sending
    <3>3. \A p \in Requests : In(p, "create") => \A s \in Rows : row[s].from = u
      BY <3>1 DEF Inv, OneAsker, In, Sending, IsSend
    <3>4. \A p \in Requests : In(p, "create")' => \A s \in Rows' : row'[s].from = u
      BY <1>1, <2>2, <2>3, <2>6, <3>3, EndRequests DEF Rows
    <3>5. \A p \in Requests : Sending(p)' => request'[p].user = u
      BY <3>1, <3>2
    <3> QED
      BY <3>4, <3>5 DEF OneAsker
  <2>9. Steady'
    <3> SUFFICES ASSUME raced \cap {"turning", "disagreeing"} = {} PROVE Steady'
      BY <1>1 DEF Steady
    <3>1. row[r].status \in {"DECLINED", "PENDING"}
      BY <1>1, <1>3, <2>5 DEF Inv, Steady
    <3>2. ASSUME NEW p \in Requests, request'[p] # Idle, request'[p].at # "create"
          PROVE  request'[p] = request[p] /\ request[p].row \in RowIds
      BY <1>1, <3>2, EndRequests, RequestType DEF Inv
    <3>3. ASSUME NEW p \in Requests, request[p] # Idle, request[p].at = "answer"
          PROVE  FALSE
      BY <2>5, <3>3 DEF Inv, NoTurning, In
    <3>4. ASSUME NEW p \in Requests, request[p] # Idle, request[p].at = "remove",
                 request[p].row = r
          PROVE  FALSE
      BY <1>3, <3>1, <3>4 DEF Inv, Steady
    <3> QED
      BY <1>1, <2>2, <2>3, <3>2, <3>3, <3>4 DEF Inv, Steady
  <2>10. raced = {} => Rows = {r} /\ Rows' = {r}
    BY <2>6 DEF Inv, OneRow
  <2>11. Asked'
    <3> SUFFICES ASSUME raced = {} PROVE Asked'
      BY <1>1 DEF Asked
    <3>1. \A s \in Rows' : row'[s] = new
      BY <2>3, <2>10, <1>1
    <3>2. ASSUME NEW p \in Requests, request'[p] # Idle, request'[p].at # "create",
                 row'[request'[p].row] # Absent
          PROVE  request'[p] = request[p] /\ request'[p].row = r
      <4>1. request'[p] = request[p] /\ request[p].row \in RowIds
        BY <1>1, <3>2, EndRequests, RequestType DEF Inv
      <4> QED
        BY <2>10, <3>2, <4>1 DEF Rows
    <3>3. ASSUME NEW p \in Requests, request[p] # Idle, request[p].at = "answer"
          PROVE  FALSE
      BY <2>5, <3>3 DEF Inv, NoTurning, In
    <3>4. ASSUME NEW p \in Requests, request[p] # Idle, request[p].at = "reopen"
          PROVE  request[p].user = u
      BY <2>5, <3>4 DEF Inv, OneAsker, Sending, IsSend
    <3> QED
      BY <1>1, <2>2, <2>3, <3>1, <3>2, <3>3, <3>4 DEF Asked
  <2>13. (OneRow /\ FriendsByConsent)'
    BY <1>1, <2>2, <2>3, <2>6, <2>10 DEF Inv, OneRow, FriendsByConsent
  <2>14. Kept
    <3> SUFFICES ASSUME raced = {} PROVE [Contract!ContractNext]_(Contract!contractVars)
      BY DEF Kept
    <3>1. bond = row[r] /\ bond' = new
      BY <1>1, <2>3, <2>10, BondIs
    <3>2. row[r].status \in {"DECLINED", "PENDING"}
      BY <1>1, <1>3, <2>5 DEF Inv, Steady
    <3>3. CASE row[r].status = "DECLINED"
      <4>1. Contract!Ask(u)
        BY <1>3, <2>12, <3>1, <3>3 DEF Contract!Ask, Contract!Says, Contract!Stands
      <4> QED
        BY <1>1, <4>1 DEF Contract!ContractNext
    <3>4. CASE row[r].status = "PENDING"
      <4>1. row[r].from = u /\ wants[u]
        BY <1>1, <1>3, <2>5, <2>6, <3>4 DEF Inv, Asked
      <4>2. row[r] = new
        BY <1>1, <1>3, <2>12, <3>4, <4>1 DEF Inv, TypeOK, Row
      <4>3. wants' = wants
        BY <1>1, <1>3, <4>1 DEF Inv, TypeOK
      <4> QED
        BY <3>1, <4>2, <4>3 DEF Contract!contractVars
    <3> QED
      BY <3>2, <3>3, <3>4
  <2> QED
    BY <1>1, <2>4, <2>7, <2>8, <2>9, <2>11, <2>13, <2>14, EndRequests DEF Inv
<1> QED
  BY <1>2, <1>3 DEF SendReopen

\* An answer is written, or the same answer is written again.
LEMMA AnswerWriteInv ==
  ASSUME Inv, NEW q \in Requests, AnswerWrite(q)
  PROVE  Inv' /\ Kept
<1> DEFINE u == request[q].user
           r == request[q].row
           answer == request[q].answer
<1>1. /\ request[q] # Idle /\ request[q].at = "answer" /\ End(q) /\ UNCHANGED <<used, raced>>
      /\ u \in Users /\ r \in RowIds /\ answer \in {"ACCEPTED", "DECLINED"}
  BY RequestType DEF AnswerWrite, Inv
<1>2. CASE UNCHANGED <<row, wants>>
  BY <1>1, <1>2, EndInv
<1>3. CASE /\ row[r] # Absent
           /\ row' = [row EXCEPT ![r].status = answer]
           /\ wants' = [wants EXCEPT ![u] = (answer = "ACCEPTED")]
  <2>1. row[r] \in Row
    BY <1>1, <1>3 DEF Inv, TypeOK
  <2> DEFINE new == [row[r] EXCEPT !.status = answer]
  <2>2. /\ new \in Row /\ new # Absent
        /\ new.from = row[r].from /\ new.status = answer
    BY <1>1, <2>1, FriendsAssumption DEF Row, FriendshipStatus
  <2>3. \A s \in RowIds : row'[s] = IF s = r THEN new ELSE row[s]
    BY <1>1, <1>3 DEF Inv, TypeOK
  <2>4. TypeOK'
    BY <1>1, <1>3, <2>1, EndRequests DEF Inv, TypeOK, Row, FriendshipStatus
  <2>5. /\ In(q, "answer") /\ request[q].row = r /\ request[q].user = u
        /\ request[q].answer = answer
    BY <1>1 DEF In
  <2>6. row[r].status = answer => new = row[r]
    BY <2>1 DEF Row
  <2>7. new = [row[r] EXCEPT !.status = answer]
    OBVIOUS
  <2> HIDE DEF new, u, r, answer
  <2>8. Rows' = Rows /\ r \in Rows
    BY <1>1, <1>3, <2>2, <2>3 DEF Rows
  <2>9. RowsUsed'
    BY <1>1, <2>8, EndRequests DEF Inv, RowsUsed
  <2>10. OneAsker'
    <3>1. \A s \in Rows : row'[s].from = row[s].from
      BY <1>1, <2>2, <2>3 DEF Rows
    <3> QED
      BY <1>1, <2>8, <3>1, EndRequests DEF Inv, OneAsker, Sending, In
  <2>11. raced \cap {"turning", "disagreeing"} = {} => row[r].status \in {"PENDING", answer}
    BY <1>1, <1>3, <2>5 DEF Inv, Steady
  <2>12. "turning" \notin raced =>
           \A p \in Requests : request[p] # Idle => request[p].at # "reopen"
    BY <2>5 DEF Inv, NoTurning, In
  <2>13. "disagreeing" \notin raced =>
           \A p \in Requests :
             request[p] # Idle /\ request[p].at = "answer" => request[p].answer = answer
    BY <2>5 DEF Inv, OneAnswer, In
  <2>14. ASSUME NEW p \in Requests, request'[p] # Idle, request'[p].at # "create"
         PROVE  request[p] # Idle /\ request'[p] = request[p] /\ request[p].row \in RowIds
    BY <1>1, <2>14, EndRequests, RequestType DEF Inv
  <2>15. Steady'
    <3> SUFFICES ASSUME raced \cap {"turning", "disagreeing"} = {} PROVE Steady'
      BY <1>1 DEF Steady
    <3>1. ASSUME NEW p \in Requests, request[p] # Idle, request[p].at # "create",
                 row[request[p].row] # Absent
          PROVE  /\ request[p].at # "reopen"
                 /\ request[p].at = "answer" =>
                      /\ request[p].answer = answer
                      /\ row[request[p].row].status \in {"PENDING", request[p].answer}
                 /\ request[p].at = "remove" =>
                      /\ row[request[p].row].status = "ACCEPTED"
                      /\ request[p].row = r => answer = "ACCEPTED"
      BY <2>11, <2>12, <2>13, <3>1 DEF Inv, Steady
    <3>2. ASSUME NEW p \in Requests, request'[p] # Idle, request'[p].at # "create",
                 row'[request'[p].row] # Absent
          PROVE  /\ request'[p] = request[p]
                 /\ row[request[p].row] # Absent
                 /\ row'[request[p].row].status =
                      IF request[p].row = r THEN answer ELSE row[request[p].row].status
      BY <1>3, <2>2, <2>3, <2>14, <3>2
    <3> QED
      BY <2>14, <3>1, <3>2 DEF Steady
  <2>16. ASSUME raced = {}
         PROVE  /\ Rows = {r} /\ Rows' = {r}
                /\ row[r].from # u /\ row[r].from \in Users
                /\ \A v \in Users : v = u \/ v = row[r].from
    <3>1. Rows = {r} /\ Rows' = {r}
      BY <2>8, <2>16 DEF Inv, OneRow
    <3>2. row[r].from # u
      BY <1>1, <1>3, <2>5, <2>16 DEF Inv, Asked
    <3> QED
      BY <1>1, <2>1, <3>1, <3>2 DEF Users, Row
  <2>17. \A v \in Users : wants'[v] = IF v = u THEN answer = "ACCEPTED" ELSE wants[v]
    BY <1>1, <1>3 DEF Inv, TypeOK
  <2>18. Asked'
    <3> SUFFICES ASSUME raced = {} PROVE Asked'
      BY <1>1 DEF Asked
    <3>1. \A s \in Rows' : row'[s].status # "PENDING"
      BY <1>1, <2>2, <2>3, <2>16
    <3>2. ASSUME NEW p \in Requests, request'[p] # Idle, request'[p].at # "create",
                 row'[request'[p].row] # Absent
          PROVE  /\ request'[p].at # "reopen" /\ request'[p].row = r
                 /\ request'[p].at = "answer" =>
                      request'[p].user = u /\ row[r].from # request'[p].user
      <4>1. request[p] # Idle /\ request'[p] = request[p] /\ request[p].row \in RowIds
        BY <2>14, <3>2
      <4>2. request[p].row = r
        BY <2>16, <3>2, <4>1 DEF Rows
      <4>3. request[p].at = "answer" => row[r].from # request[p].user
        BY <1>3, <4>1, <4>2 DEF Inv, Asked
      <4>4. request[p].user \in Users
        BY <4>1, RequestType DEF Inv
      <4> QED
        BY <2>12, <2>16, <4>1, <4>2, <4>3, <4>4
    <3> QED
      BY <1>1, <2>2, <2>3, <2>17, <3>1, <3>2 DEF Asked
  <2>19. ASSUME raced = {}, answer = "ACCEPTED"
         PROVE  \A v \in Users : wants'[v]
    <3>1. wants[row[r].from]
      <4>1. row[r].status = "PENDING" \/ row[r].status = "ACCEPTED"
        BY <2>11, <2>19
      <4> QED
        BY <2>8, <2>16, <2>19, <4>1 DEF Inv, Asked, FriendsByConsent
    <3> QED
      BY <2>16, <2>17, <2>19, <3>1
  <2>20. (OneRow /\ FriendsByConsent)'
    <3>1. OneRow'
      BY <1>1, <2>8 DEF Inv, OneRow
    <3>2. FriendsByConsent'
      BY <1>1, <2>2, <2>3, <2>16, <2>19 DEF FriendsByConsent
    <3> QED
      BY <3>1, <3>2
  <2>21. Kept
    <3> SUFFICES ASSUME raced = {} PROVE [Contract!ContractNext]_(Contract!contractVars)
      BY DEF Kept
    <3>1. bond = row[r] /\ bond' = new
      BY <1>1, <2>3, <2>16, BondIs
    <3>2. CASE row[r].status = "PENDING"
      <4>1. Contract!Answer(u, answer)
        BY <1>3, <2>7, <2>16, <3>1, <3>2
           DEF Contract!Answer, Contract!Stands, Contract!Says
      <4> QED
        BY <1>1, <4>1 DEF Contract!ContractNext
    <3>3. CASE row[r].status = answer
      <4>1. wants[u] = (answer = "ACCEPTED")
        <5>1. CASE answer = "ACCEPTED"
          BY <1>1, <2>8, <3>3, <5>1 DEF Inv, FriendsByConsent, TypeOK
        <5>2. CASE answer = "DECLINED"
          BY <1>1, <1>3, <2>5, <3>3, <5>2 DEF Inv, Asked, TypeOK
        <5> QED
          BY <1>1, <5>1, <5>2
      <4>2. wants' = wants
        BY <1>1, <1>3, <4>1 DEF Inv, TypeOK
      <4> QED
        BY <2>6, <3>1, <3>3, <4>2 DEF Contract!contractVars
    <3> QED
      BY <2>11, <3>2, <3>3
  <2> QED
    BY <1>1, <2>4, <2>9, <2>10, <2>15, <2>18, <2>20, <2>21, EndRequests DEF Inv
<1> QED
  BY <1>2, <1>3 DEF AnswerWrite

\* The row is deleted, or was.
LEMMA RemoveWriteInv ==
  ASSUME Inv, NEW q \in Requests, RemoveWrite(q)
  PROVE  Inv' /\ Kept
<1> DEFINE u == request[q].user
           r == request[q].row
<1>1. /\ request[q] # Idle /\ request[q].at = "remove" /\ End(q) /\ UNCHANGED <<used, raced>>
      /\ u \in Users /\ r \in RowIds
      /\ row' = [row EXCEPT ![r] = Absent]
      /\ wants' = IF row[r] = Absent THEN wants ELSE [wants EXCEPT ![u] = FALSE]
  BY RequestType DEF RemoveWrite, Inv
<1>2. request[q].row = r
  OBVIOUS
<1> HIDE DEF u, r
<1>3. /\ \A s \in RowIds : row'[s] = IF s = r THEN Absent ELSE row[s]
      /\ Rows' = Rows \ {r}
  BY <1>1 DEF Inv, TypeOK, Rows
<1>4. TypeOK'
  BY <1>1, EndRequests DEF Inv, TypeOK
<1>5. RowsUsed'
  BY <1>1, <1>3, EndRequests DEF Inv, RowsUsed
<1>6. OneAsker'
  BY <1>1, <1>3, EndRequests DEF Inv, OneAsker, Sending, In, Rows
<1>7. Steady'
  BY <1>1, <1>3, EndRequests, RequestType DEF Inv, Steady
<1>8. CASE row[r] = Absent
  <2>1. row' = row /\ wants' = wants
    BY <1>1, <1>8 DEF Inv, TypeOK
  <2> QED
    BY <1>1, <2>1, EndInv
<1>9. CASE row[r] # Absent
  <2>1. raced = {} => Rows = {r} /\ Rows' = {}
    BY <1>1, <1>3, <1>9 DEF Inv, OneRow, Rows
  <2>2. Asked'
    <3> SUFFICES ASSUME raced = {} PROVE Asked'
      BY <1>1 DEF Asked
    <3>1. \A p \in Requests : request'[p] # Idle /\ request'[p].at # "create" =>
            row'[request'[p].row] = Absent
      BY <1>1, <2>1, EndRequests, RequestType DEF Inv, Rows
    <3> QED
      BY <2>1, <3>1 DEF Asked
  <2>3. (OneRow /\ FriendsByConsent)'
    BY <1>1, <1>3, <2>1 DEF Inv, OneRow, FriendsByConsent, Rows
  <2>4. Kept
    <3> SUFFICES ASSUME raced = {} PROVE Contract!ContractNext
      BY DEF Kept
    <3>1. bond = row[r] /\ bond' = Absent
      BY <2>1, BondIs
    <3>2. row[r].status = "ACCEPTED"
      BY <1>1, <1>2, <1>9 DEF Inv, Steady
    <3>3. Contract!Remove(u)
      BY <1>1, <1>9, <3>1, <3>2 DEF Contract!Remove, Contract!Stands, Contract!Says
    <3> QED
      BY <1>1, <3>3 DEF Contract!ContractNext
  <2> QED
    BY <1>1, <1>4, <1>5, <1>6, <1>7, <2>2, <2>3, <2>4, EndRequests DEF Inv
<1> QED
  BY <1>8, <1>9

-----------------------------------------------------------------------------

\* The invariant is inductive, and every step is one of the contract or none.
LEMMA InvStep == Inv /\ [Next]_vars => Inv' /\ Kept
<1> SUFFICES ASSUME Inv, [Next]_vars PROVE Inv' /\ Kept
  OBVIOUS
<1>1. ASSUME UNCHANGED <<row, wants>> PROVE Kept
  BY <1>1 DEF Kept, Contract!contractVars, bond, Rows
<1>2. ASSUME NEW q \in Requests, NEW u \in Users, SendBegin(q, u) \/ RemoveBegin(q, u)
      PROVE  Inv' /\ Kept
  BY <1>1, <1>2, SendBeginInv, RemoveBeginInv DEF SendBegin, RemoveBegin
<1>3. ASSUME NEW q \in Requests, NEW u \in Users, NEW r \in RowIds,
             AcceptRequest(q, u, r) \/ DeclineRequest(q, u, r)
      PROVE  Inv' /\ Kept
  BY <1>1, <1>3, AnswerBeginInv DEF AcceptRequest, DeclineRequest, AnswerBegin
<1>4. ASSUME NEW q \in Requests,
             SendCreate(q) \/ SendReopen(q) \/ AnswerWrite(q) \/ RemoveWrite(q)
      PROVE  Inv' /\ Kept
  BY <1>4, SendCreateInv, SendReopenInv, AnswerWriteInv, RemoveWriteInv
<1>5. ASSUME NEW q \in Requests, Fail(q) PROVE Inv' /\ Kept
  BY <1>5, EndInv DEF Fail
<1>6. CASE UNCHANGED vars
  <2>1. Inv'
    BY <1>6 DEF vars, Inv, TypeOK, RowsUsed, OneAsker, NoTurning, OneAnswer, Steady,
                Asked, OneRow, FriendsByConsent, Rows, In, Sending
  <2> QED
    BY <1>1, <1>6, <2>1 DEF vars
<1> QED
  BY <1>2, <1>3, <1>4, <1>5, <1>6 DEF Next

\* It holds in every reachable state of friends.service.ts:77-195.
THEOREM Invariance == Spec => []Inv
<1>1. Inv /\ [Next]_vars => Inv'
  BY InvStep
<1> QED
  BY <1>1, InvInit, PTL DEF Spec

\* Every variable keeps its type, whatever requests overlap.
THEOREM TypeCorrect == Spec => []TypeOK
<1>1. Inv => TypeOK
  BY DEF Inv
<1> QED
  BY <1>1, Invariance, PTL

\* Two users have one row as long as they do not ask each other at once, whatever
\* else overlaps (friends.service.ts:87-94).
THEOREM OneRowAlways == Spec => []OneRow
<1>1. Inv => OneRow
  BY DEF Inv
<1> QED
  BY <1>1, Invariance, PTL

\* Friends are friends by consent of both while no requests have raced
\* (friends.service.ts:133-138).
THEOREM ConsentAlways == Spec => []FriendsByConsent
<1>1. Inv => FriendsByConsent
  BY DEF Inv
<1> QED
  BY <1>1, Invariance, PTL

\* Unless an answer has raced with another one or with a re-request, an accepted row
\* is left as it is or removed.
LEMMA AcceptedStep ==
  Inv /\ [Next]_vars =>
    [\A r \in Rows :
       row[r].status = "ACCEPTED" /\ raced \cap {"turning", "disagreeing"} = {} =>
         row'[r] \in {row[r], Absent}]_vars
<1> SUFFICES ASSUME Inv, Next, raced \cap {"turning", "disagreeing"} = {},
                    NEW r \in Rows, row[r].status = "ACCEPTED"
             PROVE  row'[r] \in {row[r], Absent}
  BY DEF vars
<1>1. ASSUME NEW q \in Requests, SendCreate(q) PROVE row'[r] \in {row[r], Absent}
  <2>1. CASE UNCHANGED row
    BY <2>1
  <2>2. ASSUME NEW s \in RowIds \ used, row[s] # Absent PROVE FALSE
    BY <2>2 DEF Inv, RowsUsed, Rows
  <2> QED
    BY <1>1, <2>1, <2>2 DEF SendCreate, Inv, TypeOK, Rows
<1>2. ASSUME NEW q \in Requests, SendReopen(q) PROVE row'[r] \in {row[r], Absent}
  <2>1. row[request[q].row] = Absent \/ request[q].row # r
    BY <1>2 DEF SendReopen, Inv, Steady
  <2> QED
    BY <1>2, <2>1, RequestType DEF SendReopen, Inv, TypeOK, Rows
<1>3. ASSUME NEW q \in Requests, AnswerWrite(q) PROVE row'[r] \in {row[r], Absent}
  <2>1. request[q].row = r => request[q].answer = "ACCEPTED"
    BY <1>3 DEF AnswerWrite, Inv, Steady, Rows
  <2>2. row[r] \in Row
    BY DEF Inv, TypeOK, Rows
  <2> QED
    BY <1>3, <2>1, <2>2, RequestType DEF AnswerWrite, Inv, TypeOK, Rows, Row
<1>4. ASSUME NEW q \in Requests, RemoveWrite(q) PROVE row'[r] \in {row[r], Absent}
  BY <1>4, RequestType DEF RemoveWrite, Inv, TypeOK, Rows
<1> QED
  BY <1>1, <1>2, <1>3, <1>4
     DEF Next, SendBegin, RemoveBegin, AcceptRequest, DeclineRequest, AnswerBegin, Fail

\* A friendship ends by removal.
THEOREM EndsByRemovalAlways == Spec => FriendshipEndsByRemoval
  BY Invariance, AcceptedStep, PTL DEF Spec, FriendshipEndsByRemoval

\* The first request finds nothing between the two users.
LEMMA ContractStarts == Init => Contract!ContractInit
  BY BondIs DEF Init, Rows, Contract!ContractInit

LEMMA KeptStep == Inv /\ [Next]_vars =>
  [raced = {} => [Contract!ContractNext]_(Contract!contractVars)]_vars
  BY InvStep DEF Kept

\* Requests that overlap without racing are steps of the contract, one each or none.
THEOREM KeepsContractAlways == Spec => KeepsContract
  BY Invariance, ContractStarts, KeptStep, PTL DEF Spec, KeepsContract

\* So FriendsService implements the contract when nothing ever races.
THEOREM RacelessImplements == Spec /\ [](raced = {}) => Contract!ContractSpec
<1>1. raced = {} /\ Inv /\ [Next]_vars => [Contract!ContractNext]_(Contract!contractVars)
  BY InvStep DEF Kept
<1> QED
  BY <1>1, Invariance, ContractStarts, PTL DEF Spec, Contract!ContractSpec
=============================================================================
