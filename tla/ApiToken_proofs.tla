-------------------------- MODULE ApiToken_proofs --------------------------
(***************************************************************************)
(* For any users, operations and requests in flight, and any bounds: a     *)
(* token's retired secrets are refused and its good one is accepted, and   *)
(* the activity feed agrees with what sockets were sent.                   *)
(***************************************************************************)
EXTENDS ApiToken, TLAPS

(***************************************************************************)
(* Types                                                                   *)
(***************************************************************************)

\* The history rows there can be once n events have been published.
Row(n) == [n : 1 .. n, model : {"ApiToken", "AuditEvent"}, owner : Users \cup {None}]

\* What an event may carry as its owner.
LEMMA OwnerType ==
    ASSUME NEW data, data = None \/ (data.created_by \in Users \cup {None}
                                     /\ data.uid \in Users \cup {None})
    PROVE  OwnerOf(data) \in Users \cup {None}
BY DEF OwnerOf

\* Publishing announces one more event and keeps the rest.
LEMMA PublishType ==
    ASSUME LiveTypeOK, events < MaxEvents, NEW model \in {"ApiToken", "AuditEvent"}, NEW data,
           OwnerOf(data) \in Users \cup {None}, Publish(model, data)
    PROVE  LiveTypeOK'
<1> DEFINE n == events + 1
           row == [n |-> n, model |-> model, owner |-> OwnerOf(data)]
<1>1. /\ events' = n /\ UNCHANGED <<rights, page, socket, rows>>
      /\ n \in 0 .. MaxEvents /\ 1 .. events \subseteq 1 .. n /\ n \in 1 .. n
      /\ writing' = writing \cup {row}
  BY EventBounds DEF Publish, LiveTypeOK
<1>2. /\ heard' \in [Users -> SUBSET (1 .. n)] /\ attended' \in [Users -> SUBSET (1 .. n)]
      /\ \A u \in Users : heard'[u] \subseteq attended'[u]
  BY <1>1 DEF Publish, LiveTypeOK
<1>3. writing' \cup rows' \subseteq Row(n)
  <2>1. row \in Row(n) BY <1>1 DEF Row
  <2>2. Row(events) \subseteq Row(n) BY <1>1 DEF Row
  <2> QED BY <1>1, <2>1, <2>2 DEF LiveTypeOK, Row
<1> QED BY <1>1, <1>2, <1>3 DEF LiveTypeOK, Row

\* An event is announced or it is not.
LEMMA AnnounceType ==
    ASSUME LiveTypeOK, events < MaxEvents, NEW model \in {"ApiToken", "AuditEvent"}, NEW data,
           OwnerOf(data) \in Users \cup {None}, Announce(model, data)
    PROVE  LiveTypeOK'
<1>1. CASE Publish(model, data) BY <1>1, PublishType
<1>2. CASE UNCHANGED live BY <1>2 DEF live, LiveTypeOK
<1> QED BY <1>1, <1>2 DEF Announce

\* Logins, pages, connections, and rows that are written or lost.
LEMMA LiveType ==
    ASSUME LiveTypeOK, LiveNext
    PROVE  LiveTypeOK'
<1>1. CASE RowSettled BY <1>1 DEF RowSettled, LiveTypeOK
<1>2. ASSUME NEW u \in Users, LogIn(u) \/ Connect(u) PROVE LiveTypeOK'
  <2>1. /\ rights' \in [Users -> Rights] /\ socket' \in [Users -> Rights \cup {"off"}]
        /\ UNCHANGED <<page, events, heard, attended, writing, rows>>
    BY <1>2 DEF LogIn, Connect, LiveTypeOK, Rights
  <2> QED BY <2>1 DEF LiveTypeOK
<1>3. ASSUME NEW u \in Users, Closed(u), page' \in [Users -> Rights] PROVE LiveTypeOK'
  <2>1. /\ socket' \in [Users -> Rights \cup {"off"}]
        /\ UNCHANGED <<rights, events, writing, rows>>
    BY <1>3 DEF Closed, LiveTypeOK
  <2>2. /\ heard' \in [Users -> SUBSET (1 .. events)]
        /\ attended' \in [Users -> SUBSET (1 .. events)]
        /\ \A v \in Users : heard'[v] \subseteq attended'[v]
    BY <1>3 DEF Closed, LiveTypeOK
  <2> QED BY <1>3, <2>1, <2>2 DEF LiveTypeOK
<1>4. ASSUME NEW u \in Users, LoadPage(u) \/ Disconnect(u) PROVE LiveTypeOK'
  <2>1. Closed(u) /\ page' \in [Users -> Rights]
    BY <1>4 DEF LoadPage, Disconnect, LiveTypeOK
  <2> QED BY <2>1, <1>3
<1> QED BY <1>1, <1>2, <1>4 DEF LiveNext

\* The owner's operations.
LEMMA TokenType ==
    ASSUME TypeOK, NEW o \in Tabs,
           Add(o) \/ GetOwned(o) \/ Rotate(o) \/ Edit(o) \/ Remove(o) \/ Fail(o)
    PROVE  TypeOK'
<1> USE SecretsAssumption, OwnerAssumption DEF TypeOK, store, request, TabTo
<1>1. CASE Add(o)
  <2>1. LiveTypeOK'
    <3>1. OwnerOf([created_by |-> Owner, uid |-> None]) \in Users \cup {None}
      BY OwnerType
    <3> QED BY <1>1, <3>1, AnnounceType DEF Add
  <2>2. token' \in Records BY <1>1 DEF Add, Records
  <2> QED BY <1>1, <2>1, <2>2 DEF Add
<1>2. CASE GetOwned(o)
  BY <1>2 DEF GetOwned, live, LiveTypeOK
<1>3. CASE Rotate(o)
  <2>1. LiveTypeOK' BY <1>3 DEF Rotate, live, LiveTypeOK
  <2>2. token' \in Records BY <1>3 DEF Rotate, Records
  <2>3. token.hash \in 0 .. MaxSecrets BY DEF Records
  <2>4. steady' \in [Requests -> BOOLEAN] BY <1>3 DEF Rotate, Watch
  <2> QED BY <1>3, <2>1, <2>2, <2>3, <2>4 DEF Rotate
<1>4. CASE Edit(o)
  <2>1. LiveTypeOK' BY <1>4 DEF Edit, live, LiveTypeOK
  <2>2. token' \in Records BY <1>4 DEF Edit, Records
  <2>3. steady' \in [Requests -> BOOLEAN] BY <1>4 DEF Edit, Watch
  <2> QED BY <1>4, <2>1, <2>2, <2>3 DEF Edit
<1>5. CASE Remove(o)
  <2>1. LiveTypeOK'
    <3>1. OwnerOf(None) \in Users \cup {None} BY OwnerType
    <3> QED BY <1>5, <3>1, AnnounceType DEF Remove
  <2>2. token' \in Records BY <1>5 DEF Remove, Records, Absent
  <2>3. steady' \in [Requests -> BOOLEAN] BY <1>5 DEF Remove, Watch
  <2> QED BY <1>5, <2>1, <2>2, <2>3 DEF Remove
<1>6. CASE Fail(o)
  BY <1>6 DEF Fail, live, LiveTypeOK
<1> QED BY <1>1, <1>2, <1>3, <1>4, <1>5, <1>6

\* A request's steps.
LEMMA RequestType ==
    ASSUME TypeOK, NEW q \in Requests, Get(q) \/ Compare(q) \/ Touch(q) \/ Answered(q)
    PROVE  TypeOK'
<1> USE SecretsAssumption DEF TypeOK, store
<1>0. LiveTypeOK' BY DEF Get, Compare, Touch, Answered, live, LiveTypeOK
<1>1. CASE Get(q)
  <2>1. PICK s \in 1 .. secrets :
             /\ shown' = [shown EXCEPT ![q] = s]
             /\ \/ /\ seen' = [seen EXCEPT ![q] = token]
                   /\ steady' = [steady EXCEPT ![q] = Good(token, s)]
                   /\ req' = [req EXCEPT ![q] = "compare"]
                \/ req' = [req EXCEPT ![q] = "denied"] /\ UNCHANGED <<seen, steady>>
    BY <1>1 DEF Get
  <2>2. Good(token, s) \in BOOLEAN BY DEF Good
  <2>3. steady' \in [Requests -> BOOLEAN] BY <2>1, <2>2
  <2>4. UNCHANGED <<token, secrets, retired, late, tab>> BY <1>1 DEF Get
  <2>5. /\ shown' \in [Requests -> 0 .. MaxSecrets]
        /\ before' \in [Requests -> SUBSET (0 .. MaxSecrets)]
    BY <1>1, <2>1 DEF Get
  <2>6. /\ req' \in [Requests -> {"idle", "compare", "touch", "accepted", "denied"}]
        /\ seen' \in [Requests -> Records]
    BY <2>1
  <2> QED BY <1>0, <2>3, <2>4, <2>5, <2>6
<1>2. CASE Compare(q) BY <1>0, <1>2 DEF Compare
<1>3. CASE Touch(q) BY <1>0, <1>3 DEF Touch
<1>4. CASE Answered(q)
  <2>1. Absent \in Records BY DEF Absent, Records
  <2> QED BY <1>0, <1>4, <2>1 DEF Answered
<1> QED BY <1>1, <1>2, <1>3, <1>4

\* The clock, audited sessions and browsers.
LEMMA WorldType ==
    ASSUME TypeOK,
           Expire \/ AuditAnnounced \/ (LiveNext /\ UNCHANGED <<store, tab, request>>)
    PROVE  TypeOK'
<1> USE DEF TypeOK, store, request
<1>1. CASE Expire
  <2>1. LiveTypeOK' BY <1>1 DEF Expire, live, LiveTypeOK
  <2>2. steady' \in [Requests -> BOOLEAN] BY <1>1 DEF Expire
  <2>3. late' \in BOOLEAN BY <1>1 DEF Expire
  <2> QED BY <1>1, <2>1, <2>2, <2>3 DEF Expire
<1>2. CASE AuditAnnounced
  <2>1. PICK u \in Users : Publish("AuditEvent", [created_by |-> None, uid |-> u])
    BY <1>2 DEF AuditAnnounced
  <2>2. OwnerOf([created_by |-> None, uid |-> u]) \in Users \cup {None}
    BY OwnerType
  <2>3. LiveTypeOK' BY <1>2, <2>1, <2>2, PublishType DEF AuditAnnounced
  <2> QED BY <1>2, <2>3 DEF AuditAnnounced
<1>3. CASE LiveNext /\ UNCHANGED <<store, tab, request>>
  BY <1>3, LiveType
<1> QED BY <1>1, <1>2, <1>3

\* Every variable of the token, its requests and the live events keeps its type.
THEOREM TypesKept == Spec => []TypeOK
<1>1. Init => TypeOK
  <2> SUFFICES ASSUME Init PROVE TypeOK OBVIOUS
  <2>1. LiveTypeOK BY EventBounds DEF Init, LiveInit, LiveTypeOK, Rights
  <2>2. Absent \in Records BY SecretsAssumption DEF Absent, Records
  <2>3. late \in BOOLEAN BY Zenon DEF Init
  <2> QED BY <2>1, <2>2, <2>3, SecretsAssumption DEF Init, TypeOK
<1>2. TypeOK /\ [Next]_vars => TypeOK'
  <2> SUFFICES ASSUME TypeOK, [Next]_vars PROVE TypeOK' OBVIOUS
  <2>1. CASE UNCHANGED vars
    BY <2>1 DEF vars, live, store, request, TypeOK, LiveTypeOK
  <2>2. CASE \E o \in Tabs : Add(o) \/ GetOwned(o) \/ Rotate(o) \/ Edit(o) \/ Remove(o) \/ Fail(o)
    BY <2>2, TokenType
  <2>3. CASE \E q \in Requests : Get(q) \/ Compare(q) \/ Touch(q) \/ Answered(q)
    BY <2>3, RequestType
  <2>4. CASE Expire \/ AuditAnnounced \/ (LiveNext /\ UNCHANGED <<store, tab, request>>)
    BY <2>4, WorldType
  <2> QED BY <2>1, <2>2, <2>3, <2>4 DEF Next
<1> QED BY <1>1, <1>2, PTL DEF Spec

(***************************************************************************)
(* Secrets                                                                 *)
(***************************************************************************)

\* The hash in Redis is of no retired secret, nor was the one a request read when
\* it read it; and a steady request would pass by what it read.
SecretInv ==
    /\ token.hash \in 0 .. secrets /\ retired \subseteq 0 .. secrets
    /\ token.hash # 0 => token.hash \notin retired
    /\ \A q \in Requests :
          /\ req[q] \in {"compare", "touch"} =>
                /\ shown[q] # 0
                /\ seen[q].hash # 0 => seen[q].hash \notin before[q]
          /\ req[q] = "compare" /\ steady[q] => Good(seen[q], shown[q])
          /\ req[q] = "touch" => seen[q].hash = shown[q]
          /\ req[q] = "idle" => ~steady[q]
          /\ req[q] = "accepted" => shown[q] \notin before[q]
          /\ req[q] = "denied" => ~steady[q]

\* Steps of the owner: a request keeps what it read, and may only lose steadiness.
LEMMA TokenSecrets ==
    ASSUME TypeOK, SecretInv, NEW o \in Tabs,
           Add(o) \/ GetOwned(o) \/ Rotate(o) \/ Edit(o) \/ Remove(o) \/ Fail(o)
    PROVE  SecretInv'
<1>1. /\ UNCHANGED <<req, shown, seen, before, late>>
      /\ \A q \in Requests : steady'[q] => steady[q]
  BY DEF Add, GetOwned, Rotate, Edit, Remove, Fail, Watch, store, request
<1>2. /\ token'.hash \in 0 .. secrets' /\ retired' \subseteq 0 .. secrets'
      /\ token'.hash # 0 => token'.hash \notin retired'
  <2> USE DEF TypeOK, SecretInv
  <2>1. CASE Add(o) BY <2>1 DEF Add
  <2>2. CASE GetOwned(o) BY <2>2 DEF GetOwned, store
  <2>3. CASE Rotate(o)
    <3>1. /\ secrets' = secrets + 1 /\ token' = [token EXCEPT !.hash = secrets + 1]
          /\ retired' = retired \cup {token.hash}
      BY <2>3 DEF Rotate
    <3>2. token'.hash = secrets + 1 BY <3>1 DEF Records
    <3> QED BY <3>1, <3>2
  <2>4. CASE Edit(o)
    <3>1. token'.hash = token.hash BY <2>4 DEF Edit, Records
    <3> QED BY <2>4, <3>1 DEF Edit
  <2>5. CASE Remove(o)
    <3>1. token'.hash = 0 /\ secrets' = secrets /\ retired' = retired \cup 1 .. secrets
      BY <2>5 DEF Remove, Absent
    <3> QED BY <3>1
  <2>6. CASE Fail(o) BY <2>6 DEF Fail, store
  <2> QED BY <2>1, <2>2, <2>3, <2>4, <2>5, <2>6
<1>3. \A q \in Requests : Good(seen[q], shown[q])' <=> Good(seen[q], shown[q])
  BY <1>1 DEF Good
<1> QED BY <1>1, <1>2, <1>3 DEF SecretInv

\* A request's own steps.
LEMMA RequestSecrets ==
    ASSUME TypeOK, SecretInv, NEW q \in Requests,
           Get(q) \/ Compare(q) \/ Touch(q) \/ Answered(q)
    PROVE  SecretInv'
<1>0. UNCHANGED <<token, secrets, retired, late>>
  BY DEF Get, Compare, Touch, Answered, store
<1>1. \A r \in Requests \ {q} : /\ req'[r] = req[r] /\ shown'[r] = shown[r]
                                /\ seen'[r] = seen[r] /\ before'[r] = before[r]
                                /\ steady'[r] = steady[r]
  BY DEF Get, Compare, Touch, Answered, TypeOK
<1> DEFINE Mine ==
      /\ req'[q] \in {"compare", "touch"} =>
            /\ shown'[q] # 0
            /\ seen'[q].hash # 0 => seen'[q].hash \notin before'[q]
      /\ req'[q] = "compare" /\ steady'[q] => Good(seen'[q], shown'[q])
      /\ req'[q] = "touch" => seen'[q].hash = shown'[q]
      /\ req'[q] = "idle" => ~steady'[q]
      /\ req'[q] = "accepted" => shown'[q] \notin before'[q]
      /\ req'[q] = "denied" => ~steady'[q]
<1>2. Mine
  <2>1. CASE Get(q)
    <3>1. PICK s \in 1 .. secrets :
               /\ shown' = [shown EXCEPT ![q] = s]
               /\ \/ /\ seen' = [seen EXCEPT ![q] = token]
                     /\ steady' = [steady EXCEPT ![q] = Good(token, s)]
                     /\ req' = [req EXCEPT ![q] = "compare"]
                  \/ req' = [req EXCEPT ![q] = "denied"] /\ UNCHANGED <<seen, steady>>
      BY <2>1 DEF Get
    <3>2. /\ shown'[q] = s /\ s # 0 /\ before'[q] = retired /\ ~steady[q]
      BY <2>1, <3>1 DEF Get, TypeOK, SecretInv
    <3>3. CASE req' = [req EXCEPT ![q] = "compare"]
      <4>1. req'[q] = "compare" /\ seen'[q] = token /\ (steady'[q] => Good(token, s))
        BY <3>1, <3>3 DEF TypeOK
      <4> QED BY <3>2, <4>1 DEF SecretInv
    <3>4. CASE req' = [req EXCEPT ![q] = "denied"] /\ UNCHANGED <<seen, steady>>
      <4>1. req'[q] = "denied" /\ ~steady'[q] BY <3>2, <3>4 DEF TypeOK
      <4> QED BY <4>1
    <3> QED BY <3>1, <3>3, <3>4
  <2>2. CASE Compare(q)
    <3>1. /\ req[q] = "compare" /\ UNCHANGED <<shown, seen, before, steady>>
          /\ req'[q] = IF Good(seen[q], shown[q]) THEN "touch" ELSE "denied"
      BY <2>2 DEF Compare, TypeOK
    <3>2. CASE Good(seen[q], shown[q])
      <4>1. seen[q].hash = shown[q] BY <3>2 DEF Good
      <4> QED BY <3>1, <3>2, <4>1 DEF SecretInv
    <3>3. CASE ~Good(seen[q], shown[q]) BY <3>1, <3>3 DEF SecretInv
    <3> QED BY <3>2, <3>3
  <2>3. CASE Touch(q)
    <3>1. /\ req[q] = "touch" /\ UNCHANGED <<shown, seen, before, steady>>
          /\ req'[q] = "accepted"
      BY <2>3 DEF Touch, TypeOK
    <3> QED BY <3>1 DEF SecretInv
  <2>4. CASE Answered(q)
    <3>1. req'[q] = "idle" /\ ~steady'[q] BY <2>4 DEF Answered, TypeOK
    <3> QED BY <3>1
  <2> QED BY <2>1, <2>2, <2>3, <2>4
<1>3. \A r \in Requests \ {q} : Good(seen[r], shown[r])' <=> Good(seen[r], shown[r])
  BY <1>0, <1>1 DEF Good
<1>4. Good(seen[q], shown[q])' <=> Good(seen'[q], shown'[q])
  BY <1>0 DEF Good
<1> QED BY <1>0, <1>1, <1>2, <1>3, <1>4 DEF SecretInv

\* An expiry makes every request unsteady whose record expires as it was read.
LEMMA ExpireSecrets ==
    ASSUME TypeOK, SecretInv, Expire
    PROVE  SecretInv'
<1>1. /\ UNCHANGED <<token, secrets, retired, req, shown, seen, before>>
      /\ \A q \in Requests : steady'[q] => steady[q] /\ ~seen[q].expires
  BY DEF Expire
<1>2. \A q \in Requests : steady'[q] /\ req[q] = "compare" => Good(seen[q], shown[q])'
  BY <1>1 DEF SecretInv, Good
<1> QED BY <1>1, <1>2 DEF SecretInv

\* The invariant behind the two theorems that follow.
THEOREM SecretInvariant == Spec => []SecretInv
<1>1. Init => SecretInv
  BY DEF Init, SecretInv, Absent
<1>2. TypeOK /\ SecretInv /\ [Next]_vars => SecretInv'
  <2> SUFFICES ASSUME TypeOK, SecretInv, [Next]_vars PROVE SecretInv' OBVIOUS
  <2>1. CASE UNCHANGED <<store, request>>
    BY <2>1 DEF store, request, SecretInv, Good
  <2>2. CASE \E o \in Tabs : Add(o) \/ GetOwned(o) \/ Rotate(o) \/ Edit(o) \/ Remove(o) \/ Fail(o)
    BY <2>2, TokenSecrets
  <2>3. CASE \E q \in Requests : Get(q) \/ Compare(q) \/ Touch(q) \/ Answered(q)
    BY <2>3, RequestSecrets
  <2>4. CASE Expire BY <2>4, ExpireSecrets
  <2>5. CASE AuditAnnounced \/ (LiveNext /\ UNCHANGED <<store, tab, request>>) \/ UNCHANGED vars
    BY <2>1, <2>5 DEF AuditAnnounced, vars
  <2> QED BY <2>2, <2>3, <2>4, <2>5 DEF Next
<1> QED BY <1>1, <1>2, TypesKept, PTL DEF Spec

\* For any number of operations and requests in flight: a secret that was retired
\* when a request began never lets that request in.
THEOREM RetiredSecretsRefused == Spec => []RetiredStaysRetired
<1>1. SecretInv => RetiredStaysRetired BY DEF SecretInv, RetiredStaysRetired
<1> QED BY <1>1, SecretInvariant, PTL

\* And a secret that stays good is never refused.
THEOREM GoodSecretsAccepted == Spec => []GoodSecretAccepted
<1>1. SecretInv => GoodSecretAccepted BY DEF SecretInv, GoodSecretAccepted
<1> QED BY <1>1, SecretInvariant, PTL

(***************************************************************************)
(* The feed and the socket                                                 *)
(***************************************************************************)

\* A history row an open socket could have heard of says, through the gate and with
\* the rights of that socket, just what the socket was told -- whatever the rights
\* are of the page's requests by now.
FeedInv ==
    \A u \in Users :
        /\ socket[u] = "off" => attended[u] = {}
        /\ socket[u] # "off" =>
              \A r \in writing \cup rows :
                  r.n \in attended[u] => (r.n \in heard[u] <=> VisibleTo(u, socket[u], r))

\* Who has more rights may read more.
LEMMA MoreRightsMore ==
    ASSUME NEW u, NEW some, NEW more, AtMost(some, more), NEW row, VisibleTo(u, some, row)
    PROVE  VisibleTo(u, more, row)
BY DEF AtMost, VisibleTo, CanRead

\* The row made of an event passes the gate for those whom the event passes it.
LEMMA SameGate ==
    ASSUME NEW u \in Users, NEW has, NEW model, NEW data,
           \/ data = None
           \/ model = "AuditEvent"
           \/ data = [created_by |-> Owner, uid |-> None]
    PROVE  CanRead(u, has, model, data) <=>
              CanRead(u, has, model, [created_by |-> OwnerOf(data), uid |-> OwnerOf(data)])
<1>1. CASE model = "AuditEvent" BY <1>1 DEF CanRead
<1>2. CASE data = None BY <1>2, NoneAssumption DEF CanRead, OwnerOf
<1>3. CASE data = [created_by |-> Owner, uid |-> None]
  <2>1. data \in Bodies /\ data # None
    BY <1>3, NoneAssumption, OwnerAssumption DEF Bodies
  <2>2. OwnerOf(data) = Owner
    BY <1>3, <2>1, NoneAssumption, OwnerAssumption DEF OwnerOf
  <2>3. [created_by |-> Owner, uid |-> Owner] # None
    <3>1. [created_by |-> Owner, uid |-> Owner] \in Bodies BY OwnerAssumption DEF Bodies
    <3> QED BY <3>1, NoneAssumption
  <2> QED BY <1>3, <2>1, <2>2, <2>3 DEF CanRead
<1> QED BY <1>1, <1>2, <1>3

\* A socket is told of an event exactly if its row will pass the gate.
LEMMA PublishFeed ==
    ASSUME LiveTypeOK, FeedInv, NEW model, NEW data, Publish(model, data),
           \/ data = None
           \/ model = "AuditEvent"
           \/ data = [created_by |-> Owner, uid |-> None]
    PROVE  FeedInv'
<1> DEFINE n == events + 1
           row == [n |-> n, model |-> model, owner |-> OwnerOf(data)]
<1>1. /\ UNCHANGED <<socket, rows>> /\ writing' = writing \cup {row}
      /\ n \notin 1 .. events
      /\ \A u \in Users : socket[u] = "off" => attended'[u] = attended[u]
      /\ \A u \in Users : socket[u] # "off" =>
            /\ attended'[u] = attended[u] \cup {n}
            /\ heard'[u] = IF CanRead(u, socket[u], model, data)
                           THEN heard[u] \cup {n} ELSE heard[u]
  BY DEF Publish, LiveTypeOK
<1> SUFFICES ASSUME NEW u \in Users, socket[u] # "off", NEW r \in writing' \cup rows'
             PROVE  r.n \in attended'[u] => (r.n \in heard'[u] <=> VisibleTo(u, socket[u], r))
  BY <1>1 DEF FeedInv, VisibleTo, CanRead
<1>2. heard[u] \subseteq 1 .. events /\ attended[u] \subseteq 1 .. events BY DEF LiveTypeOK
<1>3. CASE r \in writing \cup rows
  <2>1. r.n \in 1 .. events BY <1>3 DEF LiveTypeOK
  <2>2. r.n # n BY <1>1, <2>1
  <2> QED BY <1>1, <1>3, <2>2 DEF FeedInv
<1>4. CASE r = row
  <2>1. VisibleTo(u, socket[u], r) <=>
           CanRead(u, socket[u], model, [created_by |-> OwnerOf(data), uid |-> OwnerOf(data)])
    BY <1>4 DEF VisibleTo
  <2>2. VisibleTo(u, socket[u], r) <=> CanRead(u, socket[u], model, data) BY <2>1, SameGate
  <2>3. r.n = n BY <1>4
  <2> QED BY <1>1, <1>2, <2>2, <2>3
<1> QED BY <1>1, <1>3, <1>4

\* An event that is not announced changes nothing here.
LEMMA AnnounceFeed ==
    ASSUME LiveTypeOK, FeedInv, NEW model, NEW data, Announce(model, data),
           \/ data = None
           \/ model = "AuditEvent"
           \/ data = [created_by |-> Owner, uid |-> None]
    PROVE  FeedInv'
<1>1. CASE Publish(model, data) BY <1>1, PublishFeed
<1>2. CASE UNCHANGED live BY <1>2 DEF live, FeedInv, VisibleTo, CanRead
<1> QED BY <1>1, <1>2 DEF Announce

\* A login leaves the sockets alone, a socket that opens has missed everything, and
\* a row that is lost is no row.
LEMMA LiveFeed ==
    ASSUME LiveTypeOK, FeedInv, LiveNext
    PROVE  FeedInv'
<1>1. CASE RowSettled
  <2>1. /\ UNCHANGED <<socket, heard, attended>>
        /\ writing' \cup rows' \subseteq writing \cup rows
    BY <1>1 DEF RowSettled
  <2> QED BY <2>1 DEF FeedInv, VisibleTo, CanRead
<1>2. ASSUME NEW u \in Users, LogIn(u) PROVE FeedInv'
  BY <1>2 DEF LogIn, FeedInv, VisibleTo, CanRead
<1>3. ASSUME NEW u \in Users, LoadPage(u) \/ Disconnect(u) PROVE FeedInv'
  <2>1. /\ UNCHANGED <<writing, rows>> /\ socket'[u] = "off" /\ attended'[u] = {}
        /\ \A v \in Users \ {u} : /\ socket'[v] = socket[v]
                                  /\ heard'[v] = heard[v] /\ attended'[v] = attended[v]
    BY <1>3 DEF LoadPage, Disconnect, Closed, LiveTypeOK
  <2> QED BY <2>1 DEF FeedInv, VisibleTo, CanRead
<1>4. ASSUME NEW u \in Users, Connect(u) PROVE FeedInv'
  <2>1. /\ UNCHANGED <<writing, rows, heard, attended>>
        /\ attended[u] = {} /\ socket'[u] # "off"
        /\ \A v \in Users \ {u} : socket'[v] = socket[v]
    BY <1>4 DEF Connect, FeedInv, LiveTypeOK, Rights
  <2> QED BY <2>1 DEF FeedInv, VisibleTo, CanRead
<1> QED BY <1>1, <1>2, <1>3, <1>4 DEF LiveNext

\* Live delivery and history stay one decision, whatever logins, lost rows and
\* reconnections come in between.
THEOREM FeedInvariant == Spec => []FeedInv
<1>1. Init => FeedInv BY DEF Init, LiveInit, FeedInv
<1>2. TypeOK /\ FeedInv /\ [Next]_vars => FeedInv'
  <2> SUFFICES ASSUME TypeOK, FeedInv, [Next]_vars PROVE FeedInv' OBVIOUS
  <2>0. LiveTypeOK BY DEF TypeOK
  <2>1. CASE UNCHANGED live BY <2>1 DEF live, FeedInv, VisibleTo, CanRead
  <2>2. ASSUME NEW o \in Tabs, Add(o) \/ Remove(o) PROVE FeedInv'
    BY <2>0, <2>2, AnnounceFeed DEF Add, Remove
  <2>3. CASE AuditAnnounced BY <2>0, <2>3, PublishFeed DEF AuditAnnounced
  <2>4. CASE LiveNext BY <2>0, <2>4, LiveFeed
  <2>5. CASE \/ \E o \in Tabs : GetOwned(o) \/ Rotate(o) \/ Edit(o) \/ Fail(o)
             \/ \E q \in Requests : Get(q) \/ Compare(q) \/ Touch(q) \/ Answered(q)
             \/ Expire \/ UNCHANGED vars
    <3>1. UNCHANGED live
      BY <2>5 DEF GetOwned, Rotate, Edit, Fail, Get, Compare, Touch, Answered, Expire, vars
    <3> QED BY <2>1, <3>1
  <2> QED BY <2>2, <2>3, <2>4, <2>5 DEF Next
<1> QED BY <1>1, <1>2, TypesKept, PTL DEF Spec

\* For any users, events and losses, any logins a page may outlive, and any length of
\* the feed: asked for with the rights of the socket the feed shows, of what was
\* published while that was open, what it was sent; with fewer, no more; with more,
\* no less.
THEOREM FeedAgrees == Spec => []FeedAgreesWithSocket
<1>1. TypeOK /\ FeedInv => FeedAgreesWithSocket
  <2> SUFFICES ASSUME TypeOK, FeedInv,
                      NEW u \in Users, socket[u] # "off", NEW has \in RequestRights(u)
               PROVE  /\ AtMost(has, socket[u]) =>
                            Feed(u, has) \cap attended[u] \subseteq heard[u]
                      /\ AtMost(socket[u], has) =>
                            heard[u] \cap {r.n : r \in Recent} \subseteq Feed(u, has)
    BY DEF FeedAgreesWithSocket
  <2>1. \A r \in Recent :
            r.n \in attended[u] => (r.n \in heard[u] <=> VisibleTo(u, socket[u], r))
    BY DEF Recent, FeedInv
  <2>2. heard[u] \subseteq attended[u] BY DEF TypeOK, LiveTypeOK
  <2>3. ASSUME AtMost(has, socket[u])
        PROVE  Feed(u, has) \cap attended[u] \subseteq heard[u]
    <3>1. \A r : VisibleTo(u, has, r) => VisibleTo(u, socket[u], r)
      BY <2>3, MoreRightsMore
    <3> QED BY <2>1, <3>1 DEF Feed
  <2>4. ASSUME AtMost(socket[u], has)
        PROVE  heard[u] \cap {r.n : r \in Recent} \subseteq Feed(u, has)
    <3>1. \A r : VisibleTo(u, socket[u], r) => VisibleTo(u, has, r)
      BY <2>4, MoreRightsMore
    <3> QED BY <2>1, <2>2, <3>1 DEF Feed
  <2> QED BY <2>3, <2>4
<1> QED BY <1>1, TypesKept, FeedInvariant, PTL

=============================================================================
