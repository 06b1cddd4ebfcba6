-------------------------- MODULE FrontDoor_proofs --------------------------
(***************************************************************************)
(* A session from its first attempt to its host, in the three modules it   *)
(* runs through, whose variables are disjoint:                             *)
(*   Login      it belongs to the account that proved itself, and chooses  *)
(*              from hosts that are not older than the cache allows;       *)
(*   KeyInject  it is not dialed without the gateway's key;                *)
(*   Targeting  it goes to the host that was named or highlighted.         *)
(***************************************************************************)
EXTENDS Login, KeyInject, Targeting, FiniteSetTheorems, TLAPS

Contexts == [name : Names \cup {Invalid}, method : Methods \cup {"none"}]
States == [name : Names \cup {Invalid}, user : Users \cup {None},
           method : {None, "publickey", "password"}]
Entries == [since : {None} \cup (0 .. Ttl - 1), age : Nat]

\* What an attempt has written by the time it can be accepted: its own name
\* first, then its own account, whatever the attempts before it left there.
AttemptInv ==
    \A c \in Conns :
        /\ stage[c] \in {"user", "password"} =>
              /\ ctx[c].name \in Names /\ ctx[c].method \in Methods
              /\ state[c].name = ctx[c].name
        /\ stage[c] = "password" =>
              ctx[c].method = "password" /\ state[c].user = ctx[c].name.uid
        /\ Authenticated(c) => ctx[c].name \in Names

\* A list was stored at most MaxLatency after it was made, and is on its way for
\* no longer than its request.
AgeInv ==
    /\ \A u \in Users : cache[u].since # None => cache[u].age <= cache[u].since + MaxLatency
    /\ \A c \in Conns :
          /\ stage[c] = "answered" => age[c] <= waited[c]
          /\ stage[c] = "hosts" => age[c] < Ttl + MaxLatency
          /\ stage[c] \notin {"answered", "hosts"} => age[c] = 0

IInv == TypeOK /\ AttemptInv /\ AuthenticatedAs /\ AgeInv

\* The operations of the authentication touch neither ages nor lists.
LEMMA HandlerKeepsAges ==
    ASSUME IInv, NEW c \in Conns,
           stage[c] \in {"attempt", "user", "password"},
           \E next \in {"attempt", "user", "password", "ready"} : To(c, next),
           UNCHANGED <<waited, age, cache>>
    PROVE  AgeInv'
BY DEF IInv, TypeOK, AgeInv, To

LEMMA AttemptKeeps ==
    ASSUME IInv, NEW c \in Conns, Attempt(c)
    PROVE  IInv'
<1>1. PICK n \in Names, m \in Methods :
          /\ ctx' = [ctx EXCEPT ![c] = [name |-> n, method |-> m]]
          /\ state' = [state EXCEPT ![c].name = n]
  BY DEF Attempt
<1>2. stage[c] = "attempt" /\ stage' = [stage EXCEPT ![c] = "user"] /\ UNCHANGED <<waited, age, cache>>
  BY DEF Attempt, To
<1> USE DEF IInv, TypeOK
<1>3. TypeOK'
  <2>1. ctx' \in [Conns -> Contexts] BY <1>1 DEF Contexts
  <2>2. state' \in [Conns -> States] BY <1>1 DEF States
  <2> QED BY <1>2, <2>1, <2>2 DEF Stages, Contexts, States
<1>4. AttemptInv' BY <1>1, <1>2 DEF AttemptInv, Authenticated
<1>5. AuthenticatedAs' BY <1>1, <1>2 DEF AuthenticatedAs, Authenticated
<1>6. AgeInv' BY <1>2, HandlerKeepsAges DEF To
<1> QED BY <1>3, <1>4, <1>5, <1>6

LEMMA UserFoundKeeps ==
    ASSUME IInv, NEW c \in Conns, UserFound(c)
    PROVE  IInv'
<1> DEFINE user == ctx[c].name.uid
<1>0. /\ stage[c] = "user" /\ UNCHANGED <<waited, age, cache>>
      /\ ctx[c].name \in Names /\ user \in Users /\ state[c].name = ctx[c].name
  BY DEF UserFound, IInv, AttemptInv, Names
<1> USE DEF IInv, TypeOK, To
<1>a. /\ [state EXCEPT ![c].user = user] \in [Conns -> States]
      /\ [state EXCEPT ![c].user = user, ![c].method = "publickey"] \in [Conns -> States]
  <2>1. ASSUME NEW s \in States
        PROVE  /\ [s EXCEPT !.user = user] \in States
               /\ [s EXCEPT !.user = user, !.method = "publickey"] \in States
    BY <1>0 DEF States
  <2>2. state \in [Conns -> States] BY DEF States
  <2> QED BY <2>1, <2>2
<1>1. CASE /\ ctx[c].method = "publickey"
           /\ state' = [state EXCEPT ![c].user = user, ![c].method = "publickey"]
           /\ Accept(c)
  <2> USE <1>0, <1>1 DEF Accept
  <2>0. state' \in [Conns -> States] BY <1>a
  <2>1. TypeOK' BY <2>0 DEF Stages, States
  <2>2. state'[c] = [name |-> ctx[c].name, user |-> user, method |-> "publickey"]
    OBVIOUS
  <2>3. AttemptInv' BY DEF AttemptInv, Authenticated
  <2>4. AuthenticatedAs' BY <2>2 DEF AuthenticatedAs, Authenticated
  <2>5. AgeInv' BY HandlerKeepsAges
  <2> QED BY <2>1, <2>3, <2>4, <2>5
<1>2. CASE /\ ctx[c].method = "password"
           /\ state' = [state EXCEPT ![c].user = user]
           /\ To(c, "password") /\ UNCHANGED ctx
  <2> USE <1>0, <1>2
  <2>1. TypeOK' BY DEF Stages
  <2>2. AttemptInv' BY DEF AttemptInv, Authenticated
  <2>3. AuthenticatedAs' BY DEF AuthenticatedAs, Authenticated
  <2>4. AgeInv' BY HandlerKeepsAges
  <2> QED BY <2>1, <2>2, <2>3, <2>4
<1>3. CASE /\ \/ state' = [state EXCEPT ![c].user = user]
              \/ state' = [state EXCEPT ![c].user = user, ![c].method = "publickey"]
           /\ Reject(c)
  <2> USE <1>0, <1>3 DEF Reject, NoAttempt
  <2>0. state' \in [Conns -> States] BY <1>a
  <2>1. TypeOK' BY <2>0 DEF Stages, States
  <2>2. AttemptInv' BY DEF AttemptInv, Authenticated
  <2>3. AuthenticatedAs' BY DEF AuthenticatedAs, Authenticated
  <2>4. AgeInv' BY HandlerKeepsAges
  <2> QED BY <2>1, <2>2, <2>3, <2>4
<1> QED BY <1>1, <1>2, <1>3, Zenon DEF UserFound

LEMMA OtherAttemptStepsKeep ==
    ASSUME IInv, NEW c \in Conns, UserNotFound(c) \/ PasswordChecked(c)
    PROVE  IInv'
<1> USE DEF IInv, TypeOK, To
<1>1. stage[c] \in {"user", "password"} /\ UNCHANGED <<waited, age, cache>>
  BY DEF UserNotFound, PasswordChecked
<1>2. CASE Reject(c) /\ UNCHANGED state
  <2> USE <1>1, <1>2 DEF Reject, NoAttempt
  <2>1. TypeOK' BY DEF Stages
  <2>2. AttemptInv' BY DEF AttemptInv, Authenticated
  <2>3. AuthenticatedAs' BY DEF AuthenticatedAs, Authenticated
  <2>4. AgeInv' BY HandlerKeepsAges
  <2> QED BY <2>1, <2>2, <2>3, <2>4
<1>3. CASE stage[c] = "password" /\ state' = [state EXCEPT ![c].method = "password"] /\ Accept(c)
  <2> USE <1>1, <1>3 DEF Accept
  <2>1. TypeOK' BY DEF Stages
  <2>2. state'[c] = [name |-> ctx[c].name, user |-> ctx[c].name.uid, method |-> "password"]
    BY DEF AttemptInv
  <2>3. AttemptInv' BY DEF AttemptInv, Authenticated
  <2>4. AuthenticatedAs' BY <2>2 DEF AuthenticatedAs, Authenticated, AttemptInv
  <2>5. AgeInv' BY HandlerKeepsAges
  <2> QED BY <2>1, <2>3, <2>4, <2>5
<1> QED BY <1>2, <1>3 DEF UserNotFound, PasswordChecked

\* From the accepted attempt on nothing is written to the state any more.
LEMMA LookingUpKeepsNames ==
    ASSUME IInv, NEW c \in Conns, Authenticated(c), UNCHANGED <<ctx, state>>,
           \E next \in {"asking", "answered", "hosts", "unreachable"} : To(c, next)
    PROVE  AttemptInv' /\ AuthenticatedAs'
BY DEF IInv, TypeOK, AttemptInv, AuthenticatedAs, Authenticated, To

LEMMA LookUpKeeps ==
    ASSUME IInv, NEW c \in Conns, LookUp(c) \/ Answer(c) \/ LookUpFails(c) \/ Store(c)
    PROVE  IInv'
<1> DEFINE u == state[c].user
<1>1. Authenticated(c) /\ UNCHANGED <<ctx, state, waited>>
  BY DEF LookUp, Answer, LookUpFails, Store, Authenticated
<1>2. u \in Users
  <2>1. u = ctx[c].name.uid
    <3>1. state[c] = [name |-> ctx[c].name, user |-> ctx[c].name.uid, method |-> ctx[c].method]
      BY <1>1, Zenon DEF IInv, AuthenticatedAs
    <3> QED BY <3>1
  <2>2. ctx[c].name \in Names BY <1>1 DEF IInv, AttemptInv
  <2> QED BY <2>1, <2>2 DEF Names
<1>3. AttemptInv' /\ AuthenticatedAs'
  BY <1>1, LookingUpKeepsNames DEF LookUp, Answer, LookUpFails, Store
<1> USE TimesAssumption DEF IInv, TypeOK, AgeInv, To
<1>4. CASE LookUp(c)
  <2>1. CASE cache[u].since # None /\ age' = [age EXCEPT ![c] = cache[u].age] /\ To(c, "hosts")
    <3>1. cache[u].since \in 0 .. Ttl - 1 /\ cache[u].age \in Nat /\ UNCHANGED cache
      BY <1>2, <1>4, <2>1 DEF LookUp
    <3>2. cache[u].age < Ttl + MaxLatency BY <1>2, <2>1, <3>1
    <3> QED BY <1>1, <1>3, <2>1, <3>1, <3>2 DEF Stages
  <2>2. CASE To(c, "asking") /\ UNCHANGED age
    <3>1. stage[c] = "ready" /\ UNCHANGED cache BY <1>4 DEF LookUp
    <3> QED BY <1>1, <1>3, <2>2, <3>1 DEF Stages
  <2> QED BY <1>4, <2>1, <2>2, Zenon DEF LookUp
<1>5. CASE Answer(c) \/ LookUpFails(c)
  <2>1. /\ stage[c] = "asking" /\ UNCHANGED <<age, cache>>
        /\ To(c, "answered") \/ To(c, "unreachable")
    BY <1>5 DEF Answer, LookUpFails
  <2>2. age[c] = 0 /\ waited[c] \in 0 .. MaxLatency BY <2>1
  <2>3. TypeOK' BY <1>1, <2>1 DEF Stages
  <2>4. AgeInv' BY <1>1, <2>1, <2>2
  <2> QED BY <1>3, <2>3, <2>4
<1>6. CASE Store(c)
  <2>1. /\ stage[c] = "answered" /\ stage' = [stage EXCEPT ![c] = "hosts"] /\ UNCHANGED age
        /\ cache' = [cache EXCEPT ![u] = [since |-> 0, age |-> age[c]]]
    BY <1>6 DEF Store
  <2>2. age[c] \in Nat /\ age[c] <= MaxLatency BY <2>1
  <2>3. cache' \in [Users -> Entries] BY <1>2, <2>1, <2>2 DEF Entries
  <2>4. \A w \in Users : cache'[w].since # None => cache'[w].age <= cache'[w].since + MaxLatency
    BY <1>2, <2>1, <2>2
  <2> QED BY <1>1, <1>3, <2>1, <2>2, <2>3, <2>4 DEF Stages, Entries
<1> QED BY <1>4, <1>5, <1>6

LEMMA LeaveKeeps ==
    ASSUME IInv, NEW c \in Conns, Leave(c)
    PROVE  IInv'
<1> USE TimesAssumption DEF Leave, To, IInv, TypeOK, NoAttempt, NoState
<1>1. TypeOK' BY DEF Stages
<1>2. AttemptInv' BY DEF AttemptInv, Authenticated
<1>3. AuthenticatedAs' BY DEF AuthenticatedAs, Authenticated
<1>4. AgeInv' BY DEF AgeInv
<1> QED BY <1>1, <1>2, <1>3, <1>4

\* An entry and the list it holds grow old together; a list on its way ages with
\* its request.
LEMMA TickKeeps == ASSUME IInv, Tick PROVE IInv'
<1> DEFINE waiting == {c \in Conns : stage[c] \in {"asking", "answered"}}
<1>1. /\ \A c \in waiting : waited[c] < MaxLatency
      /\ waited' = [c \in Conns |-> waited[c] + (IF c \in waiting THEN 1 ELSE 0)]
      /\ age' = [c \in Conns |-> age[c] + (IF stage[c] = "answered" THEN 1 ELSE 0)]
      /\ cache' = [u \in Users |->
              IF cache[u].since = None \/ cache[u].since + 1 >= Ttl THEN NoHosts
              ELSE [since |-> cache[u].since + 1, age |-> cache[u].age + 1]]
      /\ UNCHANGED <<stage, ctx, state>>
  BY DEF Tick
<1> USE TimesAssumption DEF IInv, TypeOK
<1>2. waited' \in [Conns -> 0 .. MaxLatency] BY <1>1
<1>3. age' \in [Conns -> Nat] BY <1>1
<1>4. ASSUME NEW u \in Users
      PROVE  /\ cache'[u] \in Entries
             /\ cache'[u].since # None => cache'[u].age <= cache'[u].since + MaxLatency
  <2>1. cache[u].since \in {None} \cup (0 .. Ttl - 1) /\ cache[u].age \in Nat OBVIOUS
  <2>2. CASE cache[u].since = None \/ cache[u].since + 1 >= Ttl
    BY <1>1, <2>2 DEF NoHosts, Entries
  <2>3. CASE ~(cache[u].since = None \/ cache[u].since + 1 >= Ttl)
    <3>1. cache'[u] = [since |-> cache[u].since + 1, age |-> cache[u].age + 1]
      BY <1>1, <2>3
    <3> QED BY <2>1, <2>3, <3>1 DEF AgeInv, Entries
  <2> QED BY <2>2, <2>3
<1>5. TypeOK' BY <1>1, <1>2, <1>3, <1>4 DEF Entries
<1>6. AttemptInv' /\ AuthenticatedAs' BY <1>1 DEF AttemptInv, AuthenticatedAs, Authenticated
<1>7. ASSUME NEW c \in Conns
      PROVE  /\ stage[c] = "answered" => age'[c] <= waited'[c]
             /\ stage[c] = "hosts" => age'[c] < Ttl + MaxLatency
             /\ stage[c] \notin {"answered", "hosts"} => age'[c] = 0
  <2>1. age[c] \in Nat /\ waited[c] \in Nat OBVIOUS
  <2>2. CASE stage[c] = "answered"
    <3>1. age'[c] = age[c] + 1 /\ waited'[c] = waited[c] + 1 BY <1>1, <2>2
    <3> QED BY <2>1, <2>2, <3>1 DEF AgeInv
  <2>3. CASE stage[c] # "answered"
    <3>1. age'[c] = age[c] BY <1>1, <2>1, <2>3
    <3> QED BY <2>3, <3>1 DEF AgeInv
  <2> QED BY <2>2, <2>3
<1>8. AgeInv' BY <1>1, <1>4, <1>7 DEF AgeInv
<1> QED BY <1>5, <1>6, <1>8

\* The invariant the theorems rest on: what each attempt has written so far, and
\* how the age of a list is bounded by the time of its entry and of its request.
THEOREM LoginInvariant == Spec => []IInv
<1>1. Init => IInv
  <2> SUFFICES ASSUME Init PROVE IInv OBVIOUS
  <2> USE TimesAssumption DEF Init, NoAttempt, NoState, NoHosts
  <2>1. TypeOK BY DEF TypeOK, Stages
  <2>2. AttemptInv /\ AuthenticatedAs BY DEF AttemptInv, AuthenticatedAs, Authenticated
  <2>3. AgeInv BY DEF AgeInv
  <2> QED BY <2>1, <2>2, <2>3 DEF IInv
<1>2. IInv /\ [Next]_vars => IInv'
  <2> SUFFICES ASSUME IInv, [Next]_vars PROVE IInv' OBVIOUS
  <2>1. CASE UNCHANGED vars
    BY <2>1 DEF vars, IInv, TypeOK, AttemptInv, AuthenticatedAs, Authenticated, AgeInv
  <2>2. CASE Next
    BY <2>2, AttemptKeeps, UserFoundKeeps, OtherAttemptStepsKeep, LookUpKeeps, LeaveKeeps, TickKeeps
    DEF Next
  <2> QED BY <2>1, <2>2
<1> QED BY <1>1, <1>2, PTL DEF Spec

\* Every variable keeps its type: no request waits longer than MaxLatency, and
\* no entry is used that has been stored for Ttl.
THEOREM TypesKept == Spec => []TypeOK
BY LoginInvariant, PTL DEF IInv

\* Attempts overwrite each other's fields in one state object, and still the
\* session that follows is wholly that of the attempt that was accepted.
THEOREM SessionIsWhoeverProved == Spec => []AuthenticatedAs
BY LoginInvariant, PTL DEF IInv

\* The list of hosts a session is given was made less than Ttl and one answer
\* ago, for any Ttl and any latency, however lookups of one user cross.
THEOREM ListsAreYoung == Spec => []NotTooStale
<1>1. IInv => NotTooStale
  <2> SUFFICES ASSUME IInv, NEW c \in Conns PROVE age[c] < Ttl + MaxLatency
    BY DEF NotTooStale
  <2> USE TimesAssumption DEF IInv, TypeOK, AgeInv
  <2>1. waited[c] <= MaxLatency /\ waited[c] \in Nat /\ age[c] \in Nat OBVIOUS
  <2>2. CASE stage[c] = "answered"
    <3>1. age[c] <= waited[c] BY <2>2
    <3> QED BY <2>1, <3>1
  <2>3. CASE stage[c] # "answered" BY <2>3
  <2> QED BY <2>2, <2>3
<1> QED BY <1>1, LoginInvariant, PTL

(***************************************************************************)
(* The key on the way to a host                                            *)
(*                                                                         *)
(* What a connection that was accepted goes through next, module KeyInject,*)
(* over variables of its own.                                              *)
(***************************************************************************)

\* The places where the key is known to be in LDAP.
Injected == {"flagging", "dialing", "clearing", "pause", "in"}

\* InjectedBeforeDialed with what it rests on: the snapshots are true, and so is
\* the handler that is about to set the flag.
KeyInv ==
    removals = 0 =>
        /\ flag => ldap
        /\ \A c \in Logins : /\ knows[c] => ldap
                             /\ pc[c] \in Injected => ldap

KeyIInv == InjectTypeOK /\ KeyInv

\* A connection's own steps, after which the other connections stand as before.
LEMMA KeyStepKeeps ==
    ASSUME KeyIInv, NEW c \in Logins, Authenticate(c) \/ Step(c)
    PROVE  KeyIInv'
<1> USE DEF KeyIInv, InjectTypeOK, KeyInv, Injected, PCs, Goto
<1>1. CASE Authenticate(c) BY <1>1 DEF Authenticate
<1>2. CASE CheckFlag(c) BY <1>2 DEF CheckFlag
<1>3. CASE AddKey(c)
  <2>1. /\ pc' = [pc EXCEPT ![c] = "flagging"]
        /\ UNCHANGED <<knows, retry, flag, served, removals>>
        /\ ldap' = TRUE \/ (removals > 0 /\ ldap' = ldap)
    BY <1>3, Zenon DEF AddKey
  <2>2. CASE ldap' = TRUE BY <2>1, <2>2
  <2>3. CASE removals > 0 /\ ldap' = ldap
    <3>1. removals' # 0 BY <2>1, <2>3
    <3> QED BY <2>1, <2>3, <3>1
  <2> QED BY <2>1, <2>2, <2>3
<1>4. CASE SetFlag(c) BY <1>4 DEF SetFlag
<1>5. CASE InjectFails(c)
  <2>0. /\ pc' = [pc EXCEPT ![c] = "failed"]
        /\ UNCHANGED <<knows, retry, served, removals>>
        /\ pc[c] = "asking" \/ pc[c] = "adding" \/ pc[c] = "flagging"
    BY <1>5, Zenon DEF InjectFails
  <2>1. CASE pc[c] = "asking" BY <1>5, <2>1 DEF InjectFails
  <2>2. CASE pc[c] = "adding"
    <3>1. flag' = flag /\ (ldap' = ldap \/ ldap' = TRUE)
      BY <1>5, <2>2, Zenon DEF InjectFails
    <3>2. CASE ldap' = ldap BY <2>0, <3>1, <3>2
    <3>3. CASE ldap' = TRUE BY <2>0, <3>1, <3>3
    <3> QED BY <3>1, <3>2, <3>3
  <2>3. CASE pc[c] = "flagging"
    <3>1. ldap' = ldap /\ (flag' = flag \/ flag' = TRUE)
      BY <1>5, <2>3, Zenon DEF InjectFails
    <3>2. removals = 0 => ldap BY <2>3
    <3>3. CASE flag' = flag BY <2>0, <3>1, <3>3
    <3>4. CASE flag' = TRUE BY <2>0, <3>1, <3>2, <3>4
    <3> QED BY <3>1, <3>3, <3>4
  <2> QED BY <2>0, <2>1, <2>2, <2>3
<1>6. CASE Dial(c) BY <1>6 DEF Dial
<1>7. CASE ClearFlag(c) BY <1>7 DEF ClearFlag
<1>8. CASE Redial(c) BY <1>8 DEF Redial
<1> QED BY <1>1, <1>2, <1>3, <1>4, <1>5, <1>6, <1>7, <1>8 DEF Step

\* The host and the directory, which touch no connection.
LEMMA KeyWorldKeeps ==
    ASSUME KeyIInv, RefreshCache \/ RemoveKey
    PROVE  KeyIInv'
<1> USE DEF KeyIInv, InjectTypeOK, KeyInv
<1>1. CASE RefreshCache BY <1>1 DEF RefreshCache
<1>2. CASE RemoveKey
  <2>1. removals' \in 1 .. MaxRemovals /\ ldap' = FALSE
    BY <1>2, MaxRemovalsAssumption DEF RemoveKey
  <2>2. UNCHANGED <<pc, knows, retry, flag, served>>
    BY <1>2, Zenon DEF RemoveKey
  <2>3. removals' # 0 /\ removals' \in 0 .. MaxRemovals
    BY <2>1, MaxRemovalsAssumption
  <2>4. ldap' \in BOOLEAN
    BY <2>1, Zenon
  <2>5. InjectTypeOK' BY <2>2, <2>3, <2>4
  <2> QED BY <2>3, <2>5
<1> QED BY <1>1, <1>2

\* The invariant behind the next theorem: snapshots, flag and handlers on their
\* way to the host all tell the truth until somebody removes the key.
THEOREM KeyInvariant == InjectSpec => []KeyIInv
<1>1. InjectInit => KeyIInv
  <2> SUFFICES ASSUME InjectInit PROVE KeyIInv OBVIOUS
  <2>1. /\ pc = [c \in Logins |-> "idle"] /\ knows = [c \in Logins |-> FALSE]
        /\ retry = [c \in Logins |-> FALSE] /\ removals = 0
        /\ flag = FALSE /\ ldap \in BOOLEAN /\ served = ldap
    BY Zenon DEF InjectInit
  <2>2. flag \in BOOLEAN /\ ldap \in BOOLEAN /\ served \in BOOLEAN
    BY <2>1, Zenon
  <2>3. InjectTypeOK BY <2>1, <2>2, MaxRemovalsAssumption DEF InjectTypeOK, PCs
  <2>4. KeyInv BY <2>1 DEF KeyInv, Injected
  <2> QED BY <2>3, <2>4 DEF KeyIInv
<1>2. KeyIInv /\ [InjectNext]_injectVars => KeyIInv'
  <2> SUFFICES ASSUME KeyIInv, [InjectNext]_injectVars PROVE KeyIInv' OBVIOUS
  <2>1. CASE UNCHANGED injectVars BY <2>1 DEF KeyIInv, InjectTypeOK, KeyInv, injectVars
  <2>2. CASE InjectNext BY <2>2, KeyStepKeeps, KeyWorldKeeps DEF InjectNext
  <2> QED BY <2>1, <2>2
<1> QED BY <1>1, <1>2, PTL DEF InjectSpec

\* InjectTypeOK is part of the invariant, for any connections and any number of removals.
THEOREM KeyTypesKept == InjectSpec => []InjectTypeOK
BY KeyInvariant, PTL DEF KeyIInv

\* With nobody removing the key, a raised flag and every dialed connection
\* imply that LDAP has it, for any number of concurrent first connections.
THEOREM DialedAreInjected == InjectSpec => []InjectedBeforeDialed
<1>1. KeyIInv => InjectedBeforeDialed
  BY DEF KeyIInv, KeyInv, Injected, InjectedBeforeDialed
<1> QED BY <1>1, KeyInvariant, PTL

(***************************************************************************)
(* Lists                                                                   *)
(***************************************************************************)

\* The induction of this module: a set of naturals that is not empty has a least
\* element.
LEMMA Minimum ==
    ASSUME NEW S \in SUBSET Nat, S # {}
    PROVE  \E m \in S : \A e \in S : m <= e
<1>1. PICK m \in S : \A e \in S : <<e, m>> \notin OpToRel(<, Nat)
  BY NatLessThanWellFounded, WFMin, Zenon
<1>2. \A e \in S : ~(e < m) BY <1>1 DEF OpToRel
<1> QED BY <1>2

\* Filter keeps a sequence, of elements that passed.  Its recursive function is
\* defined by CHOOSE: step <1>3 builds one for every prefix (the shortest prefix
\* without one would be one longer than a prefix that has one), <1>8 types it.
LEMMA FilterType ==
    ASSUME NEW R, NEW list \in Seq(R), NEW S
    PROVE  Filter(list, S) \in Seq(R \cap S)
<1> DEFINE N == Len(list)
           Longer(l, n) == IF list[n] \in S THEN Append(l, list[n]) ELSE l
           Solves(f, m) == /\ f \in [0 .. m -> Seq(R \cap S)] /\ f[0] = <<>>
                           /\ \A n \in 1 .. m : f[n] = Longer(f[n - 1], n)
           Body(f) == [n \in 0 .. N |-> IF n = 0 THEN <<>>
                                        ELSE IF list[n] \in S THEN Append(f[n - 1], list[n])
                                                              ELSE f[n - 1]]
<1>1. N \in Nat /\ \A n \in 1 .. N : list[n] \in R OBVIOUS
<1>2. ASSUME NEW n \in 1 .. N, NEW l \in Seq(R \cap S) PROVE Longer(l, n) \in Seq(R \cap S)
  BY <1>1
<1>3. \A m \in 0 .. N : \E f : Solves(f, m)
  <2> DEFINE Bad == {m \in 0 .. N : ~\E f : Solves(f, m)}
  <2> SUFFICES ASSUME Bad # {} PROVE FALSE OBVIOUS
  <2>1. PICK m \in Bad : \A k \in Bad : m <= k
    <3>1. Bad \in SUBSET Nat BY <1>1
    <3> HIDE DEF Bad
    <3> QED BY <3>1, Minimum
  <2>2. /\ m \in 0 .. N /\ ~\E f : Solves(f, m)
        /\ m - 1 \in 0 .. N => \E f : Solves(f, m - 1)
    <3>1. m \in 0 .. N /\ ~\E f : Solves(f, m) OBVIOUS
    <3>2. ASSUME m - 1 \in 0 .. N PROVE \E f : Solves(f, m - 1)
      <4>1. m - 1 \notin Bad
        <5>1. ~(m <= m - 1) BY <1>1, <3>1
        <5> HIDE DEF Bad
        <5> QED BY <2>1, <5>1
      <4> HIDE DEF Solves
      <4> QED BY <3>2, <4>1
    <3> QED BY <3>1, <3>2
  <2>3. CASE m = 0
    <3> DEFINE g == [n \in 0 .. 0 |-> <<>>]
    <3>1. Solves(g, 0) OBVIOUS
    <3> QED BY <2>2, <2>3, <3>1
  <2>4. CASE m # 0
    <3>1. m - 1 \in 0 .. N /\ m \in 1 .. N BY <1>1, <2>2, <2>4
    <3>2. PICK f : Solves(f, m - 1) BY <2>2, <3>1
    <3> DEFINE l == Longer(f[m - 1], m)
               g == [n \in 0 .. m |-> IF n = m THEN l ELSE f[n]]
    <3>3. f[m - 1] \in Seq(R \cap S) BY <3>1, <3>2
    <3>4. l \in Seq(R \cap S) BY <1>2, <3>1, <3>3
    <3> HIDE DEF Longer, l
    <3>5. \A n \in 0 .. m : n = m \/ n \in 0 .. m - 1 BY <3>1
    <3>6. g \in [0 .. m -> Seq(R \cap S)] BY <3>2, <3>4, <3>5
    <3>7. g[0] = <<>> BY <3>1, <3>2
    <3>8. ASSUME NEW n \in 1 .. m PROVE g[n] = Longer(g[n - 1], n)
      <4>1. CASE n = m
        <5>1. g[n] = l /\ g[n - 1] = f[n - 1] BY <3>1, <4>1
        <5> QED BY <4>1, <5>1 DEF l
      <4>2. CASE n # m
        <5>1. n \in 1 .. m - 1 /\ g[n] = f[n] /\ g[n - 1] = f[n - 1] BY <3>1, <4>2
        <5> QED BY <3>2, <5>1
      <4> QED BY <4>1, <4>2
    <3>9. Solves(g, m) BY <3>6, <3>7, <3>8
    <3> QED BY <2>2, <3>9
  <2> QED BY <2>3, <2>4
<1>4. PICK f : Solves(f, N)
  <2>1. N \in 0 .. N BY <1>1
  <2> HIDE DEF Solves
  <2> QED BY <1>3, <2>1
<1>5. f = Body(f)
  <2>1. f = [n \in 0 .. N |-> f[n]] BY <1>4
  <2>2. \A n \in 0 .. N : f[n] = Body(f)[n]
    <3> SUFFICES ASSUME NEW n \in 0 .. N PROVE f[n] = Body(f)[n] OBVIOUS
    <3>1. CASE n = 0 BY <1>4, <3>1
    <3>2. CASE n # 0
      <4>1. n \in 1 .. N BY <1>1, <3>2
      <4> QED BY <1>4, <3>2, <4>1
    <3> QED BY <3>1, <3>2
  <2> QED BY <2>1, <2>2
<1> DEFINE kept == CHOOSE g : g = Body(g)
<1>6. kept = Body(kept) BY <1>5
<1>7. Filter(list, S) = kept[N] BY DEF Filter
<1>8. \A n \in 0 .. N : kept[n] \in Seq(R \cap S)
  <2> DEFINE Bad == {n \in 0 .. N : kept[n] \notin Seq(R \cap S)}
  <2> HIDE DEF kept
  <2> SUFFICES ASSUME Bad # {} PROVE FALSE OBVIOUS
  <2>1. PICK m \in Bad : \A k \in Bad : m <= k
    <3>1. Bad \in SUBSET Nat BY <1>1
    <3> HIDE DEF Bad
    <3> QED BY <3>1, Minimum
  <2>2. m \in 0 .. N /\ kept[m] \notin Seq(R \cap S) /\ m - 1 \notin Bad
    <3>1. ~(m <= m - 1) BY <1>1, <2>1
    <3> QED BY <2>1, <3>1
  <2>3. CASE m = 0 BY <1>6, <2>2, <2>3
  <2>4. CASE m # 0
    <3>1. m - 1 \in 0 .. N /\ m \in 1 .. N BY <1>1, <2>2, <2>4
    <3>2. kept[m] = Longer(kept[m - 1], m) BY <1>6, <2>2, <2>4
    <3> HIDE DEF Longer
    <3> QED BY <1>2, <2>2, <3>1, <3>2
  <2> QED BY <2>3, <2>4
<1> QED BY <1>1, <1>7, <1>8

(***************************************************************************)
(* Which host a target names                                               *)
(***************************************************************************)

LEMMA FirstIn ==
    ASSUME NEW I \in SUBSET Nat, I # {}
    PROVE  Min(I) \in I /\ \A i \in I : Min(I) <= i
BY Minimum DEF Min

\* The positions of a list that a rule fits.
Where(rule, t, list) == {i \in 1 .. Len(list) : Fits(rule, list[i], t)}

FirstOf(I) == IF I # {} THEN Min(I) ELSE 0

LEMMA FindsAre ==
    ASSUME NEW t \in Targets, NEW list \in Seq(Resources)
    PROVE  Finds(t, list) = << FirstOf(Where(1, t, list)), FirstOf(Where(2, t, list)),
                               FirstOf(Where(3, t, list)), FirstOf(Where(4, t, list)),
                               FirstOf(Where(5, t, list)) >>
<1>1. \A h : (Fits(1, h, t) <=> h.slug = t) /\ (Fits(2, h, t) <=> h.slug = Prefixed[t])
  BY DEF Fits
<1>2. \A h : (Fits(3, h, t) <=> h.name = t) /\ (Fits(4, h, t) <=> h.ip = t)
  BY DEF Fits
<1>3. \A h : Fits(5, h, t) <=> AddrHost(h) = t
  BY NoneIsNoTarget DEF Fits, AddrHost
<1>4. SelectInSeq(list, LAMBDA h : h.slug = t) = FirstOf(Where(1, t, list))
  BY <1>1 DEF SelectInSeq, FirstOf, Where
<1>5. SelectInSeq(list, LAMBDA h : h.slug = Prefixed[t]) = FirstOf(Where(2, t, list))
  BY <1>1 DEF SelectInSeq, FirstOf, Where
<1>6. SelectInSeq(list, LAMBDA h : h.name = t) = FirstOf(Where(3, t, list))
  BY <1>2 DEF SelectInSeq, FirstOf, Where
<1>7. SelectInSeq(list, LAMBDA h : h.ip = t) = FirstOf(Where(4, t, list))
  BY <1>2 DEF SelectInSeq, FirstOf, Where
<1>8. SelectInSeq(list, LAMBDA h : AddrHost(h) = t) = FirstOf(Where(5, t, list))
  <2>1. {i \in 1 .. Len(list) : AddrHost(list[i]) = t} = Where(5, t, list)
    BY <1>3, Zenon DEF Where
  <2> QED BY <2>1 DEF SelectInSeq, FirstOf
<1> QED BY <1>4, <1>5, <1>6, <1>7, <1>8 DEF Finds

\* A find is 0 where no host fits, and else the first host that does.
LEMMA FirstOfWhere ==
    ASSUME NEW t, NEW list \in Seq(Resources), NEW rule \in 1 .. 5
    PROVE  LET f == FirstOf(Where(rule, t, list)) IN
           /\ f # 0 <=> Where(rule, t, list) # {}
           /\ f # 0 => /\ f \in 1 .. Len(list) /\ Fits(rule, list[f], t)
                       /\ \A i \in 1 .. Len(list) : Fits(rule, list[i], t) => f <= i
<1>1. Where(rule, t, list) \in SUBSET Nat /\ 0 \notin Where(rule, t, list) BY DEF Where
<1>2. CASE Where(rule, t, list) = {} BY <1>2 DEF FirstOf
<1>3. CASE Where(rule, t, list) # {}
  <2> DEFINE I == Where(rule, t, list)
  <2>1. Min(I) \in I /\ \A i \in I : Min(I) <= i
    <3> HIDE DEF I
    <3> QED BY <1>1, <1>3, FirstIn DEF I
  <2>2. FirstOf(I) = Min(I) BY <1>3 DEF FirstOf
  <2> QED BY <1>1, <1>3, <2>1, <2>2 DEF Where
<1> QED BY <1>2, <1>3

\* The pairs of a rule and a position that it fits.
Fitting(t, list) == {p \in (1 .. 5) \X DOMAIN list : Fits(p[1], list[p[2]], t)}

Before(p, q) == p[1] < q[1] \/ (p[1] = q[1] /\ p[2] <= q[2])

\* matchTarget finds a host if any rule fits any, and then the best one.
LEMMA MatchIsBest ==
    ASSUME NEW t \in Targets, NEW list \in Seq(Resources)
    PROVE  IF Fitting(t, list) = {} THEN MatchTarget(t, list) = None
           ELSE \E p \in Fitting(t, list) :
                   /\ MatchTarget(t, list) = list[p[2]]
                   /\ \A q \in Fitting(t, list) : Before(p, q)
<1> DEFINE F == [k \in 1 .. 5 |-> FirstOf(Where(k, t, list))]
           K == {k \in 1 .. 5 : F[k] # 0}
           rule == IF K # {} THEN Min(K) ELSE 0
<1>1. Finds(t, list) = F BY FindsAre
<1>2. MatchTarget(t, list) = IF rule = 0 THEN None ELSE list[F[rule]]
  <2>1. Len(F) = 5 BY <1>1 DEF Finds
  <2>2. SelectInSeq(F, LAMBDA i : i # 0) = rule BY <2>1 DEF SelectInSeq
  <2> HIDE DEF F, rule
  <2> QED BY <1>1, <2>2 DEF MatchTarget
<1>3. \A k \in 1 .. 5 :
         /\ F[k] # 0 <=> Where(k, t, list) # {}
         /\ F[k] # 0 => /\ F[k] \in 1 .. Len(list) /\ Fits(k, list[F[k]], t)
                        /\ \A i \in 1 .. Len(list) : Fits(k, list[i], t) => F[k] <= i
  BY FirstOfWhere
<1>4. \A p \in Fitting(t, list) :
         p[1] \in 1 .. 5 /\ p[2] \in 1 .. Len(list) /\ Fits(p[1], list[p[2]], t)
  BY DEF Fitting
<1>5. \A p \in Fitting(t, list) : p[1] \in K /\ F[p[1]] <= p[2]
  <2> SUFFICES ASSUME NEW p \in Fitting(t, list) PROVE p[1] \in K /\ F[p[1]] <= p[2]
    OBVIOUS
  <2>1. Where(p[1], t, list) # {} BY <1>4 DEF Where
  <2> HIDE DEF F
  <2> QED BY <1>3, <1>4, <2>1
<1>6. CASE K = {}
  <2>1. rule = 0 BY <1>6
  <2>2. Fitting(t, list) = {} BY <1>5, <1>6
  <2> HIDE DEF F, K, rule
  <2> QED BY <1>2, <2>1, <2>2
<1>7. CASE K # {}
  <2>1. Min(K) \in K /\ \A k \in K : Min(K) <= k
    <3>1. K \in SUBSET Nat OBVIOUS
    <3> HIDE DEF K
    <3> QED BY <1>7, <3>1, FirstIn
  <2>2. rule = Min(K) BY <1>7
  <2>3. rule \in 1 .. 5 /\ F[rule] # 0 /\ \A k \in K : rule <= k BY <2>1, <2>2
  <2> DEFINE p == <<rule, F[rule]>>
  <2> HIDE DEF F, K, rule
  <2>4. p \in Fitting(t, list) BY <1>3, <2>3 DEF Fitting
  <2>5. MatchTarget(t, list) = list[p[2]] BY <1>2, <2>3
  <2>6. \A q \in Fitting(t, list) : Before(p, q)
    <3> SUFFICES ASSUME NEW q \in Fitting(t, list) PROVE Before(p, q) OBVIOUS
    <3>1. q[1] \in K /\ q[1] \in 1 .. 5 /\ q[2] \in Nat /\ F[q[1]] <= q[2] BY <1>4, <1>5
    <3>2. rule <= q[1] BY <2>3, <3>1
    <3>3. CASE rule = q[1] BY <3>1, <3>3 DEF Before
    <3>4. CASE rule < q[1] BY <3>4 DEF Before
    <3> QED BY <2>3, <3>1, <3>2, <3>3, <3>4
  <2> QED BY <2>4, <2>5, <2>6
<1> QED BY <1>6, <1>7

(***************************************************************************)
(* The session                                                             *)
(***************************************************************************)

Catalog == {r \in Resources : IsCatalogHost(r)}

\* What the three properties rest on: the directory's list holds catalog hosts, a
\* named target never meets the picker, and an outcome is one of the list.
TargetTypes ==
    /\ hosts \in Seq(Catalog)
    /\ target \in Targets \cup {None}
    /\ phase \in IF target = None THEN {"shell", "picking", "done"} ELSE {"match", "done"}
    /\ selected \in Int

DialedListed == dialed.host # None => dialed.host \in ToSet(hosts)

TargetInv == TargetTypes /\ DialedListed /\ EnterTakesHighlighted /\ GrammarDialsBest

LEMMA VisibleListed ==
    ASSUME TargetTypes, NEW filter
    PROVE  /\ VisibleIn(filter) \in Seq(Catalog)
           /\ \A i \in DOMAIN VisibleIn(filter) : VisibleIn(filter)[i] \in ToSet(hosts)
<1>1. hosts \in Seq(Catalog) BY DEF TargetTypes
<1>2. hosts \in Seq(ToSet(hosts)) BY <1>1 DEF ToSet
<1>3. CASE filter = <<>> BY <1>1, <1>2, <1>3 DEF VisibleIn
<1>4. CASE filter # <<>>
  <2>1. VisibleIn(filter) = Filter(hosts, Last(filter)) BY <1>4 DEF VisibleIn
  <2>2. Filter(hosts, Last(filter)) \in Seq(Catalog \cap Last(filter)) BY <1>1, FilterType
  <2>3. Filter(hosts, Last(filter)) \in Seq(ToSet(hosts) \cap Last(filter)) BY <1>2, FilterType
  <2> QED BY <2>1, <2>2, <2>3
<1> QED BY <1>3, <1>4

\* A rendering shows the list as it is and highlights the cursor, if the cursor
\* it is given is not negative while there are hosts to show.
LEMMA RenderHighlights ==
    ASSUME TargetTypes, NEW filter, NEW cursor \in Int, Render(filter, cursor),
           UNCHANGED request, VisibleIn(filter) # <<>> => cursor \in Nat
    PROVE  /\ selected' \in Int
           /\ screen'.rows = Visible'
           /\ Visible' # <<>> => selected' + 1 \in DOMAIN Visible' /\ screen'.at = selected'
<1> DEFINE rows == VisibleIn(filter)
<1>1. rows \in Seq(Catalog) BY VisibleListed
<1>2. Visible' = rows BY DEF Visible, VisibleIn, Render, request
<1>3. Len(rows) \in Nat /\ DOMAIN rows = 1 .. Len(rows) /\ (rows # <<>> => Len(rows) > 0)
  BY <1>1
<1>4. /\ selected' = IF cursor >= Len(rows)
                     THEN (IF rows = <<>> THEN 0 ELSE Len(rows) - 1) ELSE cursor
      /\ screen'.rows = rows
      /\ screen'.at = IF rows = <<>> THEN -1 ELSE selected'
  BY DEF Render
<1> HIDE DEF rows
<1> QED BY <1>2, <1>3, <1>4 DEF rows

\* The keys, which change nothing but the picker.
LEMMA KeysHighlight ==
    ASSUME TargetInv, Up \/ Down \/ Erase \/ Type
    PROVE  TargetInv'
<1>1. TargetTypes /\ EnterTakesHighlighted /\ phase = "picking" /\ target = None
  BY DEF TargetInv, TargetTypes, Up, Down, Erase, Type, Key
<1>2. UNCHANGED <<request, phase, dialed>> BY DEF Up, Down, Erase, Type, Key
<1>3. Visible \in Seq(Catalog) /\ Visible = VisibleIn(narrowed)
  BY <1>1, VisibleListed DEF Visible
<1>4. Len(Visible) \in Nat /\ DOMAIN Visible = 1 .. Len(Visible) /\ selected \in Int
  BY <1>1, <1>3 DEF TargetTypes
<1>5. Visible # <<>> => selected + 1 \in 1 .. Len(Visible)
  BY <1>1, <1>4 DEF EnterTakesHighlighted
<1>6. \E filter : \E cursor \in Int : /\ Render(filter, cursor)
                                      /\ VisibleIn(filter) # <<>> => cursor \in Nat
  <2>1. CASE Up
    <3>1. Render(narrowed, IF selected > 0 THEN selected - 1 ELSE 0) BY <2>1 DEF Up
    <3>2. (IF selected > 0 THEN selected - 1 ELSE 0) \in Nat BY <1>4
    <3> QED BY <3>1, <3>2
  <2>2. CASE Down
    <3> DEFINE last == Len(Visible) - 1
               down == IF selected + 1 < last THEN selected + 1 ELSE last
    <3>1. Render(narrowed, down) BY <2>2 DEF Down
    <3>2. down \in Int /\ (Visible # <<>> => down \in Nat) BY <1>3, <1>4, <1>5
    <3> QED BY <1>3, <3>1, <3>2
  <2>3. CASE Erase
    <3>1. Render(IF narrowed = <<>> THEN <<>> ELSE Front(narrowed), 0) BY <2>3 DEF Erase
    <3> QED BY <3>1
  <2>4. CASE Type
    <3>1. PICK left : Render(Append(narrowed, left), 0) BY <2>4 DEF Type
    <3> QED BY <3>1
  <2> QED BY <2>1, <2>2, <2>3, <2>4
<1>7. /\ selected' \in Int
      /\ EnterTakesHighlighted'
  BY <1>1, <1>2, <1>6, RenderHighlights DEF EnterTakesHighlighted
<1>8. TargetTypes' BY <1>1, <1>2, <1>7 DEF TargetTypes, request
<1>9. DialedListed' BY <1>2 DEF TargetInv, DialedListed, request
<1>10. GrammarDialsBest' BY <1>1, <1>2 DEF GrammarDialsBest, request
<1> QED BY <1>7, <1>8, <1>9, <1>10 DEF TargetInv

\* A shell begins with the cursor on the first host.
LEMMA OpenHighlights ==
    ASSUME TargetInv, OpenPicker
    PROVE  TargetInv'
<1>1. TargetTypes /\ phase = "shell" /\ target = None /\ UNCHANGED request
  BY DEF TargetInv, TargetTypes, OpenPicker
<1>2. GrammarDialsBest' BY <1>1 DEF GrammarDialsBest, request
<1>3. CASE hosts = <<>>
  <2>1. phase' = "done" /\ dialed'.host = None /\ UNCHANGED picker
    BY <1>3 DEF OpenPicker, NotYet
  <2>2. TargetTypes' BY <1>1, <2>1 DEF TargetTypes, request, picker
  <2> QED BY <1>2, <2>1, <2>2 DEF TargetInv, DialedListed, EnterTakesHighlighted
<1>4. CASE hosts # <<>>
  <2>1. phase' = "picking" /\ Render(<<>>, 0) /\ UNCHANGED dialed BY <1>4 DEF OpenPicker
  <2>2. selected' \in Int /\ EnterTakesHighlighted'
    BY <1>1, <2>1, RenderHighlights DEF EnterTakesHighlighted
  <2>3. TargetTypes' BY <1>1, <2>1, <2>2 DEF TargetTypes, request
  <2>4. DialedListed' BY <1>1, <2>1 DEF TargetInv, DialedListed, request
  <2> QED BY <1>2, <2>2, <2>3, <2>4 DEF TargetInv
<1> QED BY <1>3, <1>4

\* The picker's outcome is a host it showed, or nothing.
LEMMA PickListed ==
    ASSUME TargetInv, Enter \/ Digit \/ Quit
    PROVE  TargetInv'
<1>1. TargetTypes /\ phase = "picking" /\ target = None
  BY DEF TargetInv, TargetTypes, Enter, Digit, Quit
<1>2. phase' = "done" /\ UNCHANGED <<request, picker>>
  BY DEF Enter, Digit, Quit, Choose
<1>3. TargetTypes' BY <1>1, <1>2 DEF TargetTypes, request, picker
<1>4. GrammarDialsBest' BY <1>1, <1>2 DEF GrammarDialsBest, request
<1>5. dialed'.host = None \/ \E i \in DOMAIN Visible : dialed'.host = Visible[i]
  BY DEF Enter, Digit, Quit, Choose, NotYet
<1>6. DialedListed'
  BY <1>1, <1>2, <1>5, VisibleListed DEF DialedListed, Visible, request
<1> QED BY <1>2, <1>3, <1>4, <1>6 DEF TargetInv, EnterTakesHighlighted

LEMMA FittingIsFitting ==
    Fitting(target, hosts) =
        {p \in (1 .. 5) \X DOMAIN hosts : Fits(p[1], hosts[p[2]], target)}
BY DEF Fitting

\* A named target: what MatchIsBest says of matchTarget.
LEMMA MatchDialsBest ==
    ASSUME TargetInv, Match
    PROVE  TargetInv'
<1> DEFINE host == MatchTarget(target, hosts)
<1>1. TargetTypes /\ phase = "match" /\ target \in Targets
  BY DEF TargetInv, TargetTypes, Match
<1>2. phase' = "done" /\ UNCHANGED <<hosts, target, allowRaw, selected>>
  BY DEF Match, request, picker
<1>3. TargetTypes' BY <1>1, <1>2 DEF TargetTypes
<1>4. hosts \in Seq(Resources) /\ hosts \in Seq(Catalog)
  BY <1>1 DEF TargetTypes, Catalog
<1>5. IF Fitting(target, hosts) = {} THEN host = None
      ELSE \E p \in Fitting(target, hosts) :
              /\ host = hosts[p[2]]
              /\ \A q \in Fitting(target, hosts) : Before(p, q)
  BY <1>1, <1>4, MatchIsBest
<1>6. dialed'.host = host
  BY <1>5 DEF Match, NotYet
<1>7. Fitting(target, hosts) = {} =>
          (dialed'.reason = "dial" <=> (allowRaw /\ target \in IPs))
  BY <1>5 DEF Match, NotYet
<1>8. \A p \in Fitting(target, hosts) : p[2] \in DOMAIN hosts BY DEF Fitting
<1>9. DialedListed' BY <1>2, <1>5, <1>6, <1>8 DEF DialedListed, ToSet
<1> HIDE DEF host
<1>10. GrammarDialsBest'
  BY <1>2, <1>5, <1>6, <1>7, FittingIsFitting DEF GrammarDialsBest, Before
<1>11. EnterTakesHighlighted' BY <1>2 DEF EnterTakesHighlighted
<1> QED BY <1>3, <1>9, <1>10, <1>11 DEF TargetInv

\* For every directory, target and sequence of keys the invariant holds.
THEOREM TargetInvariant == TargetSpec => []TargetInv
<1>1. TargetInit => TargetInv
  <2> SUFFICES ASSUME TargetInit PROVE TargetInv OBVIOUS
  <2>1. PICK list \in BoundedSeq(Resources, MaxListed) : hosts = Filter(list, Catalog)
    BY DEF TargetInit, Catalog
  <2>2. list \in Seq(Resources) BY <2>1 DEF BoundedSeq, SeqOf
  <2>3. hosts \in Seq(Resources \cap Catalog) BY <2>1, <2>2, FilterType
  <2>4. Resources \cap Catalog = Catalog BY DEF Catalog
  <2>5. target \in Targets \cup {None} /\ selected \in Int /\ dialed = NotYet
        /\ phase = IF target = None THEN "shell" ELSE "match"
    BY DEF TargetInit
  <2>6. TargetTypes BY <2>3, <2>4, <2>5 DEF TargetTypes
  <2>7. phase # "picking" /\ phase # "done" /\ dialed.host = None BY <2>5 DEF NotYet
  <2> QED
    BY <2>6, <2>7 DEF TargetInv, DialedListed, EnterTakesHighlighted, GrammarDialsBest
<1>2. TargetInv /\ [TargetNext]_targetVars => TargetInv'
  <2> SUFFICES ASSUME TargetInv, [TargetNext]_targetVars PROVE TargetInv' OBVIOUS
  <2>1. CASE UNCHANGED targetVars
    BY <2>1 DEF TargetInv, TargetTypes, DialedListed, EnterTakesHighlighted,
                GrammarDialsBest, targetVars, Visible, VisibleIn
  <2>2. CASE TargetNext
    BY <2>2, MatchDialsBest, OpenHighlights, KeysHighlight, PickListed DEF TargetNext
  <2> QED BY <2>1, <2>2
<1> QED BY <1>1, <1>2, PTL DEF TargetSpec

\* Whatever keys and filters came before, what is highlighted is what Enter takes.
THEOREM HighlightedIsTaken == TargetSpec => []EnterTakesHighlighted
BY TargetInvariant, PTL DEF TargetInv

\* A named target goes to the first host of the first rule that fits any, for any
\* directory and any order of its answer.
THEOREM BestIsDialed == TargetSpec => []GrammarDialsBest
BY TargetInvariant, PTL DEF TargetInv

\* A listed host's slug, used as a target, names that host, and discovery alone
\* never puts a host into anybody's reach.
THEOREM SlugsNameHosts == TargetSpec => []SlugNamesPicked
<1>1. TargetInv => SlugNamesPicked
  <2> SUFFICES ASSUME TargetInv, dialed.host # None
               PROVE  /\ dialed.host.slug \in Targets =>
                            MatchTarget(dialed.host.slug, hosts) = dialed.host
                      /\ \/ dialed.host.managed = "yes"
                         \/ dialed.host.managed = "unset" /\ dialed.host.sources # {"scan"}
    BY DEF SlugNamesPicked
  <2> DEFINE h == dialed.host
  <2>1. PICK i \in DOMAIN hosts : h = hosts[i] BY DEF TargetInv, DialedListed, ToSet
  <2>2. hosts \in Seq(Catalog) /\ hosts \in Seq(Resources)
    BY DEF TargetInv, TargetTypes, Catalog
  <2>3. h \in Resources /\ IsCatalogHost(h) BY <2>1, <2>2 DEF Catalog
  <2>4. h.managed \in {"yes", "no", "unset"} BY <2>3, FieldsAssumption
  <2>5. h.managed = "yes" \/ (h.managed = "unset" /\ h.sources # {"scan"})
    BY <2>3, <2>4 DEF IsCatalogHost
  <2>6. ASSUME h.slug \in Targets PROVE MatchTarget(h.slug, hosts) = h
    <3> DEFINE t == h.slug
               q == <<1, i>>
    <3>1. q \in Fitting(t, hosts) BY <2>1 DEF Fitting, Fits
    <3>2. PICK p \in Fitting(t, hosts) :
             MatchTarget(t, hosts) = hosts[p[2]] /\ Before(p, q)
      BY <2>2, <2>6, <3>1, MatchIsBest
    <3>3. p[1] \in 1 .. 5 /\ p[2] \in DOMAIN hosts /\ Fits(p[1], hosts[p[2]], t)
      BY DEF Fitting
    <3>4. p[1] = 1 BY <3>2, <3>3 DEF Before
    <3>5. hosts[p[2]].slug = t BY <3>3, <3>4 DEF Fits
    <3>6. hosts[p[2]] \in Resources BY <2>2, <3>3
    <3> QED BY <2>3, <3>2, <3>5, <3>6, SlugsAssumption
  <2> QED BY <2>5, <2>6
<1> QED BY <1>1, TargetInvariant, PTL

=============================================================================
