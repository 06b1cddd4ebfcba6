------------------------------- MODULE Login -------------------------------
(***************************************************************************)
(* From an accepted TCP connection to the list of hosts a session chooses  *)
(* from: handleAuth of services/ssh_server.js with the username grammar,   *)
(* and accessibleHosts of utils/access.js with its cache per user.         *)
(*                                                                         *)
(* All attempts of a connection write one `state` object.  ssh2 hands the  *)
(* server one attempt at a time and takes the next when the last has been  *)
(* accepted or rejected.  Time is counted in ticks; every time is kept as  *)
(* an age, so the clock needs no bound, and an entry of age Ttl, which no  *)
(* lookup uses, is dropped from the model.                                 *)
(***************************************************************************)
EXTENDS Integers, Grammar

CONSTANTS
    Conns,         \* inbound connections
    Users,         \* well-formed uids; LDAP may have an account or not
    PasswordAuth,  \* conf.ssh.passwordAuth
    Local,         \* connections from a loopback or private address
    Ttl,           \* CACHE_TTL_MS
    MaxLatency     \* the longest the directory takes to answer

ASSUME ModesAssumption == PasswordAuth \in {"all", "local", "off"}
ASSUME NoneIsNoUser == None \notin Users
ASSUME TimesAssumption == Ttl \in Nat \ {0} /\ MaxLatency \in Nat

VARIABLES
    stage,   \* what a connection's handler waits for
    ctx,     \* the attempt at hand, the accepted one in the end
    state,   \* what the attempts have written
    waited,  \* how long a connection has waited for its hosts
    age,     \* how old the list is that is on its way or in hand
    cache    \* by user: how long ago a list was stored, and its age

vars == <<stage, ctx, state, waited, age, cache>>

\* parseUsername's results: without a target the picker is meant.
Names == [uid : Users, target : Targets \cup {None}]
Invalid == [uid |-> None, target |-> None]

\* A probe asks whether a key would do, without a signature.
Methods == {"probe", "publickey", "password"}

NoAttempt == [name |-> Invalid, method |-> "none"]
NoState == [name |-> Invalid, user |-> None, method |-> None]
NoHosts == [since |-> None, age |-> 0]

Init ==
    /\ stage = [c \in Conns |-> "attempt"]
    /\ ctx = [c \in Conns |-> NoAttempt]
    /\ state = [c \in Conns |-> NoState]
    /\ waited = [c \in Conns |-> 0]
    /\ age = [c \in Conns |-> 0]
    /\ cache = [u \in Users |-> NoHosts]

To(c, next) == stage' = [stage EXCEPT ![c] = next]

(***************************************************************************)
(* handleAuth                                                              *)
(***************************************************************************)

\* The client tries a name and a method.  (A name that does not parse is
\* rejected at once and leaves the state alone.)
Attempt(c) ==
    /\ stage[c] = "attempt"
    /\ \E n \in Names, m \in Methods :
          /\ ctx' = [ctx EXCEPT ![c] = [name |-> n, method |-> m]]
          /\ state' = [state EXCEPT ![c].name = n]
    /\ To(c, "user")
    /\ UNCHANGED <<waited, age, cache>>

Reject(c) == To(c, "attempt") /\ ctx' = [ctx EXCEPT ![c] = NoAttempt]

\* ctx.accept() of an attempt that proves something ends the authentication.
Accept(c) == To(c, "ready") /\ UNCHANGED ctx

PasswordAllowed(c) ==
    PasswordAuth = "all" \/ (PasswordAuth = "local" /\ c \in Local)

\* Mutant: a connection looks its user up once.
UserFoundOnce(c) ==
    LET user == IF state[c].user = None THEN ctx[c].name.uid ELSE state[c].user IN
    /\ stage[c] = "user"
    /\ \/ /\ ctx[c].method = "publickey"
          /\ state' = [state EXCEPT ![c].user = user, ![c].method = "publickey"]
          /\ Accept(c)
       \/ /\ ctx[c].method = "password" /\ PasswordAllowed(c)
          /\ state' = [state EXCEPT ![c].user = user]
          /\ To(c, "password") /\ UNCHANGED ctx
       \/ state' = [state EXCEPT ![c].user = user] /\ Reject(c)
    /\ UNCHANGED <<waited, age, cache>>

\* getUser has the account: the key is compared with the user's own keys and
\* its signature verified, or the password is sent to LDAP.
UserFound(c) ==
    /\ stage[c] = "user"
    /\ LET user == ctx[c].name.uid IN
       \/ /\ ctx[c].method = "publickey"
          /\ state' = [state EXCEPT ![c].user = user, ![c].method = "publickey"]
          /\ Accept(c)
       \/ \* A probe with one of the user's keys: accepted, and nothing proved.
          /\ ctx[c].method = "probe"
          /\ state' = [state EXCEPT ![c].user = user, ![c].method = "publickey"]
          /\ Reject(c)
       \/ /\ ctx[c].method = "password" /\ PasswordAllowed(c)
          /\ state' = [state EXCEPT ![c].user = user]
          /\ To(c, "password") /\ UNCHANGED ctx
       \/ \* No such key, a bad signature, no passwords from there, no method.
          /\ ctx[c].method = "password" => ~PasswordAllowed(c)
          /\ state' = [state EXCEPT ![c].user = user] /\ Reject(c)
    /\ UNCHANGED <<waited, age, cache>>

\* getUser has none, or fails.
UserNotFound(c) ==
    /\ stage[c] = "user"
    /\ Reject(c)
    /\ UNCHANGED <<state, waited, age, cache>>

\* checkPassword: yes, or no and failures alike.
PasswordChecked(c) ==
    /\ stage[c] = "password"
    /\ \/ state' = [state EXCEPT ![c].method = "password"] /\ Accept(c)
       \/ Reject(c) /\ UNCHANGED state
    /\ UNCHANGED <<waited, age, cache>>

(***************************************************************************)
(* accessibleHosts                                                         *)
(***************************************************************************)

\* Mutant: an entry is good for another Ttl each time it is used.
LookUpSliding(c) ==
    LET u == state[c].user IN
    /\ stage[c] = "ready"
    /\ \/ /\ cache[u].since # None
          /\ age' = [age EXCEPT ![c] = cache[u].age]
          /\ cache' = [cache EXCEPT ![u].since = 0]
          /\ To(c, "hosts")
       \/ /\ cache[u].since = None
          /\ To(c, "asking") /\ UNCHANGED <<age, cache>>
    /\ UNCHANGED <<ctx, state, waited>>

\* The cached list while it has been stored for less than Ttl, or a request.
LookUp(c) ==
    LET u == state[c].user IN
    /\ stage[c] = "ready"
    /\ \/ /\ cache[u].since # None
          /\ age' = [age EXCEPT ![c] = cache[u].age]
          /\ To(c, "hosts")
       \/ /\ cache[u].since = None
          /\ To(c, "asking") /\ UNCHANGED age
    /\ UNCHANGED <<ctx, state, waited, cache>>

\* The directory makes the list; the answer is on its way.
Answer(c) ==
    /\ stage[c] = "asking"
    /\ To(c, "answered")
    /\ UNCHANGED <<ctx, state, waited, age, cache>>

\* The request fails: nothing is cached, and what was cached has expired.
LookUpFails(c) ==
    /\ stage[c] = "asking"
    /\ To(c, "unreachable")
    /\ UNCHANGED <<ctx, state, waited, age, cache>>

\* The answer arrives, is stored with the time of now and handed over, even if
\* a younger one has been stored meanwhile.
Store(c) ==
    /\ stage[c] = "answered"
    /\ cache' = [cache EXCEPT ![state[c].user] = [since |-> 0, age |-> age[c]]]
    /\ To(c, "hosts")
    /\ UNCHANGED <<ctx, state, waited, age>>

\* The session is over and the client connects again.
Leave(c) ==
    /\ stage[c] \in {"hosts", "unreachable"}
    /\ To(c, "attempt")
    /\ ctx' = [ctx EXCEPT ![c] = NoAttempt]
    /\ state' = [state EXCEPT ![c] = NoState]
    /\ waited' = [waited EXCEPT ![c] = 0]
    /\ age' = [age EXCEPT ![c] = 0]
    /\ UNCHANGED cache

\* Time passes, but no request stays unanswered for longer than MaxLatency.
Tick ==
    LET waiting == {c \in Conns : stage[c] \in {"asking", "answered"}}
    IN  /\ \A c \in waiting : waited[c] < MaxLatency
        /\ waited' = [c \in Conns |-> waited[c] + (IF c \in waiting THEN 1 ELSE 0)]
        /\ age' = [c \in Conns |-> age[c] + (IF stage[c] = "answered" THEN 1 ELSE 0)]
        /\ cache' = [u \in Users |->
              IF cache[u].since = None \/ cache[u].since + 1 >= Ttl THEN NoHosts
              ELSE [since |-> cache[u].since + 1, age |-> cache[u].age + 1]]
        /\ UNCHANGED <<stage, ctx, state>>

Next ==
    \/ \E c \in Conns :
          \/ Attempt(c) \/ UserFound(c) \/ UserNotFound(c) \/ PasswordChecked(c)
          \/ LookUp(c) \/ Answer(c) \/ LookUpFails(c) \/ Store(c) \/ Leave(c)
    \/ Tick

Spec == Init /\ [][Next]_vars

(***************************************************************************)
(* Properties                                                              *)
(***************************************************************************)

Stages == {"attempt", "user", "password", "ready", "asking", "answered", "hosts", "unreachable"}

\* An entry in the cache is younger than Ttl and no request outlives MaxLatency.
TypeOK ==
    /\ stage \in [Conns -> Stages]
    /\ ctx \in [Conns -> [name : Names \cup {Invalid}, method : Methods \cup {"none"}]]
    /\ state \in [Conns -> [name : Names \cup {Invalid}, user : Users \cup {None},
                            method : {None, "publickey", "password"}]]
    /\ waited \in [Conns -> 0 .. MaxLatency]
    /\ age \in [Conns -> Nat]
    /\ cache \in [Users -> [since : {None} \cup (0 .. Ttl - 1), age : Nat]]

Authenticated(c) == stage[c] \notin {"attempt", "user", "password"}

\* Whatever names, keys and passwords were tried before, and whatever those
\* attempts left in the state, a session belongs to the account that proved
\* itself, goes to the target of that same username, and is recorded with the
\* method that proved it.
AuthenticatedAs ==
    \A c \in Conns : Authenticated(c) =>
        /\ ctx[c].method \in {"publickey", "password"}
        /\ state[c] = [name |-> ctx[c].name, user |-> ctx[c].name.uid, method |-> ctx[c].method]

\* A list handed to a session was made by the directory less than Ttl plus one
\* answer ago -- not just less than Ttl: it is stored with the time at which it
\* arrived, and two crossing answers may leave the older one in the cache.
NotTooStale == \A c \in Conns : age[c] < Ttl + MaxLatency

=============================================================================
