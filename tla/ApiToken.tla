------------------------------ MODULE ApiToken ------------------------------
(***************************************************************************)
(* A personal access token's life: models/api_token.js with the owner's    *)
(* routes (routes/api_token.js) and the requests that authenticate with it *)
(* (middleware/auth.js), composed with the live events it announces.       *)
(*                                                                         *)
(* The record is a Redis hash; an update writes only the fields it is      *)
(* given.  Every read of it is a snapshot used after a bcrypt operation,   *)
(* so that rotations, edits, removals and requests interleave.  Secrets    *)
(* are numbered in the order in which they were made.                      *)
(***************************************************************************)
EXTENDS LiveEvents

CONSTANTS
    Owner,      \* the account the token belongs to
    Tabs,       \* the owner's operations in flight
    Requests,   \* API requests that carry the token
    MaxSecrets  \* bound: secrets ever made

ASSUME OwnerAssumption == Owner \in Users
ASSUME SecretsAssumption == MaxSecrets \in Nat \ {0}

VARIABLES
    token,    \* the hash in Redis; a field that is not there is None or 0
    secrets,  \* secrets made so far
    retired,  \* secrets that have been replaced or removed
    late,     \* whether a token that expires has expired
    tab,      \* each operation: where it stands
    req,      \* each request: where it stands
    shown,    \* the secret a request presents
    seen,     \* the record it read
    before,   \* the secrets retired when it began
    steady    \* whether its secret has been good ever since

store   == <<token, secrets, retired, late>>
request == <<req, shown, seen, before, steady>>
vars    == <<live, store, tab, request>>

Absent == [created_by |-> None, hash |-> 0, valid |-> FALSE, expires |-> FALSE]

Init ==
    /\ LiveInit
    /\ token = Absent /\ secrets = 0 /\ retired = {} /\ late = FALSE
    /\ tab = [o \in Tabs |-> "idle"]
    /\ req = [q \in Requests |-> "idle"]
    /\ shown = [q \in Requests |-> 0]
    /\ seen = [q \in Requests |-> Absent]
    /\ before = [q \in Requests |-> {}]
    /\ steady = [q \in Requests |-> FALSE]

\* What authenticate asks of a record, given a secret.
Good(record, secret) ==
    record.hash = secret /\ record.valid /\ ~(record.expires /\ late)

\* A request whose secret stops being good is no longer steady.
Watch == steady' = [q \in Requests |-> steady[q] /\ Good(token', shown[q])]

TabTo(o, next) == tab' = [tab EXCEPT ![o] = next]

(***************************************************************************)
(* The owner                                                               *)
(***************************************************************************)

\* withEvents: a write that took effect is announced once it has resolved, and
\* is not if it fails all the same.
Announce(model, data) == Publish(model, data) \/ UNCHANGED live

\* POST /: add() hashes a first secret and creates the record.
Add(o) ==
    /\ tab[o] = "idle" /\ secrets = 0 /\ events < MaxEvents
    /\ secrets' = 1
    /\ \E e \in BOOLEAN :
          token' = [created_by |-> Owner, hash |-> 1, valid |-> TRUE, expires |-> e]
    /\ Announce("ApiToken", [created_by |-> Owner, uid |-> None])
    /\ UNCHANGED <<retired, late, tab, request>>

\* getOwned: a missing record, and one without an owner, are refused.
GetOwned(o) ==
    /\ tab[o] = "idle" /\ token.created_by = Owner
    /\ \E next \in {"rotate", "edit", "remove"} :
          /\ next = "rotate" => secrets < MaxSecrets
          /\ TabTo(o, next)
    /\ UNCHANGED <<live, store, request>>

\* rotate(): the new hash is written, whatever has become of the record; the
\* answer with the new secret may still fail.
Rotate(o) ==
    /\ tab[o] = "rotate" /\ secrets < MaxSecrets
    /\ secrets' = secrets + 1
    /\ token' = [token EXCEPT !.hash = secrets + 1]
    /\ retired' = retired \cup {token.hash}
    /\ TabTo(o, "idle") /\ Watch
    /\ UNCHANGED <<live, late, req, shown, seen, before>>

\* PUT /:id with another expiry.
Edit(o) ==
    /\ tab[o] = "edit"
    /\ \E e \in BOOLEAN : token' = [token EXCEPT !.expires = e]
    /\ TabTo(o, "idle") /\ Watch
    /\ UNCHANGED <<live, secrets, retired, late, req, shown, seen, before>>

\* DELETE /:id: the record goes and its removal is announced without a body.
Remove(o) ==
    /\ tab[o] = "remove" /\ events < MaxEvents
    /\ token' = Absent
    /\ retired' = retired \cup 1 .. secrets
    /\ Announce("ApiToken", None)
    /\ TabTo(o, "idle") /\ Watch
    /\ UNCHANGED <<secrets, late, req, shown, seen, before>>

\* The operation fails and nothing has changed: the route answers an error.
Fail(o) ==
    /\ tab[o] # "idle"
    /\ TabTo(o, "idle")
    /\ UNCHANGED <<live, store, request>>

(***************************************************************************)
(* Requests                                                                *)
(***************************************************************************)

\* authenticate's get: the record, or a generic refusal, also when Redis does
\* not answer.
Get(q) ==
    /\ req[q] = "idle" /\ secrets > 0
    /\ \E s \in 1 .. secrets :
          /\ shown' = [shown EXCEPT ![q] = s]
          /\ \/ /\ token # Absent
                /\ seen' = [seen EXCEPT ![q] = token]
                /\ steady' = [steady EXCEPT ![q] = Good(token, s)]
                /\ req' = [req EXCEPT ![q] = "compare"]
             \/ req' = [req EXCEPT ![q] = "denied"] /\ UNCHANGED <<seen, steady>>
    /\ before' = [before EXCEPT ![q] = retired]
    /\ UNCHANGED <<live, store, tab>>

\* bcrypt.compare against the snapshot, then validity and expiry.
Compare(q) ==
    /\ req[q] = "compare"
    /\ req' = [req EXCEPT ![q] = IF Good(seen[q], shown[q]) THEN "touch" ELSE "denied"]
    /\ UNCHANGED <<live, store, tab, shown, seen, before, steady>>

\* Mutant: the record is saved as it was read, with the new stamp.
TouchSaves(q) ==
    /\ req[q] = "touch"
    /\ req' = [req EXCEPT ![q] = "accepted"]
    /\ token' = seen[q]
    /\ Watch
    /\ UNCHANGED <<live, secrets, retired, late, tab, shown, seen, before>>

\* Mutant: a stamp that cannot be written refuses the request.
TouchMatters(q) ==
    /\ req[q] = "touch"
    /\ \E next \in {"accepted", "denied"} : req' = [req EXCEPT ![q] = next]
    /\ UNCHANGED <<live, store, tab, shown, seen, before, steady>>

\* last_used_on is stamped, or cannot be: the request goes on either way.
Touch(q) ==
    /\ req[q] = "touch"
    /\ req' = [req EXCEPT ![q] = "accepted"]
    /\ UNCHANGED <<live, store, tab, shown, seen, before, steady>>

\* The answer is out and another request may come.
Answered(q) ==
    /\ req[q] \in {"accepted", "denied"}
    /\ req' = [req EXCEPT ![q] = "idle"]
    /\ shown' = [shown EXCEPT ![q] = 0]
    /\ seen' = [seen EXCEPT ![q] = Absent]
    /\ before' = [before EXCEPT ![q] = {}]
    /\ steady' = [steady EXCEPT ![q] = FALSE]
    /\ UNCHANGED <<live, store, tab>>

\* expires_at passes: that of the record, and that of every record read.
Expire ==
    /\ ~late /\ late' = TRUE
    /\ steady' = [q \in Requests |-> steady[q] /\ ~token.expires /\ ~seen[q].expires]
    /\ UNCHANGED <<live, token, secrets, retired, tab, req, shown, seen, before>>

\* A session of some user is audited (models/audit_event.js).
AuditAnnounced ==
    /\ events < MaxEvents
    /\ \E u \in Users : Publish("AuditEvent", [created_by |-> None, uid |-> u])
    /\ UNCHANGED <<store, tab, request>>

Next ==
    \/ \E o \in Tabs : Add(o) \/ GetOwned(o) \/ Rotate(o) \/ Edit(o) \/ Remove(o) \/ Fail(o)
    \/ \E q \in Requests : Get(q) \/ Compare(q) \/ Touch(q) \/ Answered(q)
    \/ Expire \/ AuditAnnounced
    \/ LiveNext /\ UNCHANGED <<store, tab, request>>

Spec == Init /\ [][Next]_vars

(***************************************************************************)
(* Properties                                                              *)
(***************************************************************************)

Records == [created_by : {Owner, None}, hash : 0 .. MaxSecrets, valid : BOOLEAN, expires : BOOLEAN]

TypeOK ==
    /\ LiveTypeOK
    /\ token \in Records /\ secrets \in 0 .. MaxSecrets /\ late \in BOOLEAN
    /\ retired \subseteq 0 .. MaxSecrets
    /\ tab \in [Tabs -> {"idle", "rotate", "edit", "remove"}]
    /\ req \in [Requests -> {"idle", "compare", "touch", "accepted", "denied"}]
    /\ shown \in [Requests -> 0 .. MaxSecrets]
    /\ seen \in [Requests -> Records]
    /\ before \in [Requests -> SUBSET (0 .. MaxSecrets)]
    /\ steady \in [Requests -> BOOLEAN]

\* A secret that had been replaced by a rotation or removed with its token when
\* a request began never lets that request in -- whatever other requests, which
\* read the record before, were doing to it meanwhile.
RetiredStaysRetired == \A q \in Requests : req[q] = "accepted" => shown[q] \notin before[q]

\* A request whose secret stays good from its first read on, and whose record
\* does not expire as it was read, is let in: edits, rotations under way, other
\* requests' stamps, and a stamp that fails, cannot turn it away.
GoodSecretAccepted == \A q \in Requests : req[q] = "denied" => ~steady[q]

=============================================================================
