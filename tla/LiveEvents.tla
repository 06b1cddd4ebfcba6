----------------------------- MODULE LiveEvents -----------------------------
(***************************************************************************)
(* How a change reaches browsers: utils/model_events.js onto the bus,      *)
(* utils/socket_pubsub.js to each open socket through the model's read     *)
(* gate, models/activity_event.js into the history, and routes/activity.js *)
(* back out of it through the same gate.                                   *)
(*                                                                         *)
(* A session token carries the groups of the login that made it.  All tabs *)
(* of a browser share the latest one and a request carries it, but the     *)
(* socket of a page is opened, and opened again, with the token that was   *)
(* the latest when the page was loaded.  The bus is synchronous; the       *)
(* history row is written behind its back and may be lost.                 *)
(***************************************************************************)
EXTENDS Integers, FiniteSets

CONSTANTS
    Users,      \* accounts of the web interface
    None,       \* no owner, no body
    FeedLimit,  \* FEED_LIMIT of routes/activity.js
    MaxEvents   \* bound: events ever published

Bodies == [created_by : Users \cup {None}, uid : Users \cup {None}]

ASSUME NoneAssumption == None \notin Users \cup Bodies
ASSUME EventBounds == FeedLimit \in Nat /\ MaxEvents \in Nat

VARIABLES
    rights,    \* by user: what the groups in the latest session token make of them
    page,      \* by user: the same of the token their page was loaded with
    socket,    \* by user: the rights its socket was opened with, or "off"
    events,    \* what has been published, in order
    heard,     \* by user: the events this socket was sent
    attended,  \* by user: the events published while this socket was open
    writing,   \* history rows on their way to Redis
    rows       \* history rows in Redis

live == <<rights, page, socket, events, heard, attended, writing, rows>>

Rights == {"user", "jumpadmin"}

LiveInit ==
    /\ rights \in [Users -> Rights] /\ page = rights
    /\ socket = [u \in Users |-> "off"]
    /\ events = 0
    /\ heard = [u \in Users |-> {}]
    /\ attended = [u \in Users |-> {}]
    /\ writing = {}
    /\ rows = {}

\* READERS: a token's events are for its owner alone, audit events for jump
\* administrators.
CanRead(u, has, model, record) ==
    \/ model = "ApiToken" /\ record # None /\ record.created_by = u
    \/ model = "AuditEvent" /\ has = "jumpadmin"

\* Mutant: the owner is taken from the fields that name the actor.
OwnerOfActor(data) == IF data = None THEN None ELSE data.uid

\* pick(data, OWNER_FIELDS).
OwnerOf(data) ==
    IF data = None THEN None
    ELSE IF data.created_by # None THEN data.created_by ELSE data.uid

\* emit, liveBus.publish and the socket fan-out: one synchronous call.  A
\* record that was deleted has no body.
Publish(model, data) ==
    LET n == events + 1
        open == {u \in Users : socket[u] # "off"}
        told == {u \in open : CanRead(u, socket[u], model, data)}
    IN  /\ events' = n
        /\ heard' = [u \in Users |-> IF u \in told THEN heard[u] \cup {n} ELSE heard[u]]
        /\ attended' = [u \in Users |-> IF u \in open THEN attended[u] \cup {n} ELSE attended[u]]
        /\ writing' = writing \cup {[n |-> n, model |-> model, owner |-> OwnerOf(data)]}
        /\ UNCHANGED <<rights, page, socket, rows>>

\* record(): ActivityEvent.create ends some time later, or fails and is logged.
RowSettled ==
    /\ \E r \in writing :
          /\ writing' = writing \ {r}
          /\ rows' \in {rows, rows \cup {r}}
    /\ UNCHANGED <<rights, page, socket, events, heard, attended>>

\* A login in any tab, with the groups of that moment: the token all tabs share
\* is replaced; a page that is open, and its socket, stay as they are.
LogIn(u) ==
    /\ \E r \in Rights : rights' = [rights EXCEPT ![u] = r]
    /\ UNCHANGED <<page, socket, events, heard, attended, writing, rows>>

\* A socket goes, and what it was sent with it.
Closed(u) ==
    /\ socket' = [socket EXCEPT ![u] = "off"]
    /\ heard' = [heard EXCEPT ![u] = {}]
    /\ attended' = [attended EXCEPT ![u] = {}]
    /\ UNCHANGED <<rights, events, writing, rows>>

\* The page is loaded anew, after a login or otherwise: it takes the latest token.
LoadPage(u) == Closed(u) /\ page' = [page EXCEPT ![u] = rights[u]]

\* The connection is lost.
Disconnect(u) == socket[u] # "off" /\ Closed(u) /\ UNCHANGED page

\* Mutant: the handshake does not wait for the token.
ConnectUnchecked(u) ==
    /\ socket[u] = "off"
    /\ socket' \in {[socket EXCEPT ![u] = page[u]], [socket EXCEPT ![u] = None]}
    /\ UNCHANGED <<rights, page, events, heard, attended, writing, rows>>

\* The page connects, or connects again, and authIO keeps on the socket what the
\* page's token says.
Connect(u) ==
    /\ socket[u] = "off"
    /\ socket' = [socket EXCEPT ![u] = page[u]]
    /\ UNCHANGED <<rights, page, events, heard, attended, writing, rows>>

LiveNext ==
    RowSettled \/ \E u \in Users : LogIn(u) \/ LoadPage(u) \/ Disconnect(u) \/ Connect(u)

\* recent(FEED_LIMIT): the newest rows, whoever may read them.
Recent == {r \in rows : Cardinality({s \in rows : s.n > r.n}) < FeedLimit}

\* visibleTo: the gate over a record put together from the row's owner.
VisibleTo(u, has, row) ==
    CanRead(u, has, row.model, [created_by |-> row.owner, uid |-> row.owner])

\* What auth makes of a request: the latest session token's rights, or, of a
\* personal access token, those of no group at all.
RequestRights(u) == {rights[u], "user"}

\* GET /activity, of a request with these rights.
Feed(u, has) == {r.n : r \in {s \in Recent : VisibleTo(u, has, s)}}

LiveTypeOK ==
    /\ rights \in [Users -> Rights] /\ page \in [Users -> Rights]
    /\ socket \in [Users -> Rights \cup {"off"}]
    /\ events \in 0 .. MaxEvents
    /\ heard \in [Users -> SUBSET (1 .. events)]
    /\ attended \in [Users -> SUBSET (1 .. events)]
    /\ \A u \in Users : heard[u] \subseteq attended[u]
    /\ writing \cup rows \subseteq [n : 1 .. events, model : {"ApiToken", "AuditEvent"},
                                    owner : Users \cup {None}]

\* Whoever has these rights may read whatever those other rights let read.
AtMost(some, more) == some = "jumpadmin" => more = "jumpadmin"

\* How far history is the same decision as live delivery (routes/activity.js).  Of
\* the events published while a user's socket was open, and whatever logins there
\* have been since: a feed asked for with no more rights than the socket's shows
\* nothing that the socket was not sent, and one asked for with no fewer has all
\* that it was, but for rows that were lost or have fallen off the end.  With the
\* same rights the two agree exactly; else they may not (README).
FeedAgreesWithSocket ==
    \A u \in Users : socket[u] # "off" =>
        \A has \in RequestRights(u) :
            /\ AtMost(has, socket[u]) => Feed(u, has) \cap attended[u] \subseteq heard[u]
            /\ AtMost(socket[u], has) => heard[u] \cap {r.n : r \in Recent} \subseteq Feed(u, has)

=============================================================================
