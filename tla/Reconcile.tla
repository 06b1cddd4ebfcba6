----------------------------- MODULE Reconcile -----------------------------
(***************************************************************************)
(* services/mesh_state.js: runReconcile's one pass at a time, from the     *)
(* gateway's keypair to the exits, over services/directory_client.js,      *)
(* whose fetches fall back on what Redis cached; and the pages of          *)
(* routes/mesh.js, which fetch the same documents and start passes too.    *)
(*                                                                         *)
(* A document is the version of the directory it was made from: 0 before   *)
(* this site has joined.  Applying is opened up in WgPeers, Netmap and     *)
(* ExitRouter; here it is the versions that were applied.  An action runs  *)
(* from one await to the next.                                             *)
(***************************************************************************)
EXTENDS Integers

CONSTANTS
    Passes,      \* runs of reconcileMesh that may exist at once, numbered
    Pages,       \* GET /self and /status, one document each
    None,        \* no key, no document, no pass
    MaxEdits,    \* bound: edits in the directory
    MaxOutages,  \* bound: requests that fail, commands that throw, restarts
    MaxRefused   \* bound: Redis commands that fail

ASSUME NoneAssumption == None \notin Nat
ASSUME PassesAssumption == Passes \subseteq Nat
ASSUME FetchersAssumption == Passes \cap Pages = {}
ASSUME BoundsAssumption ==
    MaxEdits \in Nat /\ MaxOutages \in Nat /\ MaxRefused \in Nat

Docs == {"peers", "clients", "roster"}
Fetchers == Passes \cup Pages

VARIABLES
    version,    \* the directory's
    published,  \* the public key it has of this gateway
    stored,     \* wg_gateway_keypair in Redis
    minted,     \* keypairs generated so far
    cache,      \* mesh_cache:<name> in Redis
    inFlight,   \* the pass that runReconcile returns to whoever comes
    pc,         \* what a fetcher awaits
    doc, got,   \* the document it fetches, those it has
    fresh,      \* those that came from the directory itself
    key,        \* the keypair of a pass
    installed,  \* the private key on wg-mesh
    iface,      \* the documents its peers were set from
    exits,      \* the documents the exits were set from
    edits, outages, refused

directory == <<version, published, edits>>
redis     == <<stored, cache>>
fetches   == <<pc, doc, got, fresh>>
kernel    == <<installed, iface, exits>>
bounds    == <<outages, refused>>
vars == <<directory, minted, redis, inFlight, fetches, key, kernel, bounds>>

NoDocs == [d \in Docs |-> None]

Init ==
    /\ version \in {0, 1}
    /\ published = None /\ stored = None /\ minted = 0
    /\ cache = NoDocs
    /\ inFlight = None
    /\ pc = [f \in Fetchers |-> "idle"]
    /\ doc = [f \in Fetchers |-> "peers"]
    /\ got = [f \in Fetchers |-> NoDocs]
    /\ fresh = [f \in Fetchers |-> {}]
    /\ key = [p \in Passes |-> None]
    /\ installed = None /\ iface = NoDocs /\ exits = NoDocs
    /\ edits = 0 /\ outages = 0 /\ refused = 0

Outage  == outages < MaxOutages /\ outages' = outages + 1 /\ UNCHANGED refused
Refused == refused < MaxRefused /\ refused' = refused + 1 /\ UNCHANGED outages

(***************************************************************************)
(* Starting and ending a pass                                              *)
(***************************************************************************)

\* A new run takes the first number that is free.
NextPass(p) == pc[p] = "idle" /\ \A q \in Passes : q < p => pc[q] # "idle"

\* Mutant: a tick joins a pass only as long as that one fetches.
StartWhileApplying(p) ==
    /\ \A q \in Passes : inFlight = q => pc[q] = "iface"
    /\ NextPass(p)
    /\ inFlight' = p
    /\ pc' = [pc EXCEPT ![p] = "identity"]

\* runReconcile when no pass is running.
Start(p) ==
    /\ inFlight = None
    /\ NextPass(p)
    /\ inFlight' = p
    /\ pc' = [pc EXCEPT ![p] = "identity"]

\* A tick of the timer, or POST /reconcile: while a pass is running, whoever
\* comes is given that one.
Tick(p) ==
    /\ Start(p)
    /\ UNCHANGED <<directory, minted, redis, doc, got, fresh, key, kernel, bounds>>

\* Mutant: inFlight is cleared by a pass that worked and by no other.
OverOnSuccess(p) ==
    /\ pc' = [pc EXCEPT ![p] = "idle"]
    /\ doc' = [doc EXCEPT ![p] = "peers"]
    /\ got' = [got EXCEPT ![p] = NoDocs]
    /\ fresh' = [fresh EXCEPT ![p] = {}]
    /\ key' = [key EXCEPT ![p] = None]
    /\ inFlight' = IF pc[p] = "exits" THEN None ELSE inFlight

\* The pass is over, in whichever way: finally.
Over(p) ==
    /\ pc' = [pc EXCEPT ![p] = "idle"]
    /\ doc' = [doc EXCEPT ![p] = "peers"]
    /\ got' = [got EXCEPT ![p] = NoDocs]
    /\ fresh' = [fresh EXCEPT ![p] = {}]
    /\ key' = [key EXCEPT ![p] = None]
    /\ inFlight' = None

Await(p, place) ==
    /\ pc' = [pc EXCEPT ![p] = place]
    /\ UNCHANGED <<inFlight, doc, got, fresh>>

(***************************************************************************)
(* The gateway's own facts                                                 *)
(***************************************************************************)

\* keypair: hGetAll.  The exit keypair is kept the same way.
ReadIdentity(p) ==
    /\ pc[p] = "identity"
    /\ \/ /\ stored # None
          /\ key' = [key EXCEPT ![p] = stored]
          /\ Await(p, "publish")
          /\ UNCHANGED <<minted, bounds>>
       \/ /\ stored = None
          /\ minted' = minted + 1
          /\ key' = [key EXCEPT ![p] = minted']
          /\ Await(p, "save")
          /\ UNCHANGED bounds
       \/ Refused /\ Over(p) /\ UNCHANGED minted
    /\ UNCHANGED <<directory, redis, kernel>>

\* Mutant: the new keypair's hSet is not awaited, and may fail unnoticed.
SaveIdentityUnawaited(p) ==
    /\ pc[p] = "save"
    /\ \/ stored' = key[p] /\ UNCHANGED bounds
       \/ UNCHANGED stored /\ Refused
    /\ Await(p, "publish")
    /\ UNCHANGED <<directory, minted, cache, key, kernel>>

\* A new keypair's hSet; one that fails may have worked.
SaveIdentity(p) ==
    /\ pc[p] = "save"
    /\ \/ stored' = key[p] /\ Await(p, "publish") /\ UNCHANGED <<key, bounds>>
       \/ stored' \in {stored, key[p]} /\ Refused /\ Over(p)
    /\ UNCHANGED <<directory, minted, cache, kernel>>

\* publishSelf, best effort.
Publish(p) ==
    /\ pc[p] = "publish"
    /\ \/ published' = key[p] /\ UNCHANGED bounds
       \/ published' \in {published, key[p]} /\ Outage
    /\ Await(p, "ask")
    /\ UNCHANGED <<version, edits, minted, redis, key, kernel>>

(***************************************************************************)
(* fetchWithCache                                                          *)
(***************************************************************************)

\* A fetcher's request for document d is answered; the answer is on its way.
Answered(f, d) ==
    /\ doc' = [doc EXCEPT ![f] = d]
    /\ got' = [got EXCEPT ![f][d] = version]
    /\ fresh' = [fresh EXCEPT ![f] = @ \cup {d}]
    /\ pc' = [pc EXCEPT ![f] = "store"]
    /\ UNCHANGED <<directory, minted, redis, inFlight, key, kernel, bounds>>

Answer(p) == pc[p] = "ask" /\ Answered(p, doc[p])

\* A page fetches a document, at any time; if it falls back it changes nothing.  (GET
\* /status fetches all three at once, which is three of these.)
OpenPage(g) == pc[g] = "idle" /\ \E d \in Docs : Answered(g, d)

\* What comes after a document, whose value is v.
Advance(f, v) ==
    \/ /\ f \in Passes /\ doc[f] = "peers" /\ v # None
       /\ doc' = [doc EXCEPT ![f] = "clients"]
       /\ pc' = [pc EXCEPT ![f] = "ask"]
       /\ got' = [got EXCEPT ![f][doc[f]] = v]
       /\ UNCHANGED <<inFlight, fresh, key>>
    \/ /\ f \in Passes /\ doc[f] = "clients"
       /\ doc' = [doc EXCEPT ![f] = "roster"]
       /\ pc' = [pc EXCEPT ![f] = "ask"]
       /\ got' = [got EXCEPT ![f][doc[f]] = v]
       /\ UNCHANGED <<inFlight, fresh, key>>
    \/ \* planReconcile: ready, for the site has an id.
       /\ f \in Passes /\ doc[f] = "roster" /\ got[f]["peers"] # 0
       /\ got' = [got EXCEPT ![f][doc[f]] = v]
       /\ pc' = [pc EXCEPT ![f] = "iface"]
       /\ UNCHANGED <<inFlight, doc, fresh, key>>
    \/ \* Nothing known of the peers, or not joined: the interface is left alone.
       /\ f \in Passes
       /\ \/ doc[f] = "peers" /\ v = None
          \/ doc[f] = "roster" /\ got[f]["peers"] = 0
       /\ Over(f)
    \/ /\ f \in Pages
       /\ pc' = [pc EXCEPT ![f] = "idle"]
       /\ doc' = [doc EXCEPT ![f] = "peers"]
       /\ got' = [got EXCEPT ![f] = NoDocs]
       /\ fresh' = [fresh EXCEPT ![f] = {}]
       /\ UNCHANGED <<inFlight, key>>

\* cacheWrite, whose failure is swallowed.
Store(f) ==
    /\ pc[f] = "store"
    /\ \/ cache' = [cache EXCEPT ![doc[f]] = got[f][doc[f]]] /\ UNCHANGED bounds
       \/ UNCHANGED cache /\ Refused
    /\ Advance(f, got[f][doc[f]])
    /\ UNCHANGED <<directory, minted, stored, kernel>>

\* Mutant: a request that failed has no value.
FallBackToNothing(p) ==
    /\ pc[p] = "ask"
    /\ Outage /\ Advance(p, None)
    /\ UNCHANGED <<directory, minted, redis, kernel>>

\* The request fails or times out: cacheRead, which finds nothing when Redis
\* refuses.
FallBack(p) ==
    /\ pc[p] = "ask"
    /\ \/ Outage /\ Advance(p, cache[doc[p]])
       \/ /\ outages < MaxOutages /\ outages' = outages + 1
          /\ refused < MaxRefused /\ refused' = refused + 1
          /\ Advance(p, None)
    /\ UNCHANGED <<directory, minted, redis, kernel>>

(***************************************************************************)
(* Applying                                                                *)
(***************************************************************************)

\* applyPlan up to the NETMAPs; it throws before it sets a peer when the interface
\* cannot be made or given its key and its addresses, and after it when a route or
\* a sysctl is refused.
ApplyPeers(p) ==
    /\ pc[p] = "iface"
    /\ \/ /\ installed' = key[p]
          /\ iface' = got[p]
          /\ \/ Await(p, "netmaps") /\ UNCHANGED <<key, bounds>>
             \/ Outage /\ Over(p)
       \/ /\ Outage
          /\ installed' \in {installed, key[p]}
          /\ Over(p)
          /\ UNCHANGED iface
    /\ UNCHANGED <<directory, minted, redis, exits>>

\* applyPlan awaits listAppliedNetmaps: if that rejects there are no exits.
ApplyNetmaps(p) ==
    /\ pc[p] = "netmaps"
    /\ \/ Await(p, "exits") /\ UNCHANGED <<key, bounds>>
       \/ Refused /\ Over(p)
    /\ UNCHANGED <<directory, minted, redis, kernel>>

ApplyExits(p) ==
    /\ pc[p] = "exits"
    /\ exits' = got[p]
    /\ Over(p)
    /\ UNCHANGED <<directory, minted, redis, installed, iface, bounds>>

(***************************************************************************)
(* The world                                                               *)
(***************************************************************************)

\* The site joins, or someone edits the directory.
Edit ==
    /\ edits < MaxEdits
    /\ edits' = edits + 1
    /\ version' = version + 1
    /\ UNCHANGED <<published, minted, redis, inFlight, fetches, key, kernel, bounds>>

\* The process is killed and comes back; a reboot empties the kernel as well.
Restart ==
    /\ Outage
    /\ inFlight' = None
    /\ pc' = [f \in Fetchers |-> "idle"]
    /\ doc' = [f \in Fetchers |-> "peers"]
    /\ got' = [f \in Fetchers |-> NoDocs]
    /\ fresh' = [f \in Fetchers |-> {}]
    /\ key' = [p \in Passes |-> None]
    /\ \/ UNCHANGED kernel
       \/ installed' = None /\ iface' = NoDocs /\ exits' = NoDocs
    /\ UNCHANGED <<directory, minted, redis>>

PassStep(p) ==
    \/ ReadIdentity(p) \/ SaveIdentity(p) \/ Publish(p)
    \/ Answer(p) \/ Store(p) \/ FallBack(p)
    \/ ApplyPeers(p) \/ ApplyNetmaps(p) \/ ApplyExits(p)

Next ==
    \/ \E p \in Passes : Tick(p) \/ PassStep(p)
    \/ \E g \in Pages : OpenPage(g) \/ Store(g)
    \/ Edit \/ Restart

Spec == Init /\ [][Next]_vars

\* setInterval keeps ticking; Redis answers, or refuses; a request ends within
\* FETCH_TIMEOUT_MS.  Nobody needs to open a page.
Fairness ==
    /\ WF_vars(\E p \in Passes : Tick(p))
    /\ \A p \in Passes : WF_vars(PassStep(p))

FairSpec == Spec /\ Fairness

(***************************************************************************)
(* Properties                                                              *)
(***************************************************************************)

Versions == Nat \cup {None}
Documents == [Docs -> Versions]

TypeOK ==
    /\ version \in Nat /\ minted \in Nat
    /\ published \in Versions /\ stored \in Versions /\ installed \in Versions
    /\ cache \in Documents /\ iface \in Documents /\ exits \in Documents
    /\ inFlight \in Passes \cup {None}
    /\ pc \in [Fetchers -> {"idle", "identity", "save", "publish", "ask", "store",
                            "iface", "netmaps", "exits"}]
    /\ doc \in [Fetchers -> Docs]
    /\ got \in [Fetchers -> Documents]
    /\ fresh \in [Fetchers -> SUBSET Docs]
    /\ key \in [Passes -> Versions]
    /\ edits \in 0 .. MaxEdits
    /\ outages \in 0 .. MaxOutages /\ refused \in 0 .. MaxRefused

\* "Serialize reconciles": ticks and requests together never have two passes
\* racing for the same rules, and a pass that is over, or was killed, never
\* stands in the way of the next.
OnePassAtATime == \A p \in Passes : pc[p] # "idle" <=> inFlight = p

\* The key peers are told and the key wg-mesh answers with are the one that
\* Redis keeps, and that never changes: passes that fail, commands that fail,
\* kills and reboots included.
OneIdentity ==
    /\ {published, installed} \subseteq {stored, None}
    /\ \A p \in Passes : pc[p] \notin {"idle", "identity", "save"} => key[p] = stored

\* A keypair that keypair() has stored is never replaced by another.
IdentityStays == [][stored # None => stored' = stored]_vars

\* Without a refused Redis command, no outage of the directory takes away the
\* devices, the sites or the roster that the interface was set from: what was
\* once fetched can be read back whichever request fails, and across restarts
\* (a reboot, which empties the kernel, is followed by a pass that sets it from
\* the cache).
OutageKeepsPeers ==
    [][\A d \in Docs :
          refused' = 0 /\ iface[d] # None /\ iface' # NoDocs => iface'[d] # None]_vars

\* Nothing that came from the directory itself is replaced by something older
\* that came from the directory itself: answers are applied in the order of the
\* requests, because passes do not overlap.  (A reboot empties the interface.)
NeverBackwards ==
    [][\A p \in Passes : pc[p] = "iface" /\ iface' # NoDocs
          => \A d \in fresh[p] : iface[d] # None => iface'[d] >= iface[d]]_vars

\* Once the directory stays and the faults are over, the interface and the
\* exits are set from its current documents, all of the same version, and
\* peers know the key that is installed, for good.
Current ==
    /\ \A d \in Docs : iface[d] = version /\ exits[d] = version
    /\ published = stored /\ installed = stored

EventuallyCurrent == <>[](version > 0 => Current)

=============================================================================
