# A TLA+ model of the theta42 jump host

The repository is a gateway with two halves. One is an SSH jump host: a person
logs in with a directory account, names a host (or picks one from a menu), and
the gateway opens a second SSH connection to it with its own key and splices
the two. The other is a WireGuard router: it pulls a roster of sites and
devices from a directory and makes the kernel's peers, routes, NAT rules and
policy rules agree with it. One Node process does both and keeps what must
survive a restart in Redis.

All source paths below are under `src/nodejs/`.

## 1. Inventory

| Component | Source | State it keeps | Operations | What makes it hard |
|---|---|---|---|---|
| Session lifecycle | `services/ssh_server.js`, `bridge.js`, `session_registry.js` | per connection: an async handler, two transports, channels, promises; the in-memory registry | accept, create the record, resolve, inject, dial, redial, bridge, tear down | handlers interleave at every await; either transport may close at any await; listeners attached after awaits |
| Authentication | `services/ssh_server.js` (`handleAuth`), `utils/username_grammar.js` | the shared `state` object of a connection | public key (probe, verify), password | attempts are asynchronous and write one object |
| Picker | `services/tui_picker.js` | filter, cursor, what was drawn last | keystrokes | the cursor and the list change separately; the cursor at its limits |
| Target matching | `utils/target_match.js` | none | `matchTarget`, `hostEndpoint` | precedence of five rules |
| Audit trail | `models/audit_event.js` | a hash per event, a sorted index | create, patch, finish, trim, list | six Redis commands per write, none of them atomic together |
| Metrics | `models/metrics.js` | counters | bump, summary | agreement with the audit trail |
| Key injection | `utils/key_inject.js`, `models/user_file.js`, `models/user_ldap.js` | a Redis flag per user, the LDAP attribute | ensure, clear, add key | the flag and LDAP drift; the user is a snapshot; hosts cache keys |
| Vault certificates | `utils/vault_cert.js` | none | sign | an HTTP call |
| Access | `utils/access.js`, `utils/hosts_file.js` | 30 s cache per user | accessible hosts | staleness, crossing answers, outages |
| Mesh reconcile | `services/mesh_state.js` | keypairs and applied NETMAPs in Redis, `inFlight` | plan, apply, run on a timer | overlapping passes, partial failure, restart between two steps |
| Host router | `utils/net_router.js` | kernel NAT rules and routes | ensure and remove rules | each command may fail alone |
| WireGuard interface | `utils/wg_iface.js` | kernel peers and routes | set and remove peers | routes are not tracked |
| Exit routing | `services/exit_router.js` | policy rules, tables, interfaces | plan, apply | what is ours and what is the operator's |
| Directory client | `services/directory_client.js` | cached documents in Redis | fetch, publish | outages, crossing fetches, a cache that cannot be written |
| Live events | `utils/model_events.js`, `utils/socket_pubsub.js`, `models/activity_event.js` | subscriptions, gates, history rows | emit, attach, feed | two gates that must agree; rows written late or never |
| Tokens and accounts | `middleware/auth.js`, `models/api_token.js`, `models/user_redis.js` | tokens, sessions | add, rotate, edit, remove, authenticate | a record that is read, awaited over and used |
| Routes, mDNS, UI, wiring | `routes/`, `services/mdns_announce.js`, `bin/www`, `app.js`, `public/` | none of their own | | |

The front door calls access, matching, injection (or Vault) and audit in that
order; the bridge clears injection's flag; the registry is read by the cap and
by `GET /api/sessions`; audit and activity feed the live events. Reconcile calls
the directory client, then the WireGuard interface, then the host router, then
the exits. The two halves share only Redis and the process, and the process is
the point: an unhandled rejection in either ends both.

## 2. The modules

In the order of the behaviour they protect:

| Module | Models | Run | Proved in |
|---|---|---|---|
| SshSession, SshSessionClaims | the session lifecycle | `ssh_safety`, `ssh_live`, `claim_survives` | SshSession_proofs |
| AttemptRecord | what the audit trail promises of one attempt's record (abstract) | through `ssh_live` | SshSession_proofs |
| KeyInject | the injected key: flag, LDAP, key cache, the redial | `key_inject` | FrontDoor_proofs |
| RuleTable | what a reconciler promises of a kernel table (abstract) | through the next two | |
| Netmap | NETMAP rules against the roster | `netmap` | Netmap_proofs |
| ExitRouter | policy rules, tables and interfaces against the plan | `exit_router` | ExitRouter_proofs |
| AuditStore | index, hashes and trimming by concurrent writers | `audit_store` | AuditStore_proofs |
| Reconcile | the passes: timer, identity, documents, outages, restarts | `reconcile` | Reconcile_proofs |
| WgPeers | peers, allowed addresses and kernel routes | `wg_peers` | WgPeers_proofs |
| Grammar | what a username's target may be, shared by the next two | | |
| Login | authentication and the host list a session is given | `login` | FrontDoor_proofs |
| Targeting | which host is dialed: matching and the picker | `targeting` | FrontDoor_proofs |
| LiveEvents | how changes reach sockets and the feed | `api_token` | ApiToken_proofs |
| ApiToken | a token's life against its use, over LiveEvents | `api_token` | ApiToken_proofs |

`MC*` modules give TLC what a .cfg cannot write: sets of records, functions,
numbered slots, symmetry. SshSession is checked and proved to implement
AttemptRecord, Netmap (twice) and ExitRouter to implement RuleTable. ApiToken EXTENDS LiveEvents and adds the actors that
publish. Login, KeyInject and Targeting are the three stations of a session before
it is bridged; they share no variable, and one module holds their proofs.
Reconcile keeps of Netmap, WgPeers and ExitRouter only the documents
they were given; each of them keeps of Reconcile only that a pass starts with a
fetched plan and may be cut off anywhere.

Bounds that are named in a module (`MaxChanges`, `MaxEdits`, `MaxFaults`,
`MaxOutages`, `MaxRefused`, `MaxRestarts`, `MaxRemovals`, `MaxWrites`, `MaxEvents`,
`MaxSecrets`) count what the world does to the system -- edits,
failures, restarts, writes begun -- and never limit what the code does about it.
They make the state space finite and "once the edits are over" meaningful; the
theorems hold for every value of them. `MaxListed` and `MaxFilter` bound the
inputs of Targeting.

What would come next: several channels on one SSH session.

## 3. SshSession

`SshSession.tla` is everything between an accepted authentication and a
torn-down bridge, for any number of connections at once.

**Granularity.** Node runs one handler at a time and gives way only at an
await, so an action is the code from one await to the next. `pc` names the await
at which a connection's handler is parked:

| `pc` | parked at |
|---|---|
| `idle`, `auth`, `refused`, `session` | no connection, authenticating, over the cap, ready and waiting for the first session |
| `creating`, `hosts`, `picker` | `audit.create`, `accessibleHosts`, `tuiPromise` |
| `patching`, `injecting`, `dialing`, `redial` | the target's patch, the credential, the dial, the two-second pause before the second dial |
| `registered`, `counting`, `shell` | the success patch, the bump, the picker's upstream shell |
| `failing`, `bumpFail` | `record.finish` and `metrics.bump` on the failure path |
| `done`, `dead` | returned; lost with the process |

Whatever does not belong to the handler -- the client asking for a channel or
hanging up, the host closing, another connection's handler -- may happen at
every await. A Redis command that is awaited chooses its outcome when it is
issued (`result`), and the continuation reads it. One that is not awaited
(`record.patch` in `hostVerifier`, in `pipeStreams`, in `bridgeShellChannel`;
`record.finish` in the teardown) either works or rejects with nobody
listening, which ends the process: `Crash`.

**State.** `client`, `chan`, `promise`, `up` are the inbound transport, its
channel, the promise the channel waits on, and the upstream client; `wired`
says that `wireTeardown` has attached its listeners; `sessions` is the
registry; `event` is the record in memory and `stored` what Redis has;
`bumps` what was counted for a connection.

**Constants.** `Refusing` are the connections whose Redis commands may be refused;
`UsePki` chooses certificates instead of injected keys.

**Abstractions.** A connection is used once and asks for one channel at a time (a channel that
was turned away may be followed by another in grammar mode). Accounts, hosts
and times are left out. A failing write may or may not have reached Redis. `audit.create`'s live event
and the byte counts are not modelled.

### Runs

| Run | Checks | Instance |
|---|---|---|
| `ssh_safety` | `AuditedBeforeBridged`, `UpstreamsAccountedFor` | 2 connections, cap 1, Redis may refuse both, LDAP keys: 760 621 states |
| `ssh_live` | `MetricsMatchAudit`, `VerdictStands`, `ChannelServed`, `BridgeTornDown`, `VerdictReached` | 2 connections, cap 1, Redis may refuse one of them, LDAP keys: 224 656 states |

Two connections and a cap of one let one connection be refused by the other,
pass the cap together with it, or die of the other's unhandled rejection; a third
would add no new interference, since connections share only the registry and
the process. Both runs inject keys, so that a dial can be refused and tried again
(`redial`); certificates (`UsePki`) take that step away and add none, and the proofs
cover both. In `ssh_live` one connection's commands may be refused and the
other's are not: `MetricsMatchAudit` and `VerdictReached` promise something only
with a Redis that answers, and are checked (and `VerdictStands` with them) beside a connection whose refused
command may end the process at any time. `Conns` is symmetric, and symmetry is
used only in the run without liveness. Deadlock checking is off because
connections are used once: when all are done, nothing more happens.

**Fairness.** `FairSpec` says that what a handler awaits answers: Redis,
directory, LDAP and Vault calls settle, `readyTimeout` bounds a dial, a timer
fires; and that a transport that was told to end closes. Nothing makes a client
act, a host hang up, or a picker user choose.

**AttemptRecord.** A record in Redis is `NoRow`, `Opened`, `Granted` (a success,
still open), `Closed` (a success that is over) or `Refused` (over, with a reason),
and `AttemptRecord.tla` says which may follow which. `VerdictStands` maps `stored`
to it: an ended record never opens again, a success never carries a reason, and a
success becomes a refusal (`Retract`) only where Redis refused a command -- the
success patch took effect and then failed, or the counting after it did.

### What the code does not keep

`claim_survives` (module `SshSessionClaims`) expects TLC to find a
counterexample to what a comment says: "a silent catch so a rejection isn't
unhandled if the client never sends a shell request" (`ssh_server.js:231-233`).
That is true of `hostsPromise` and not of `upstreamPromise`: when a grammar
attempt fails before its client has asked for a channel, nobody listens to the
promise it rejects (`:213`), and the unhandled rejection ends the process with
every other session. Others are told in section 13.

### Proofs

`SshSession_proofs.tla` proves `TypeOK`, both invariants of `ssh_safety`,
`MetricsMatchAudit` and the refinement `VerdictStands` for every finite set of connections, every cap of at least
one, both settings of the flags and whichever connections Redis may refuse.

None of the invariants is inductive. `IInv` is `TypeOK` with, for each connection,
`ConnInv`, which says how its handler's place, its transports, its promise and
its record go together:

- the record is a new one (`NewEvent`) from `creating` to the dial, a live one
  (open, successful, no reason) from `registered` to `shell`, and what Redis has
  is the same from the moment the success patch has answered;
- the teardown is wired only when the handler has returned without a failure,
  and as long as the upstream is then up, the record is live in memory and in
  Redis;
- a bridged channel has its teardown wired and its upstream open; in grammar
  mode that needs: a promise that is resolved means the teardown is wired, or
  the process is gone;
- a process that is gone has no channel and no upstream left;
- an upstream that is open or ending is in `sessions`.

`AuditedBeforeBridged` follows from the second and third lines.

The proof that `Next` preserves `IInv` has one step per action, and a lemma for
each piece that actions share. A handler's step touches its own connection, so a
frame lemma (`UntouchedInv`) settles the others; `Crash`, which touches all of
them, has a lemma of its own (`CrashInv`).

`MetricsMatchAudit` needs a second invariant, `TalliesInv`, of the connections
whose commands Redis answers: nothing is counted up to `registered` and
`failing`, one success from `counting` on, one failure in `bumpFail`; memory and
Redis hold the same record; and the record is no success in `failing` and
`bumpFail`. It rests on `IInv` where the teardown rewrites a finished attempt's
record, which must already be a success. A step of another connection spares
this one or takes the process down (`Spared`), and an error without a reason
(`FailUnnamed`) cannot come to a connection that Redis answers (`TallyRefused`).

`VerdictStands` needs a third, `CoursesInv`, which says where a record stands in
Redis by the place of its handler when its commands may be refused: none before
`creating`, perhaps one in it, an open one without a verdict up to the dial, and at
`registered` either that or a success, since a refused patch may have taken effect.
Each step then writes nothing, or something that `Follows` what is there
(`CourseHandler`, `CourseClient`, `CourseUpstream`), and `RecordStep` maps that to a
step of AttemptRecord. An unnamed error occurs only with a connection in
`Refusing`, which is why a success may be taken back there and nowhere else.
Liveness is model-checked only.

## 4. KeyInject

`KeyInject.tla` opens up the step that SshSession takes as one
(`Credentialed`): `ensureKeyInjected`, `addSshKey`, `clearInjectedFlag` and the
one retry in `connectUpstream`, for any number of connections (`Logins`) of one
user. `flag` is the Redis key, `ldap` the attribute, `served` what a downstream
host has in its cache (SSSD, external), `knows` the user object read at authentication.
An action is one round trip with the code that runs on its answer; a failing one
may have taken effect. `RemoveKey` is an edit in the directory: the key goes, or
the account, and then `addSshKey` returns without adding anything
(`user_file.js:56-58`).

`key_inject` (3 connections, one removal, anything may fail: 57 984 states)
checks `InjectedBeforeDialed`, `RetryPaysOff` and `AttemptSettles`.
Two connections let one clear the flag while the other reads it; the third sets
it again in between. Fairness: what a handler awaits answers and the two-second
timer fires; nothing bounds how long a host keeps its cache, so `RetryPaysOff`
is about a host that serves the key while the flag is being cleared.

`FrontDoor_proofs.tla` proves `InjectedBeforeDialed`. It is not inductive: a
connection about to set the flag must be known to have the key in LDAP, and so
must a snapshot that has it (`KeyInv`). `InjectTypeOK` is part of that invariant.

Once somebody does remove the key, `key_inject.js:13-15` is not kept: section 13.

## 5. RuleTable and Netmap

`RuleTable.tla` is what a reconciler promises of a kernel table: an entry that
is planned is never taken out and one that is not planned is never put in,
whatever fails. In particular, no pass clears the table to fill it again.

`Netmap.tla` is the NETMAP half of `applyPlan` over `net_router.js`. A mapping
is a pair of a shadow slot and a LAN. `dnat` and `snat` are the two NETMAP rules
of a mapping, `masq` the masquerade of a LAN, `local` the local route of a slot,
`tracked` the `applied_netmaps` set in Redis. `snat` and `masq` are rules of one
chain, which takes the first that fits: `behind` are the mappings whose rule
comes after their LAN's masquerade and is never reached. The loops never await, so a pass
is not interleaved with another handler; but each command may fail, the process
may be killed between any two, and the `sAdd`s and `sRem`s that a loop starts
reach Redis only when it is over (`pending`). `RuleRefused` is `ensureRule`
throwing, `Dropped` a removal whose failure nobody sees. The model takes iptables to
be installed; without it (`haveIptables()`, `net_router.js:60`, `:162`) the code
skips every rule and records the mapping all the same.

`netmap` (both shadow slots, two LANs, two edits, one fault anywhere: 258 824
states) checks:

- `AtRestExact`: without faults each pass ends with exactly the rewrites and
  records of its plan;
- `ShadowBeforeMasquerade`: without faults a masqueraded LAN is rewritten first.
  When a LAN moves to the other slot, its new rewrite is appended behind its
  masquerade; it is the removal of the old mapping, which takes the masquerade
  away although the LAN is still mapped, that lets the next pass append it in
  the right place;
- `RewritesFollowPlan`: each NAT chain implements RuleTable, with faults;
- `EventuallyMapped`: once edits and faults are over, every LAN of the roster
  has its rules, its route and its masquerade for good. Fairness is that the
  timer keeps firing (`setInterval`) and a pass that was started goes on: its
  commands are child processes that end.

Two slots and two LANs are what it takes for a slot to change its LAN, a LAN its
slot, and two mappings to share a masquerade. Two edits let a mapping go and
come back while the first edit is being applied.

A slot that changes its LAN loses its local route for one pass (section 13);
the next pass repairs it, which is why `EventuallyMapped` holds.

`Netmap_proofs.tla` proves the three invariants and both refinements of RuleTable.
`LoopInv`, which holds under any faults, says that the first loop works on planned
mappings and the second on unplanned ones: enough for RuleTable. `CleanInv`,
which holds while nothing has failed, follows the loops: the chains are what is
recorded or about to be (`tracked \cup pending`) while adding, and what is recorded and
not about to be dropped while removing. `OrderInv` follows the order of the
chain: only rules that are there are `behind`, and only the LAN a removal is at
may be masqueraded without a rewrite.

## 6. ExitRouter

`ExitRouter.tla` is `planExits` and `applyExits`: one interface and one table for
each exit, one policy rule for each device. `rules` are the policy rules, `ifaces` the
`wg-exit-<site>` links, `defaults` the tables with a default route. `pc` names
the loop that is running; an action is one interface brought up or torn down,
or one `ip rule` command. `clean` remembers whether a command of the latest
pass failed. What is installed is listed from the kernel (`Listed`, `Added`);
a listing that fails finds nothing.

`exit_router` (2 devices, 2 exits, two edits, one fault, one restart: 110 982
states) checks:

- `SteeredIntoExits`: while nothing has failed, no rule leads to a table
  without a default route, in the middle of a pass or of a restart. A packet
  sent to an empty table goes on to the main table and leaves at this site;
- `CleanPassIsExact`: a pass whose commands worked leaves exactly its plan,
  whatever failed before it. This is where exits and NETMAPs differ: exits are read
  back from the kernel, NETMAPs are remembered in Redis, and a record that was never
  written leaves its rules behind for good (below);
- `RulesFollowPlan`: the rules implement RuleTable, with faults;
- `EventuallySteered`: once edits and faults are over, every device leaves by
  its exit. Fairness as for Netmap.

Two devices may share an exit or use two; with two exits a device can move
between them while the other device holds one. The second edit arrives while
the first is being applied.

`ExitRouter_proofs.tla` proves the three invariants and the refinement. `LoopInv`
(what is being deleted is not planned, what is being added is) carries
RuleTable; `CleanInv` says how far a clean pass has come, loop by loop; `SteerInv`
that faults are what spoils a pass.

## 7. AuditStore

`AuditStore.tla` is `audit_event.js`: `create`, `patch` and `finish` change the event object
and call `write`, whose six Redis commands are six actions (`WriteHash`,
`AddToIndex`, `Count`, `ListStale`, `RemoveFromIndex`, `DeleteHashes`), since
it awaits each. A writer is one call of `write`; writers interleave at every
command, also two of the same event, because `patch` is not always awaited
(SshSession shows where). Events are numbered in the order of the index, which is
that of their time stamps and, within one millisecond, of their ids; `version` counts the changes of an event object and `stored` is the
version its hash holds. `Fail` is a refused command.

`audit_store` (3 writers, 4 writes, a cap of 1, one failure: 190 399 states;
writers are symmetric) checks `WithinCap`, `NothingLeaks`, `StoredIsLatest` and
`TrimIsExact`. A cap of one makes every second event trim; three writers let two
trims cross while a third writes one of the events they take. Deadlock checking
is off because the number of writes is bounded.

When two trims cross, the second removes as many events as it counted before the
first removed anything, so events within the cap go too, and an event that was
trimmed before its last write comes back to the index.  `TrimIsExact` is about
trims that do not cross (`crossed`), and is violated without that.

`AuditStore_proofs.tla` proves `TypeOK` and all four invariants, for any number of
writers and any cap. For `NothingLeaks` and `StoredIsLatest` the invariant names
who still owes an event something: a hash that the index does not name has a
writer about to index it or one about to delete it (`NamedInv`), and a hash that
is not the last version has a writer about to write it (`LatestInv`).

The other two compare cardinalities along the commands of several writers.
`WithinCap` needs `CapInv`, which speaks of every set of trimmers at once: if those of
`T` came to their end now, what is left of the index (`Kept(T)`) would exceed the cap
by no more than the writes that were cut short and the other writers that still
owe a trim. It has to be said of sets, since what two trimmers are about to take
out overlaps. `TrimIsExact` needs `ExactInv`: while no write was cut short
and no two trims crossed, at most one writer trims (`Alone`), it only takes events
that have a full cap of newer ones (`Relies`), and an event that is made is indexed,
about to be, or outranked in that way (`Accounted`, `Hashed`). The lemmas on ranks say
how counting older events changes as a set grows or shrinks; TLC found both
invariants to hold, with caps of one and of two, before they were proved.

## 8. Reconcile

`Reconcile.tla` is `runReconcile` and `reconcileMesh` from one await to the next,
over the directory client. A document is the version of the directory it was
made from (0: this site has not joined), and applying one is remembering the
version: `iface` for the peers, `exits` for the exits. The commands themselves
are in the sections above and below.

| State | Code |
|---|---|
| `version`, `published`, `edits` | the directory and the public key it has of us |
| `stored`, `cache` | `wg_gateway_keypair` and `mesh_cache:*` in Redis |
| `inFlight` | the promise `runReconcile` hands to whoever comes (`mesh_state.js:361-368`) |
| `pc`, `doc`, `got`, `fresh`, `key` | where a pass is, what it asks for, what it has, what of that came from the directory itself, its keypair |
| `installed`, `iface`, `exits` | what the kernel was set from |

A request that fails may have reached the directory (`Publish`); a refused Redis
command may have worked (`SaveIdentity`); a cache that cannot be read is an
empty one (`FallBack`). A pass may throw
after it has set the peers (`ApplyPeers`: `ensureRoute`, `applySysctls`). Pages fetch and cache the same three documents at any
time. `Passes` numbers runs that could exist at once, so that a second one can
be seen if the code ever started it; a new run takes the first free number.

`reconcile` (two runs, one page, one edit, two outages or restarts, one refused
Redis command: 686 052 states) checks:

- `OnePassAtATime`: passes never overlap, and one that failed or was killed never
  blocks the next;
- `OneIdentity`: peers, interface and Redis have one key -- the code saves it
  before it publishes it; that it never changes once stored (`IdentityStays`) is
  proved;
- `OutageKeepsPeers`: as long as Redis refuses nothing, an outage takes away
  nothing that the interface was set from, a reboot in the middle included;
- `NeverBackwards`: what was fetched is not replaced by what was fetched earlier;
- `EventuallyCurrent`: in the end everything is set from the directory's current
  documents. Fairness: the timer keeps firing, Redis answers or refuses, requests
  end within `FETCH_TIMEOUT_MS`.

Two faults let an outage meet a restart; one edit suffices because what matters
is old against new. A status page fetches the three documents at once, which are so
many fetches that know nothing of each other; the run has one, and the proofs any
number. `OutageKeepsPeers` does not hold with a refused `cacheWrite`
and `NeverBackwards` not for a document from the cache; section 13 tells how.

`Reconcile_proofs.tla` proves all of them but the last, for any numbers of passes,
pages and faults. The invariant has four parts: `KeyInv` (from `publish` on a
pass has the stored key; in `save` there is none yet), `OrderInv` (which documents
can have come from the directory at which place), `VersionInv` (what a pass has
from the directory is not older than what the interface has) and `OutageInv` (while
Redis refuses nothing, what the interface was set from is cached, and a pass that
is past a document without it means there never was one). `NeverBackwards` rests
on `OnePassAtATime`: with two passes it is false, which its mutant shows.

## 9. WgPeers

`WgPeers.tla` is the first half of `applyPlan`: `setPeer` and `removePeer` of
`wg_iface.js` command by command. WireGuard has one table of allowed addresses
per interface, so an address has one `owner` and the last peer to claim it takes
it; kernel `routes` are added beside it, one per address, and nothing remembers
for whom. A command may fail, and the process may be killed or the machine
rebooted between any two. A roster gives an address to one key: what the
directory promises (`wg_iface.js:216-218`).

`wg_peers` (2 keys, 2 addresses, two edits, two faults: 68 798 states) checks:

- `CleanPassIsExact`: a pass whose commands worked leaves exactly the planned
  peers, each with exactly its planned addresses, and every address routed,
  whatever failed before it, and also when devices swap addresses or are given new
  keys. Routes that are left over are not excluded (section 13);
- `TunnelsFollowPlan`: whatever fails, a planned peer never loses a planned
  address and none is given one that is not planned;
- `UsedRoutesStay`: while commands work, no route is deleted whose address a
  peer has -- although the routes to delete are read from what the interface
  lists, and a new peer may have taken the address over by then;
- `EventuallyReachable`: in the end every address of the directory is sent to its
  peer and routed to the interface.

Two keys and two addresses are what a swap needs. Two edits let one undo the
other while it is being applied.

`WgPeers_proofs.tla` proves the first three: `OwnerInv` (only peers own), `LoopInv`
(the first loop sets planned keys, the second removes others) and `CleanInv`
(how far a pass without failures has come). The point of it is in the last
conjunct: while the routes of a removed peer are being deleted, nobody has their
addresses.

## 10. Login

`Login.tla` is `handleAuth` and `accessibleHosts`. ssh2 hands over one attempt at
a time, but the code awaits inside an attempt and all of them write one `state`
object before it is known whether they succeed: a probe (a key without a
signature) is accepted and proves nothing, a refused password leaves its user
behind. `ctx` is the attempt at hand, and stays what ssh2 accepted. A client may
change its name from attempt to attempt; the code does not rely on its not
doing so. Time is counted in ticks and kept as ages, so no clock has to be
bounded: `cache[u].since` is how long ago a list was stored, `.age` how long ago
the directory made it.

`login` (2 connections, one of them local, 2 users, names with and without a
target, `passwordAuth` local, a cache of 2 ticks, answers within 1: 539 045
states) checks:

- `AuthenticatedAs`: a session belongs to the account, goes to the target and is
  recorded with the method of the attempt that proved itself;
- `NotTooStale`: a list that is handed out is younger than the cache's time plus
  the longest answer. It can be older than the cache's time: an entry is dated
  when its answer arrives, and of two crossing answers the older may stay.

Two connections of one user are what it takes for answers to cross; two users,
for one to borrow the other's. A second target would only rename the first.

`FrontDoor_proofs.tla` proves both, and `TypeOK` (no entry of the cache is used after
its time), for every setting of `passwordAuth`. `AttemptInv`
says that whatever is awaited, `state` already has the attempt's own name and
user; `AgeInv` that what was stored is at most one answer older than its entry.

## 11. Targeting

`Targeting.tla` is which host is dialed: `isCatalogHost`, the rules of
`matchTarget`, and the picker. Words are compared as the code compares them;
what is typed into the filter matters only for the hosts that still contain it,
so a filter is the sequence of the sets of hosts left by each of its characters
(one more character can only narrow them). `screen` is what `render` drew last.

`targeting` (lists of up to 3 of 5 resources that compete for the same words,
every order, 5 targets, filters of 2 characters: 12 064 states) checks:

- `EnterTakesHighlighted`: whatever keys came before, Enter takes the highlighted
  row, also after the cursor has been at -1 on an empty list;
- `GrammarDialsBest`: `matchTarget` against its definition as a minimum over pairs
  of a rule and a host;
- `SlugNamesPicked`: a host taken from the picker is the one its slug names in a
  username, and only hosts of the catalog are dialed.

Three rows are the fewest with a middle; the five resources put every rule in
competition with a later one. Deadlock checking is off because a choice ends it.

`FrontDoor_proofs.tla` proves the three, for any directory, any order of its answer
and any keys. `Filter` is written out as a recursive function because the provers
cannot look into `SelectSeq`. Their induction principles cannot be applied to it; in
their place stands that a set of naturals that is not empty has a least element
(`Minimum`): the shortest prefix that would be filtered wrongly is one longer than
a prefix that is not (`FilterType`). `MatchIsBest` says of `matchTarget`, for every list,
what `GrammarDialsBest` says of a session; `RenderHighlights` says of `render` that a
cursor that is not negative ends up on a row. `TargetInv` adds to the properties that
a named target never meets the picker and that every outcome is of the list.
`SlugNamesPicked` then rests on the assumption that slugs are unique.

## 12. LiveEvents and ApiToken

`LiveEvents.tla` is the bus (`model_events.js`), the fan-out to sockets through
each model's gate (`socket_pubsub.js`), the history row that is written behind
its back (`activity_event.js`) and the feed that reads it through the same gate
(`routes/activity.js`). Rights are what the groups in a token make of a user, and
there are three that may differ: `rights` of the latest session token, which all
tabs of a browser share (`app-base.js:212-218`) and a request carries; `page` of the
token a page was loaded with (`:58-64`), with which its socket connects, and connects
again; `socket` of the socket that is open. `LogIn` changes the first only, whichever
tab it happens in; `LoadPage` takes the latest over; `Connect` and `Disconnect` leave
it as it is. A request may also carry a personal access token, which has no groups
(`RequestRights`).

`ApiToken.tla` extends it with one token: `add`, `rotate`, edit, removal and expiry
from two of its owner's tabs, and requests that authenticate with it. An update
writes only the fields it is given, and every read is a snapshot that is used after a
bcrypt operation (`tab`, `req`, `seen`). An operation may fail before it changes
anything (`Fail`) or after, and then its event may be missing (`Announce`). `before`
and `steady` are history variables: the secrets retired when a request began, and
whether its own has been good ever since.

`api_token` (2 users, 2 tabs, 1 request at a time, 2 secrets, 2 events, a feed of
1: 1 765 316 states; tabs are symmetric) checks `TypeOK` and:

- `RetiredStaysRetired`: a secret that was replaced or removed before a request
  began does not let it in, although other requests are still stamping the
  record they read earlier;
- `GoodSecretAccepted`: a secret that stays good is not turned away;
- `FeedAgreesWithSocket`: of the events published while a socket was open, a feed
  asked for with no more rights than the socket's shows none that the socket was not
  sent, and one asked for with no fewer has all that it was sent, but for rows that
  were lost or fell off. With the rights of the socket the two agree; when a login
  elsewhere or a personal access token makes them others, they do not (section 13).

Two tabs let a rotation cross a removal or another rotation; a feed of one row
lets the second event push out the first. Deadlock checking is off because the
events and secrets are bounded. Pages and requests are explored one at a time
(`OneAtATime`, a constraint of the run): the only thing they share is the token, and
neither changes it, so that whatever one can reach it reaches while the other stands
still. A second request would only repeat what a second tab does to the record. The
proofs have no constraint.

`ApiToken_proofs.tla` proves the four, for any users, tabs, requests and events.
`SecretInv` says that the hash in Redis is of no retired secret, that what a request
read was of none that was retired when it began, and that a request whose secret
has been good ever since would pass by what it read -- also while `authenticate` has
still to stamp `last_used_on`, which leaves the hash alone. `FeedInv` says that a
closed socket attends nothing, and that of what an open one attended, the history row
passes the gate, with the rights of that socket, just if the event did: the row names
the owner by another field than the event (`SameGate`). More rights let more rows pass
(`MoreRightsMore`), which gives both halves of the property whatever the logins. That nothing
stands for both an absent body and a body (`NoneAssumption`) is what `null` gives the
code.

## 13. Seen while modelling, without a run

Front door:

- The cap is compared before the dial (`ssh_server.js:114`) and the entry added
  after it, so connections admitted together exceed it: the registry "feeds the
  maxSessions cap" (`session_registry.js:3-4`) too late.
- A client that leaves while the dial is awaited is gone before `wireTeardown`
  listens for it (`:313`): the upstream and its entry stay until the host closes.
- The registry's other direction: an upstream that drops while the success
  patch is awaited stays listed, since its `close` has no listener yet (`:206-210`).
- "A failed upstream auth clears it so a manually-removed key gets re-injected
  once" (`key_inject.js:13-15`): with the flag up, `ensureKeyInjected` returns
  false (`:31`), the dial runs with `allowRetry` false, and a refused dial clears
  the flag only when `allowRetry` is true (`bridge.js:35`). Nobody writes the key
  again.
- The picker's path has no `if (!endpoint.address) throw fail('no-address')`
  (`ssh_server.js:145`): a host without an address is dialed (`:258`).
- `q` and digits are keys of the picker (`tui_picker.js:106`, `:112`) and cannot
  be typed into its filter.
- The standalone inventory gives hosts a `displayName` and no `name`
  (`hosts_file.js`), which the third rule of `matchTarget` looks at.
- The picker keeps the host list of its session for as long as it is open:
  `NotTooStale` ends where the list is handed over.
- `access.js:106` says a denial is recorded as `no-such-target`; `matchTarget`
  sets `code`, the handler reads `reason`, and the record says `error`.
- "Every attempt ... is audited" (`docs/architecture.md:39`): one refused over
  the cap is not. A client that hangs up in the picker leaves its record open.
- `metrics.js:56` refers to `hostKeys`, which is not declared.

Router:

- A slot whose LAN changes finds its local route in place, and the removal of
  the old mapping then deletes it (`net_router.js:191`): until the next pass the
  PREROUTING rule "never sees the packets" (`:157-159`).
- When the masquerade of a LAN that moved to the other slot cannot be deleted,
  which nobody notices, its new rewrite stays behind it: its hosts appear as the
  gateway for good, which is why `ShadowBeforeMasquerade` is about passes without
  faults.
- A NETMAP installed just before the process is killed, or whose last rule is
  refused, is on no record (`mesh_state.js:257`): if its mapping leaves the
  roster before the next pass, nothing ever removes its rules.
- "Re-apply the roster now", for someone "who has just changed something"
  (`routes/mesh.js:112-114`): a request that finds a pass under way is given that
  one, which may have fetched before the change.
- A pass with peers and without the client list (the request failed and Redis
  refused to be read) takes every device's peer away (`mesh_state.js:316`), which
  `directory_client.js:12-16` means to avoid.
- A `cacheWrite` that failed, or a page's answer that was cached after a younger
  one, lets an outage put an older configuration back.
- A peer that keeps its key and changes its addresses leaves the kernel routes
  to the old ones: only `removePeer` deletes routes (`wg_iface.js:210-211`).
- `listManagedRules` takes every rule with a priority in 3000..3254 for this module's
  (`exit_router.js:236`), so an operator's rule there is deleted, which lines
  165-168 mean to avoid.
- An exit interface keeps the peer of a former key when its site publishes a
  new one: `setPeerNoRoutes` adds and never removes.
- `mesh_state.js`'s count of applied peers subtracts every failure, those of
  NETMAPs and exits included.

Web:

- "History must be the same decision as the live delivery" (`activity.js:18-19`),
  and is not when the request has other rights than the socket. After a login with
  other groups in a second tab, the first tab's socket keeps those of its page
  (`app-base.js:60-62`, `socket_pubsub.js:84-92`) while its requests carry the new
  token (`:216-218`): its feed shows audit events the socket was never sent, or hides
  some that it was. A feed asked for with a personal access token hides them too.
  `FeedAgreesWithSocket` says how far the two go together.
- A token's removal is announced "so a token issued or revoked in one tab updates
  the list in another" (`api_token.js:82-83`), but a removal has no body
  (`model_events.js:63`), so the owner's gate finds no owner and no socket or feed
  hears of it.
- A bearer token "never passes requireAdmin" (`auth.js:12-14`); that of a member
  of `adminUsers` does (`:46-47`).
- The feed takes its 200 rows before it applies the gate (`routes/activity.js`), so
  other people's events can push a user's own out of it.

## 14. What is proved, and what is not

Proved for every value of the constants, under the named assumptions on them
only (finite `Conns`, a cap of at least one, a `NoExit` that is no site, a `None`
that is no value, slugs that are unique, natural numbers for slots and bounds):

| Module | Properties | Argument |
|---|---|---|
| SshSession | `TypeOK`, `AuditedBeforeBridged`, `UpstreamsAccountedFor`, `MetricsMatchAudit`, `VerdictStands` | `ConnInv` for each connection, a tally for those Redis answers, the course of each record, and frame lemmas |
| KeyInject | `InjectTypeOK`, `InjectedBeforeDialed` | who knows the key is in LDAP |
| Netmap | `TypeOK`, `AtRestExact`, `ShadowBeforeMasquerade`, `RewritesFollowPlan` | the position in the loops; the order of the chain |
| ExitRouter | `TypeOK`, `SteeredIntoExits`, `CleanPassIsExact`, `RulesFollowPlan` | the same, loop by loop |
| AuditStore | `TypeOK`, `WithinCap`, `NothingLeaks`, `StoredIsLatest`, `TrimIsExact` | who still owes an event something; what would be left if some trims ended; who is outranked |
| Reconcile | `TypeOK`, `OnePassAtATime`, `OneIdentity`, `IdentityStays`, `OutageKeepsPeers`, `NeverBackwards` | key, order, versions and cache |
| WgPeers | `TypeOK`, `CleanPassIsExact`, `TunnelsFollowPlan`, `UsedRoutesStay` | owners, loops, how far a clean pass is |
| Login | `TypeOK`, `AuthenticatedAs`, `NotTooStale` | what an attempt has written; ages along one answer |
| Targeting | `EnterTakesHighlighted`, `GrammarDialsBest`, `SlugNamesPicked` | `matchTarget` as a minimum; the cursor at its limits |
| ApiToken, LiveEvents | `TypeOK`, `RetiredStaysRetired`, `GoodSecretAccepted`, `FeedAgreesWithSocket` | what a request read; a row passes the gate as its event did, and more rights let more rows pass |

The type invariants and `IdentityStays` are left to their proofs and no run repeats
them, but for `TypeOK` in `api_token`, where two modules are composed. With these,
every invariant, action property and refinement that a run checks is proved.

Model-checked only is liveness, which is out of the prover's reach: `ChannelServed`,
`BridgeTornDown`, `VerdictReached`, `RetryPaysOff`, `AttemptSettles`,
`EventuallyMapped`, `EventuallySteered`, `EventuallyCurrent`, `EventuallyReachable`. So are
the library's induction theorems; the two places that need one, the counting in
AuditStore and the filter in Targeting, argue by a least element instead.

## 15. Not modelled

- mDNS, views, browser code, configuration and wiring: network or presentation
  only, without state that other components read.
- `mesh_addressing.js`, `wg_keys.js`, `host_keys.js`: calculations on strings and
  bytes. What the models need of them is assumed there: an address has one
  owner, a slot one shadow, a keypair that is made is new.
- The host router's forwarding, sysctls and detection, which nothing takes back,
  and the creation of the WireGuard interface beyond working or throwing.
- `clearManagedRules` and `clearCache`, which nothing in the program calls,
  `allHosts`, which asks the directory each time and keeps nothing, and what only
  reads (`exitStatus`, `metrics.summary`, `audit_event.list`).
- `activity_seen`, one time stamp per user that only that user reads and writes;
  local accounts, records that one write changes; the routes that read a store
  or call one operation of another component.
- Several channels on one SSH session, byte counts, ports and environment.
