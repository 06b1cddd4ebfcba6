----------------------------- MODULE SshSession -----------------------------
(***************************************************************************)
(* The SSH front door after authentication: services/ssh_server.js with    *)
(* services/bridge.js, services/session_registry.js and the life of the    *)
(* audit record (models/audit_event.js) and counters (models/metrics.js)   *)
(* it drives.                                                              *)
(*                                                                         *)
(* Node runs one handler at a time, and a handler gives way only at an     *)
(* await.  An action is therefore the code from one await to the next, and *)
(* pc says which await a connection's handler is parked at.  Everything    *)
(* else -- the client hanging up, the downstream host dropping, another    *)
(* connection's handler -- may happen at every await.                      *)
(***************************************************************************)
EXTENDS Naturals, FiniteSets

CONSTANTS
    Conns,         \* inbound connections, each used once
    MaxSessions,   \* conf.ssh.maxSessions
    Refusing,      \* connections whose Redis commands may be refused
    UsePki         \* conf.ssh.pki.enabled: a signed certificate, not LDAP

ASSUME ConnsAssumption == IsFiniteSet(Conns)
ASSUME MaxSessionsAssumption == MaxSessions \in Nat \ {0}
ASSUME FlagsAssumption == Refusing \subseteq Conns /\ UsePki \in BOOLEAN

VARIABLES
    pc,       \* where each connection's handler is parked
    mode,     \* "grammar" (a target in the username) or "tui" (the picker)
    client,   \* the inbound transport
    chan,     \* the inbound shell/exec/sftp channel
    promise,  \* upstreamPromise in grammar mode, hostsPromise in picker mode
    up,       \* the upstream ssh2.Client
    retry,    \* connectUpstream's allowRetry (justInjected)
    wired,    \* whether wireTeardown has attached its two listeners
    sessions, \* the registry: connections shown as live
    event,    \* the audit event held in memory
    stored,   \* the audit event as Redis has it
    result,   \* how the Redis command being awaited turned out
    bumps     \* what metrics.bump has counted for the connection

control  == <<pc, mode, retry, result>>
inbound  == <<client, chan, promise>>
upstream == <<up, wired>>
ledger   == <<event, stored, bumps>>
vars == <<control, inbound, upstream, sessions, ledger>>

PCs == {"idle", "auth", "refused", "session", "creating", "hosts", "picker",
        "patching", "injecting", "dialing", "redial", "registered", "counting",
        "shell", "failing", "bumpFail", "done", "dead"}

Chans == {"none", "waiting", "picked", "bridged", "refused", "closed"}
Promises == {"pending", "resolved", "empty", "rejected"}
Ups == {"none", "dialing", "keyed", "open", "ending", "closed"}
Kinds == {"success", "fail"}

Reasons == {"error", "directory-unreachable", "no-address", "key-inject-failed",
            "pki-cert-failed", "upstream-unreachable", "cancelled"}

Events == [stage : {"none", "open", "ended"}, success : BOOLEAN,
           reason : Reasons \cup {""}]

NoEvent == [stage |-> "none", success |-> FALSE, reason |-> ""]

\* audit.create's defaults.
NewEvent == [stage |-> "open", success |-> FALSE, reason |-> ""]

\* Object.assign(event, {success: true}), and with endedAt as well.
Succeeded(e) == [stage |-> e.stage, success |-> TRUE, reason |-> e.reason]
Ended(e) == [stage |-> "ended", success |-> TRUE, reason |-> e.reason]

\* Mutant: the failure leaves the success flag as it was.
FailedKeepsSuccess(e, reason) ==
    [stage |-> "ended", success |-> e.success, reason |-> reason]

\* record.finish({success: false, failReason: reason}).
Failed(e, reason) == [stage |-> "ended", success |-> FALSE, reason |-> reason]

Outcomes(c) == IF c \in Refusing THEN {"ok", "err"} ELSE {"ok"}

\* fail()'s reason for the step that obtains the credential.
CredentialFailure == IF UsePki THEN "pki-cert-failed" ELSE "key-inject-failed"

Init ==
    /\ pc = [c \in Conns |-> "idle"]
    /\ mode = [c \in Conns |-> "grammar"]
    /\ client = [c \in Conns |-> "none"]
    /\ chan = [c \in Conns |-> "none"]
    /\ promise = [c \in Conns |-> "pending"]
    /\ up = [c \in Conns |-> "none"]
    /\ retry = [c \in Conns |-> FALSE]
    /\ wired = [c \in Conns |-> FALSE]
    /\ sessions = {}
    /\ event = [c \in Conns |-> NoEvent]
    /\ stored = [c \in Conns |-> NoEvent]
    /\ result = [c \in Conns |-> "ok"]
    /\ bumps = [c \in Conns |-> [k \in Kinds |-> 0]]

(***************************************************************************)
(* Redis                                                                   *)
(***************************************************************************)

\* Object.assign(event, ...) and write(event).  A write that fails may have
\* failed after its hSet, the first of its commands.
Write(c, e, out) ==
    /\ event' = [event EXCEPT ![c] = e]
    /\ \/ stored' = [stored EXCEPT ![c] = e]
       \/ out = "err" /\ UNCHANGED stored

\* await record.patch(...) or record.finish(...): park at `next`.
AwaitWrite(c, e, next) ==
    /\ pc' = [pc EXCEPT ![c] = next]
    /\ \E out \in Outcomes(c) :
          /\ result' = [result EXCEPT ![c] = out]
          /\ Write(c, e, out)

Counted(b, kind) == [k \in Kinds |-> IF k = kind THEN b[k] + 1 ELSE b[k]]

\* await metrics.bump(...): a bump that fails may have incremented already.
AwaitBump(c, kind, next) ==
    /\ pc' = [pc EXCEPT ![c] = next]
    /\ \E out \in Outcomes(c) :
          /\ result' = [result EXCEPT ![c] = out]
          /\ \/ bumps' = [bumps EXCEPT ![c] = Counted(@, kind)]
             \/ out = "err" /\ UNCHANGED bumps

(***************************************************************************)
(* The process exits                                                       *)
(***************************************************************************)

ShutChannel(s) == IF s \in {"waiting", "picked", "bridged"} THEN "closed" ELSE s

\* Piping the picker's channel, and the end of a piped channel.
Bridge(s) == IF s = "picked" THEN "bridged" ELSE s
Unbridge(s) == IF s = "bridged" THEN "closed" ELSE s

\* A promise rejected with nobody listening ends the Node process: bin/www
\* installs no unhandledRejection handler.  Every bridge drops with it; what is
\* in Redis stays.  e is the event whose last write was in flight.
Crash(c, e) ==
    /\ event' = [event EXCEPT ![c] = e]
    /\ stored' \in {stored, [stored EXCEPT ![c] = e]}
    /\ pc' = [d \in Conns |-> IF pc[d] = "idle" THEN "idle" ELSE "dead"]
    /\ client' = [d \in Conns |-> IF client[d] = "none" THEN "none" ELSE "closed"]
    /\ chan' = [d \in Conns |-> ShutChannel(chan[d])]
    /\ up' = [d \in Conns |-> IF up[d] = "none" THEN "none" ELSE "closed"]
    /\ wired' = [d \in Conns |-> FALSE]
    /\ sessions' = {}
    /\ UNCHANGED <<mode, retry, result, promise, bumps>>

\* record.patch(...) or record.finish(...) that nobody awaits: should it fail,
\* its rejection is unhandled.
WriteUnawaited(c, e) ==
    /\ event' = [event EXCEPT ![c] = e]
    /\ stored' = [stored EXCEPT ![c] = e]

(***************************************************************************)
(* Failure paths                                                           *)
(***************************************************************************)

End(s) == IF s = "open" THEN "ended" ELSE s

\* The handler throws and runSession's catch ends the client.
Throw(c) ==
    /\ pc' = [pc EXCEPT ![c] = "done"]
    /\ client' = [client EXCEPT ![c] = End(@)]
    /\ UNCHANGED <<mode, retry, result, chan, promise, upstream, sessions, ledger>>

\* Mutant: the catch finishes the record and forgets rejectUp.
FailGrammarSilently(c, reason, upNow) ==
    /\ mode[c] = "grammar"
    /\ AwaitWrite(c, Failed(event[c], reason), "failing")
    /\ up' = [up EXCEPT ![c] = upNow]
    /\ UNCHANGED <<mode, retry, inbound, wired, sessions, bumps>>

\* Mutant: the catch rejects the channel and forgets the record.
FailGrammarUnrecorded(c, reason, upNow) ==
    /\ mode[c] = "grammar"
    /\ promise' = [promise EXCEPT ![c] = "rejected"]
    /\ chan' = [chan EXCEPT ![c] = ShutChannel(@)]
    /\ up' = [up EXCEPT ![c] = upNow]
    /\ pc' = [pc EXCEPT ![c] = "done"]
    /\ UNCHANGED <<mode, retry, result, client, wired, sessions, ledger>>

\* runGrammar's catch: rejectUp closes the channel waiting on upstreamPromise
\* with a message and the record is finished.  When no channel request ever
\* attached a handler to upstreamPromise the rejection is unhandled.
FailGrammar(c, reason, upNow) ==
    /\ mode[c] = "grammar"
    /\ \/ /\ chan[c] \in {"none", "refused"}
          /\ Crash(c, Failed(event[c], reason))
       \/ /\ chan[c] \notin {"none", "refused"}
          /\ AwaitWrite(c, Failed(event[c], reason), "failing")
          /\ promise' = [promise EXCEPT ![c] = "rejected"]
          /\ chan' = [chan EXCEPT ![c] = ShutChannel(@)]
          /\ up' = [up EXCEPT ![c] = upNow]
          /\ UNCHANGED <<mode, retry, client, wired, sessions, bumps>>

\* runTuiSession's finishFail; some callers close the picker's channel first.
FailTui(c, reason, upNow, chanNow, promiseNow) ==
    /\ mode[c] = "tui"
    /\ AwaitWrite(c, Failed(event[c], reason), "failing")
    /\ up' = [up EXCEPT ![c] = upNow]
    /\ chan' = [chan EXCEPT ![c] = chanNow]
    /\ promise' = [promise EXCEPT ![c] = promiseNow]
    /\ UNCHANGED <<mode, retry, client, wired, sessions, bumps>>

\* An error with no reason of its own: recorded as 'error' in grammar mode,
\* not caught at all in picker mode.
FailUnnamed(c) ==
    \/ FailGrammar(c, "error", up[c])
    \/ mode[c] = "tui" /\ Throw(c)

\* Mutant: a failure is recorded and never counted.
FailRecordedUncounted(c) ==
    /\ pc[c] = "failing"
    /\ Throw(c)

\* record.finish has answered: count the failure, or give up.
FailRecorded(c) ==
    /\ pc[c] = "failing"
    /\ \/ /\ result[c] = "ok"
          /\ AwaitBump(c, "fail", "bumpFail")
          /\ UNCHANGED <<mode, retry, inbound, upstream, sessions, event, stored>>
       \/ result[c] = "err" /\ Throw(c)

\* metrics.bump has answered.  finishFail ends the client; runGrammar leaves it
\* connected unless the bump failed.
FailCounted(c) ==
    /\ pc[c] = "bumpFail"
    /\ \/ (mode[c] = "tui" \/ result[c] = "err") /\ Throw(c)
       \/ /\ mode[c] = "grammar" /\ result[c] = "ok"
          /\ pc' = [pc EXCEPT ![c] = "done"]
          /\ UNCHANGED <<mode, retry, result, inbound, upstream, sessions, ledger>>

(***************************************************************************)
(* Admission                                                               *)
(***************************************************************************)

\* A TCP connection arrives; handleAuth answers its attempts (module Login).
Connect(c) ==
    /\ pc[c] = "idle"
    /\ pc' = [pc EXCEPT ![c] = "auth"]
    /\ client' = [client EXCEPT ![c] = "open"]
    /\ UNCHANGED <<mode, retry, result, chan, promise, upstream, sessions, ledger>>

\* onReady, right after an accepted attempt: the cap compares the sessions
\* already registered, not the ones on their way.
Ready(c) ==
    /\ pc[c] = "auth" /\ client[c] = "open"
    /\ \E m \in {"grammar", "tui"} : mode' = [mode EXCEPT ![c] = m]
    /\ \/ /\ Cardinality(sessions) >= MaxSessions
          /\ pc' = [pc EXCEPT ![c] = "refused"]
          /\ client' = [client EXCEPT ![c] = End(@)]
       \/ /\ Cardinality(sessions) < MaxSessions
          /\ pc' = [pc EXCEPT ![c] = "session"]
          /\ UNCHANGED client
    /\ UNCHANGED <<retry, result, chan, promise, upstream, sessions, ledger>>

\* The first 'session' event: listeners are attached and audit.create begins.
OpenSession(c) ==
    /\ pc[c] = "session" /\ client[c] = "open"
    /\ AwaitWrite(c, NewEvent, "creating")
    /\ UNCHANGED <<mode, retry, inbound, upstream, sessions, bumps>>

(***************************************************************************)
(* Resolving the target                                                    *)
(***************************************************************************)

\* audit.create has answered.  It is outside both handlers' try blocks.
Created(c) ==
    /\ pc[c] = "creating"
    /\ \/ /\ result[c] = "ok"
          /\ pc' = [pc EXCEPT ![c] = "hosts"]
          /\ UNCHANGED <<mode, retry, result, inbound, upstream, sessions, ledger>>
       \/ result[c] = "err" /\ Throw(c)

\* record.patch of the target that was chosen.
Chosen(c) == AwaitWrite(c, event[c], "patching")

\* accessibleHosts has answered in grammar mode: matchTarget, whose exception
\* carries a code and no reason, then hostEndpoint.
HostsForGrammar(c) ==
    /\ pc[c] = "hosts" /\ mode[c] = "grammar"
    /\ \/ FailGrammar(c, "directory-unreachable", up[c])
       \/ FailGrammar(c, "error", up[c])          \* nothing matches the target
       \/ FailGrammar(c, "no-address", up[c])
       \/ /\ Chosen(c)
          /\ UNCHANGED <<mode, retry, inbound, upstream, sessions, bumps>>

\* accessibleHosts has answered in picker mode.  A client whose exec request
\* was turned away has already settled tuiPromise with no host.
HostsForTui(c) ==
    /\ pc[c] = "hosts" /\ mode[c] = "tui"
    /\ \/ FailTui(c, "directory-unreachable", up[c], ShutChannel(chan[c]), "rejected")
       \/ \E list \in {"resolved", "empty"} :
             \/ chan[c] = "refused" /\ FailTui(c, "cancelled", up[c], chan[c], list)
             \/ /\ chan[c] # "refused"
                /\ pc' = [pc EXCEPT ![c] = "picker"]
                /\ promise' = [promise EXCEPT ![c] = list]
                /\ UNCHANGED <<mode, retry, result, client, chan, upstream, sessions, ledger>>

\* The user picks a listed host.  No check here that it has an address: one that
\* has none is dialed all the same.
PickHost(c) ==
    /\ pc[c] = "picker" /\ promise[c] = "resolved" /\ chan[c] = "waiting"
    /\ Chosen(c)
    /\ chan' = [chan EXCEPT ![c] = "picked"]
    /\ UNCHANGED <<mode, retry, client, promise, upstream, sessions, bumps>>

\* q or Ctrl-C.
QuitPicker(c) ==
    /\ pc[c] = "picker" /\ promise[c] = "resolved" /\ chan[c] = "waiting"
    /\ FailTui(c, "cancelled", up[c], "closed", promise[c])

\* With no host to list, pickHost resolves with null after 50ms.
EmptyPicker(c) ==
    /\ pc[c] = "picker" /\ promise[c] = "empty" /\ chan[c] \in {"waiting", "closed"}
    /\ FailTui(c, "cancelled", up[c], "closed", promise[c])

(***************************************************************************)
(* Reaching the host                                                       *)
(***************************************************************************)

\* The patch of the target has answered.
Targeted(c) ==
    /\ pc[c] = "patching"
    /\ \/ /\ result[c] = "ok"
          /\ pc' = [pc EXCEPT ![c] = "injecting"]
          /\ UNCHANGED <<mode, retry, result, inbound, upstream, sessions, ledger>>
       \/ result[c] = "err" /\ FailUnnamed(c)

\* ensureKeyInjected (module KeyInject) or getSignedCert has answered; dial.
Credentialed(c) ==
    /\ pc[c] = "injecting"
    /\ \/ \E justInjected \in (IF UsePki THEN {FALSE} ELSE BOOLEAN) :
             /\ retry' = [retry EXCEPT ![c] = justInjected]
             /\ pc' = [pc EXCEPT ![c] = "dialing"]
             /\ up' = [up EXCEPT ![c] = "dialing"]
             /\ UNCHANGED <<mode, result, inbound, wired, sessions, ledger>>
       \/ FailGrammar(c, CredentialFailure, up[c])
       \/ FailTui(c, CredentialFailure, up[c], chan[c], promise[c])

\* hostVerifier: onHostKey patches the record, unawaited.
HostKey(c) ==
    /\ pc[c] = "dialing" /\ up[c] = "dialing"
    /\ \/ /\ WriteUnawaited(c, event[c])
          /\ up' = [up EXCEPT ![c] = "keyed"]
          /\ UNCHANGED <<control, inbound, wired, sessions, bumps>>
       \/ c \in Refusing /\ Crash(c, event[c])

\* Mutant: resolveUp as soon as the host answers, before the record is patched.
UpstreamReadyEager(c) ==
    /\ pc[c] = "dialing" /\ up[c] = "keyed"
    /\ up' = [up EXCEPT ![c] = "open"]
    /\ sessions' = sessions \cup {c}
    /\ promise' = [promise EXCEPT ![c] = "resolved"]
    /\ AwaitWrite(c, Succeeded(event[c]), "registered")
    /\ retry' = [retry EXCEPT ![c] = FALSE]
    /\ UNCHANGED <<mode, client, chan, wired, bumps>>

\* 'ready' resolves connectUpstream, which will not dial again: the session is
\* registered, then the record is marked successful.
UpstreamReady(c) ==
    /\ pc[c] = "dialing" /\ up[c] = "keyed"
    /\ up' = [up EXCEPT ![c] = "open"]
    /\ sessions' = sessions \cup {c}
    /\ AwaitWrite(c, Succeeded(event[c]), "registered")
    /\ retry' = [retry EXCEPT ![c] = FALSE]
    /\ UNCHANGED <<mode, inbound, wired, bumps>>

\* 'error' before ready: an authentication failure right after an injection
\* earns one more dial, two seconds later; anything else rejects.
DialError(c) ==
    /\ pc[c] = "dialing"
    /\ \/ /\ retry[c] /\ up[c] = "keyed"
          /\ pc' = [pc EXCEPT ![c] = "redial"]
          /\ up' = [up EXCEPT ![c] = "none"]
          /\ retry' = [retry EXCEPT ![c] = FALSE]
          /\ UNCHANGED <<mode, result, inbound, wired, sessions, ledger>>
       \/ FailGrammar(c, "upstream-unreachable", "closed")
       \/ FailTui(c, "upstream-unreachable", "closed", ShutChannel(chan[c]), promise[c])

Redial(c) ==
    /\ pc[c] = "redial"
    /\ pc' = [pc EXCEPT ![c] = "dialing"]
    /\ up' = [up EXCEPT ![c] = "dialing"]
    /\ UNCHANGED <<mode, retry, result, inbound, wired, sessions, ledger>>

(***************************************************************************)
(* Bridging                                                                *)
(***************************************************************************)

\* The patch of success has answered.
SuccessRecorded(c) ==
    /\ pc[c] = "registered"
    /\ \/ /\ result[c] = "ok"
          /\ AwaitBump(c, "success", "counting")
          /\ UNCHANGED <<mode, retry, inbound, upstream, sessions, event, stored>>
       \/ result[c] = "err" /\ FailUnnamed(c)

\* The success is counted.  runGrammar resolves upstreamPromise and wires the
\* teardown; runTuiSession asks the host for a shell first.
SuccessCounted(c) ==
    /\ pc[c] = "counting"
    /\ \/ /\ result[c] = "ok" /\ mode[c] = "grammar"
          /\ promise' = [promise EXCEPT ![c] = "resolved"]
          /\ wired' = [wired EXCEPT ![c] = TRUE]
          /\ pc' = [pc EXCEPT ![c] = "done"]
          /\ UNCHANGED <<mode, retry, result, client, chan, up, sessions, ledger>>
       \/ /\ result[c] = "ok" /\ mode[c] = "tui"
          /\ pc' = [pc EXCEPT ![c] = "shell"]
          /\ UNCHANGED <<mode, retry, result, inbound, upstream, sessions, ledger>>
       \/ result[c] = "err" /\ FailUnnamed(c)

\* bridgeShellChannel has answered, and the teardown is wired either way.
ShellAnswered(c) ==
    /\ pc[c] = "shell"
    /\ \/ /\ up[c] = "open"
          /\ WriteUnawaited(c, event[c])
          /\ chan' = [chan EXCEPT ![c] = Bridge(@)]
          /\ wired' = [wired EXCEPT ![c] = TRUE]
          /\ pc' = [pc EXCEPT ![c] = "done"]
          /\ UNCHANGED <<mode, retry, result, client, promise, up, sessions, bumps>>
       \/ up[c] = "open" /\ c \in Refusing /\ Crash(c, event[c])
       \/ /\ chan' = [chan EXCEPT ![c] = ShutChannel(@)]
          /\ wired' = [wired EXCEPT ![c] = TRUE]
          /\ pc' = [pc EXCEPT ![c] = "done"]
          /\ UNCHANGED <<mode, retry, result, client, promise, up, sessions, ledger>>

\* attachSession's withUpstream in grammar mode: the upstream channel opens and
\* the two are piped, or it does not and the inbound one is closed.
ChannelAnswered(c) ==
    /\ mode[c] = "grammar" /\ chan[c] = "waiting" /\ promise[c] = "resolved"
    /\ \/ /\ up[c] = "open"
          /\ WriteUnawaited(c, event[c])
          /\ chan' = [chan EXCEPT ![c] = "bridged"]
          /\ UNCHANGED <<control, client, promise, upstream, sessions, bumps>>
       \/ up[c] = "open" /\ c \in Refusing /\ Crash(c, event[c])
       \/ /\ chan' = [chan EXCEPT ![c] = "closed"]
          /\ UNCHANGED <<control, client, promise, upstream, sessions, ledger>>

(***************************************************************************)
(* The client and the downstream host                                      *)
(***************************************************************************)

InSession(c) == pc[c] \notin {"idle", "auth", "refused", "session", "dead"}

\* A request attachSession or runTui serves: it waits for the promise, and
\* finds out at once when that has been rejected.
RequestChannel(c) ==
    /\ InSession(c) /\ client[c] = "open"
    /\ chan[c] = "none" \/ (chan[c] = "refused" /\ mode[c] = "grammar")
    /\ chan' = [chan EXCEPT ![c] = IF promise[c] = "rejected" THEN "closed" ELSE "waiting"]
    /\ UNCHANGED <<control, client, promise, upstream, sessions, ledger>>

\* A request that is turned away: a subsystem other than sftp in grammar mode,
\* anything but a shell in picker mode, where it also cancels the picker.
RequestRefused(c) ==
    /\ InSession(c) /\ client[c] = "open" /\ chan[c] = "none"
    /\ \/ mode[c] = "tui" /\ pc[c] = "picker" /\ FailTui(c, "cancelled", up[c], "refused", promise[c])
       \/ /\ ~(mode[c] = "tui" /\ pc[c] = "picker")
          /\ chan' = [chan EXCEPT ![c] = "refused"]
          /\ UNCHANGED <<control, client, promise, upstream, sessions, ledger>>

\* Mutant: the client's 'close' frees the registry entry itself.
ClientClosesFreesEntry(c) ==
    /\ client[c] \in {"open", "ended"}
    /\ client' = [client EXCEPT ![c] = "closed"]
    /\ chan' = [chan EXCEPT ![c] = ShutChannel(@)]
    /\ up' = [up EXCEPT ![c] = IF wired[c] /\ @ = "open" THEN "ending" ELSE @]
    /\ sessions' = IF wired[c] THEN sessions \ {c} ELSE sessions
    /\ UNCHANGED <<control, promise, wired, ledger>>

\* Mutant: the client's 'close' does not end the upstream.
ClientClosesKeepsUpstream(c) ==
    /\ client[c] \in {"open", "ended"}
    /\ client' = [client EXCEPT ![c] = "closed"]
    /\ chan' = [chan EXCEPT ![c] = ShutChannel(@)]
    /\ UNCHANGED <<control, promise, upstream, sessions, ledger>>

\* The inbound transport closes, at the client's wish or after client.end().
\* wireTeardown's listener, once attached, ends the upstream.
ClientCloses(c) ==
    /\ client[c] \in {"open", "ended"}
    /\ client' = [client EXCEPT ![c] = "closed"]
    /\ chan' = [chan EXCEPT ![c] = ShutChannel(@)]
    /\ up' = [up EXCEPT ![c] = IF wired[c] /\ @ = "open" THEN "ending" ELSE @]
    /\ UNCHANGED <<control, promise, wired, sessions, ledger>>

\* The upstream's 'close': wireTeardown's listener, once attached, removes the
\* registry entry and finishes the record, unawaited.
UpstreamCloses(c) ==
    /\ up[c] \in {"open", "ending"}
    /\ \/ /\ wired[c]
          /\ sessions' = sessions \ {c}
          /\ WriteUnawaited(c, Ended(event[c]))
          /\ up' = [up EXCEPT ![c] = "closed"]
          /\ chan' = [chan EXCEPT ![c] = Unbridge(@)]
          /\ UNCHANGED <<control, client, promise, wired, bumps>>
       \/ wired[c] /\ c \in Refusing /\ Crash(c, Ended(event[c]))
       \/ /\ ~wired[c]
          /\ up' = [up EXCEPT ![c] = "closed"]
          /\ UNCHANGED <<control, inbound, wired, sessions, ledger>>

(***************************************************************************)
(* Specification                                                           *)
(***************************************************************************)

\* A handler resuming once what it awaits has answered.
Handler(c) ==
    \/ Created(c) \/ HostsForGrammar(c) \/ HostsForTui(c) \/ EmptyPicker(c)
    \/ Targeted(c) \/ Credentialed(c)
    \/ HostKey(c) \/ UpstreamReady(c) \/ DialError(c) \/ Redial(c)
    \/ SuccessRecorded(c) \/ SuccessCounted(c) \/ ShellAnswered(c) \/ ChannelAnswered(c)
    \/ FailRecorded(c) \/ FailCounted(c)

\* What the client does.
Client(c) ==
    \/ Connect(c) \/ Ready(c) \/ OpenSession(c)
    \/ PickHost(c) \/ QuitPicker(c)
    \/ RequestChannel(c) \/ RequestRefused(c) \/ ClientCloses(c)

Next == \E c \in Conns : Handler(c) \/ Client(c) \/ UpstreamCloses(c)

\* Redis, the directory, LDAP and the dial all answer one way or another
\* (readyTimeout bounds the dial); an end() that was sent closes the transport.
\* Nothing makes a client or a downstream host act.
Fairness ==
    \A c \in Conns :
        /\ WF_vars(Handler(c))
        /\ WF_vars(client[c] = "ended" /\ ClientCloses(c))
        /\ WF_vars(up[c] = "ending" /\ UpstreamCloses(c))

Spec == Init /\ [][Next]_vars

FairSpec == Spec /\ Fairness

(***************************************************************************)
(* Properties                                                              *)
(***************************************************************************)

TypeOK ==
    /\ pc \in [Conns -> PCs]
    /\ mode \in [Conns -> {"grammar", "tui"}]
    /\ client \in [Conns -> {"none", "open", "ended", "closed"}]
    /\ chan \in [Conns -> Chans]
    /\ promise \in [Conns -> Promises]
    /\ up \in [Conns -> Ups]
    /\ retry \in [Conns -> BOOLEAN]
    /\ wired \in [Conns -> BOOLEAN]
    /\ sessions \subseteq Conns
    /\ event \in [Conns -> Events]
    /\ stored \in [Conns -> Events]
    /\ result \in [Conns -> {"ok", "err"}]
    /\ bumps \in [Conns -> [Kinds -> Nat]]

\* User bytes flow only for a session the operators can already see: it is in
\* the registry, Redis has its record as an open success, and its upstream is
\* the one the record is about.  (runGrammar and runTuiSession both await the
\* success patch before they let a channel through.)
AuditedBeforeBridged ==
    \A c \in Conns : chan[c] = "bridged" =>
        /\ c \in sessions
        /\ stored[c].stage = "open" /\ stored[c].success
        /\ up[c] = "open"

\* However the success patch, the failure path, the teardown and a dying process
\* interleave, the record of an attempt in Redis takes the course AttemptRecord
\* describes: a reason with a refusal and none with a success, a success taken
\* back only where Redis refused a command, and nothing new once it is closed.
AuditRow(e) == [stage |-> e.stage, success |-> e.success, blamed |-> e.reason # ""]

Audit == INSTANCE AttemptRecord WITH row <- [c \in Conns |-> AuditRow(stored[c])]

VerdictStands == Audit!Spec

\* Every upstream connection that is up is in the registry, so that it shows in
\* GET /api/sessions and weighs on the cap, whatever became of its handler.
UpstreamsAccountedFor ==
    \A c \in Conns : up[c] \in {"open", "ending"} => c \in sessions

\* With Redis answering it, each attempt whose handler has returned was counted
\* exactly once, on the side its audit record is on.
MetricsMatchAudit ==
    \A c \in Conns \ Refusing : pc[c] = "done" /\ event[c].stage # "none" =>
        /\ bumps[c]["success"] + bumps[c]["fail"] = 1
        /\ bumps[c]["success"] = 1 <=> event[c].success
        /\ stored[c] = event[c]

\* A shell, exec or sftp request made in grammar mode is never left hanging: it
\* is bridged or closed whatever fails on the way to the host.
ChannelServed ==
    \A c \in Conns : (mode[c] = "grammar" /\ chan[c] = "waiting") ~> (chan[c] # "waiting")

\* Once the teardown is wired on two open transports, the client going away
\* takes the registry entry with it.
BridgeTornDown ==
    \A c \in Conns :
        []((wired[c] /\ up[c] = "open" /\ client[c] \in {"open", "ended"})
            => [](client[c] = "closed" => <>(c \notin sessions)))

\* The picker is up to its user: hosts are listed, or no shell was asked for.
AtThePicker(c) == pc[c] = "picker" /\ (promise[c] = "resolved" \/ chan[c] = "none")

\* With Redis answering it, an open record comes to a verdict, whatever the target,
\* the credential, the dial or the one redial do -- unless the process goes down with
\* it, or it is left to the user of the picker, who may be gone (README).
VerdictReached ==
    \A c \in Conns \ Refusing : event[c].stage = "open"
        ~> (event[c].success \/ event[c].stage = "ended" \/ pc[c] = "dead" \/ AtThePicker(c))

=============================================================================
