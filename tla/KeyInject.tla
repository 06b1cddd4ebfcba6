----------------------------- MODULE KeyInject -----------------------------
(***************************************************************************)
(* utils/key_inject.js and the one retry of services/bridge.js: how the    *)
(* gateway's public key gets into a user's sshPublicKey attribute, and who *)
(* is let in meanwhile.                                                    *)
(*                                                                         *)
(* One user, any number of connections.  The facts live in three places    *)
(* that are read and written at different times: a Redis flag, the LDAP    *)
(* attribute, and the keys a downstream host has cached.  Each action is   *)
(* one round trip to one of them, with the local code that follows it.     *)
(***************************************************************************)
EXTENDS Naturals

CONSTANTS
    Logins,      \* connections of the user
    MaxRemovals, \* bound: times somebody takes the key out of LDAP
    MayFail      \* whether Redis, LDAP and the network may fail

ASSUME MaxRemovalsAssumption == MaxRemovals \in Nat
ASSUME MayFailAssumption == MayFail \in BOOLEAN

VARIABLES
    pc,       \* the round trip each connection waits for
    knows,    \* whether the user read at authentication had the key
    retry,    \* connectUpstream's allowRetry
    flag,     \* jump_host_injected_<uid> in Redis
    ldap,     \* whether sshPublicKey holds the gateway's line
    served,   \* whether the downstream host's SSSD cache has it
    removals  \* how often somebody took it, or the account, away

injectVars == <<pc, knows, retry, flag, ldap, served, removals>>

PCs == {"idle", "asking", "adding", "flagging", "dialing", "clearing", "pause",
        "in", "denied", "failed"}

Settled == {"in", "denied", "failed"}

InjectInit ==
    /\ pc = [c \in Logins |-> "idle"]
    /\ knows = [c \in Logins |-> FALSE]
    /\ retry = [c \in Logins |-> FALSE]
    /\ flag = FALSE
    /\ ldap \in BOOLEAN       \* a gateway reinstalled next to an old directory
    /\ served = ldap
    /\ removals = 0

Goto(c, label) == pc' = [pc EXCEPT ![c] = label]

\* handleAuth's getUser: the snapshot ensureKeyInjected will look at.
Authenticate(c) ==
    /\ pc[c] = "idle"
    /\ Goto(c, "asking")
    /\ knows' = [knows EXCEPT ![c] = ldap]
    /\ UNCHANGED <<retry, flag, ldap, served, removals>>

\* Mutant: the flag goes up before the key is in.
CheckFlagEager(c) ==
    /\ pc[c] = "asking"
    /\ \/ flag /\ Goto(c, "dialing")
       \/ ~flag /\ knows[c] /\ Goto(c, "flagging")
       \/ ~flag /\ ~knows[c] /\ Goto(c, "adding")
    /\ flag' = TRUE
    /\ UNCHANGED <<knows, retry, ldap, served, removals>>

\* redis.get(flagKey): dial at once, or make sure of the key first.
CheckFlag(c) ==
    /\ pc[c] = "asking"
    /\ \/ flag /\ Goto(c, "dialing")
       \/ ~flag /\ knows[c] /\ Goto(c, "flagging")
       \/ ~flag /\ ~knows[c] /\ Goto(c, "adding")
    /\ UNCHANGED <<knows, retry, flag, ldap, served, removals>>

\* addSshKey(user.dn, publicLine); a duplicate is no error, and neither is, in
\* standalone mode, an account that is gone.  (There a list of keys is read and
\* written back; those who do so at once write the same line of the gateway.)
AddKey(c) ==
    /\ pc[c] = "adding"
    /\ ldap' = TRUE \/ (removals > 0 /\ UNCHANGED ldap)
    /\ Goto(c, "flagging")
    /\ UNCHANGED <<knows, retry, flag, served, removals>>

\* redis.set(flagKey, '1'), and return !already.
SetFlag(c) ==
    /\ pc[c] = "flagging"
    /\ flag' = TRUE
    /\ retry' = [retry EXCEPT ![c] = ~knows[c]]
    /\ Goto(c, "dialing")
    /\ UNCHANGED <<knows, ldap, served, removals>>

\* A round trip of ensureKeyInjected fails, before or after it took effect.
InjectFails(c) ==
    /\ MayFail
    /\ \/ pc[c] = "asking" /\ UNCHANGED <<flag, ldap>>
       \/ pc[c] = "adding" /\ ldap' \in {ldap, TRUE} /\ UNCHANGED flag
       \/ pc[c] = "flagging" /\ flag' \in {flag, TRUE} /\ UNCHANGED ldap
    /\ Goto(c, "failed")
    /\ UNCHANGED <<knows, retry, served, removals>>

\* The host accepts the key it serves.  An authentication error right after an
\* injection clears the flag and pauses; any other ends the attempt.
Dial(c) ==
    /\ pc[c] = "dialing"
    /\ \/ served /\ Goto(c, "in")
       \/ ~served /\ retry[c] /\ Goto(c, "clearing")
       \/ ~served /\ ~retry[c] /\ Goto(c, "denied")
       \/ MayFail /\ Goto(c, "failed")
    /\ UNCHANGED <<knows, retry, flag, ldap, served, removals>>

\* Mutant: the handler goes on to reject(err) after clearing.
ClearFlagRejects(c) ==
    /\ pc[c] = "clearing"
    /\ flag' = FALSE
    /\ Goto(c, "denied")
    /\ UNCHANGED <<knows, retry, ldap, served, removals>>

\* clearInjectedFlag(uid).catch(() => {}).
ClearFlag(c) ==
    /\ pc[c] = "clearing"
    /\ flag' = FALSE \/ (MayFail /\ UNCHANGED flag)
    /\ Goto(c, "pause")
    /\ UNCHANGED <<knows, retry, ldap, served, removals>>

\* Mutant: dial(allowRetry) where the code says dial(false).
RedialAgain(c) ==
    /\ pc[c] = "pause"
    /\ Goto(c, "dialing")
    /\ UNCHANGED <<knows, retry, flag, ldap, served, removals>>

\* setTimeout(() => dial(false), 2000).
Redial(c) ==
    /\ pc[c] = "pause"
    /\ retry' = [retry EXCEPT ![c] = FALSE]
    /\ Goto(c, "dialing")
    /\ UNCHANGED <<knows, flag, ldap, served, removals>>

\* The host's SSSD looks the user up again.
RefreshCache ==
    /\ served' = ldap
    /\ UNCHANGED <<pc, knows, retry, flag, ldap, removals>>

\* Somebody edits the user in the directory and drops the gateway's key, or drops
\* the account.
RemoveKey ==
    /\ removals < MaxRemovals
    /\ ldap' = FALSE
    /\ removals' = removals + 1
    /\ UNCHANGED <<pc, knows, retry, flag, served>>

Step(c) ==
    \/ CheckFlag(c) \/ AddKey(c) \/ SetFlag(c) \/ InjectFails(c)
    \/ Dial(c) \/ ClearFlag(c) \/ Redial(c)

InjectNext == (\E c \in Logins : Authenticate(c) \/ Step(c)) \/ RefreshCache \/ RemoveKey

InjectSpec == InjectInit /\ [][InjectNext]_injectVars

\* Round trips answer and timers fire.  Nobody must log in, nothing bounds how
\* long a host keeps its cache.
InjectFairSpec == InjectSpec /\ \A c \in Logins : WF_injectVars(Step(c))

(***************************************************************************)
(* Properties                                                              *)
(***************************************************************************)

InjectTypeOK ==
    /\ pc \in [Logins -> PCs]
    /\ knows \in [Logins -> BOOLEAN]
    /\ retry \in [Logins -> BOOLEAN]
    /\ flag \in BOOLEAN /\ ldap \in BOOLEAN /\ served \in BOOLEAN
    /\ removals \in 0 .. MaxRemovals

\* While nobody takes the key or the account away, the flag never says it is there when
\* it is not, and no connection of the user is dialed without it -- whatever
\* fails, and however the user's first connections interleave.  (The code sets
\* the flag only after addSshKey answered, or after a snapshot that had the key.)
InjectedBeforeDialed ==
    removals = 0 =>
        /\ flag => ldap
        /\ \A c \in Logins : pc[c] \in {"dialing", "clearing", "pause", "in"} => ldap

\* The retry is worth it: a first dial that came too early is followed by one
\* that gets in, once the host serves the key and it stays -- the network may
\* fail, but the user is not turned away.
RetryPaysOff ==
    \A c \in Logins :
        (pc[c] = "clearing" /\ served /\ ldap /\ removals = MaxRemovals)
            ~> (pc[c] \in {"in", "failed"})

\* An attempt comes to an end even if the host never serves the key: a failed
\* second dial is not followed by a third.
AttemptSettles == \A c \in Logins : (pc[c] = "asking") ~> (pc[c] \in Settled)

=============================================================================
