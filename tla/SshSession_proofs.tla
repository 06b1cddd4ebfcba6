-------------------------- MODULE SshSession_proofs -------------------------
(***************************************************************************)
(* Theorems about SshSession, for every set of connections, every cap, and *)
(* whether or not Redis may fail.                                          *)
(***************************************************************************)
EXTENDS SshSession, TLAPS

\* Handler positions from the first write of the record to the ready upstream.
Attempting == {"creating", "hosts", "picker", "patching", "injecting", "dialing", "redial"}

\* A record that does not contradict itself.
Sound(e) ==
    /\ e.success => e.reason = ""
    /\ e.stage = "ended" /\ ~e.success => e.reason # ""

LiveEvent(e) == e.stage = "open" /\ e.success /\ e.reason = ""

\* What holds of one connection between any two steps.
ConnInv(c) ==
    /\ Sound(event[c]) /\ Sound(stored[c])
    /\ pc[c] \in {"idle", "auth"} => promise[c] = "pending"
    /\ pc[c] \in Attempting => event[c] = NewEvent
    /\ pc[c] \in {"registered", "counting", "shell"} => LiveEvent(event[c])
    /\ (pc[c] \in {"counting", "shell"} \/ (pc[c] = "registered" /\ result[c] = "ok"))
          => stored[c] = event[c]
    /\ wired[c] => pc[c] = "done" /\ event[c].reason = ""
    /\ wired[c] /\ up[c] \in {"open", "ending"} => LiveEvent(event[c]) /\ stored[c] = event[c]
    /\ chan[c] = "bridged" => wired[c] /\ up[c] = "open"
    /\ mode[c] = "grammar" /\ promise[c] = "resolved" => wired[c] \/ pc[c] = "dead"
    /\ pc[c] = "dead" => /\ chan[c] \notin {"waiting", "picked", "bridged"}
                         /\ up[c] \in {"none", "closed"}
    /\ up[c] \in {"open", "ending"} => c \in sessions

IInv == TypeOK /\ \A c \in Conns : ConnInv(c)

-----------------------------------------------------------------------------
(* Types                                                                   *)

\* Every event the code builds is an event, and counting keeps counters.
LEMMA EventType ==
    ASSUME NEW e \in Events
    PROVE  /\ NoEvent \in Events /\ NewEvent \in Events
           /\ Succeeded(e) \in Events /\ Ended(e) \in Events
           /\ \A reason \in Reasons : Failed(e, reason) \in Events
BY DEF Events, NoEvent, NewEvent, Succeeded, Ended, Failed

LEMMA CountedType ==
    ASSUME NEW b \in [Kinds -> Nat], NEW kind \in Kinds
    PROVE  Counted(b, kind) \in [Kinds -> Nat]
BY DEF Counted

LEMMA ShutType ==
    ASSUME NEW s \in Chans
    PROVE  ShutChannel(s) \in Chans /\ Bridge(s) \in Chans /\ Unbridge(s) \in Chans
BY DEF Chans, ShutChannel, Bridge, Unbridge

\* The steps that actions share keep the types of what they touch.
LEMMA AwaitWriteType ==
    ASSUME TypeOK, NEW c \in Conns, NEW e \in Events, NEW next \in PCs, AwaitWrite(c, e, next)
    PROVE  /\ pc' \in [Conns -> PCs]
           /\ result' \in [Conns -> {"ok", "err"}]
           /\ event' \in [Conns -> Events]
           /\ stored' \in [Conns -> Events]
BY DEF TypeOK, AwaitWrite, Write, Outcomes

LEMMA AwaitBumpType ==
    ASSUME TypeOK, NEW c \in Conns, NEW kind \in Kinds, NEW next \in PCs, AwaitBump(c, kind, next)
    PROVE  /\ pc' \in [Conns -> PCs]
           /\ result' \in [Conns -> {"ok", "err"}]
           /\ bumps' \in [Conns -> [Kinds -> Nat]]
<1>1. Counted(bumps[c], kind) \in [Kinds -> Nat]
    BY CountedType DEF TypeOK
<1> QED BY <1>1 DEF TypeOK, AwaitBump, Outcomes

LEMMA CrashType ==
    ASSUME TypeOK, NEW c \in Conns, NEW e \in Events, Crash(c, e)
    PROVE  TypeOK'
BY DEF TypeOK, Crash, ShutChannel, PCs, Chans, Ups

LEMMA ThrowType ==
    ASSUME TypeOK, NEW c \in Conns, Throw(c)
    PROVE  TypeOK'
BY DEF TypeOK, Throw, End, PCs, ledger, upstream

LEMMA FailGrammarType ==
    ASSUME TypeOK, NEW c \in Conns, NEW reason \in Reasons, NEW upNow \in Ups,
           FailGrammar(c, reason, upNow)
    PROVE  TypeOK'
<1>1. Failed(event[c], reason) \in Events
    BY EventType DEF TypeOK
<1>2. CASE chan[c] \in {"none", "refused"}
    BY <1>1, <1>2, CrashType DEF FailGrammar
<1>3. CASE chan[c] \notin {"none", "refused"}
    <2>1. AwaitWrite(c, Failed(event[c], reason), "failing")
        BY <1>3 DEF FailGrammar
    <2>2. "failing" \in PCs /\ "rejected" \in Promises /\ ShutChannel(chan[c]) \in Chans
        BY ShutType DEF PCs, Promises, TypeOK
    <2>3. /\ pc' \in [Conns -> PCs] /\ result' \in [Conns -> {"ok", "err"}]
          /\ event' \in [Conns -> Events] /\ stored' \in [Conns -> Events]
        BY <1>1, <2>1, <2>2, AwaitWriteType
    <2>4. /\ promise' = [promise EXCEPT ![c] = "rejected"]
          /\ chan' = [chan EXCEPT ![c] = ShutChannel(@)]
          /\ up' = [up EXCEPT ![c] = upNow]
          /\ UNCHANGED <<mode, retry, client, wired, sessions, bumps>>
        BY <1>3 DEF FailGrammar
    <2> QED BY <2>2, <2>3, <2>4 DEF TypeOK
<1> QED BY <1>2, <1>3

LEMMA FailTuiType ==
    ASSUME TypeOK, NEW c \in Conns, NEW reason \in Reasons, NEW upNow \in Ups,
           NEW chanNow \in Chans, NEW promiseNow \in Promises,
           FailTui(c, reason, upNow, chanNow, promiseNow)
    PROVE  TypeOK'
<1>1. Failed(event[c], reason) \in Events
    BY EventType DEF TypeOK
<1> QED BY <1>1, AwaitWriteType DEF TypeOK, FailTui, PCs

LEMMA FailUnnamedType ==
    ASSUME TypeOK, NEW c \in Conns, FailUnnamed(c)
    PROVE  TypeOK'
BY FailGrammarType, ThrowType DEF FailUnnamed, TypeOK, Reasons

LEMMA TypeStep == TypeOK /\ [Next]_vars => TypeOK'
<1> SUFFICES ASSUME TypeOK, [Next]_vars PROVE TypeOK'
    OBVIOUS
<1>1. CASE UNCHANGED vars
    BY <1>1 DEF TypeOK, vars, control, inbound, upstream, ledger
<1>2. ASSUME NEW c \in Conns, Handler(c) PROVE TypeOK'
  <2>1. CASE Created(c)
    <3>1. CASE Throw(c)
        BY <3>1, ThrowType
    <3>2. CASE ~Throw(c)
        BY <2>1, <3>2 DEF Created, TypeOK, PCs, inbound, upstream, ledger
    <3> QED BY <3>1, <3>2
  <2>2. CASE HostsForGrammar(c)
    <3>1. ASSUME NEW reason \in Reasons, FailGrammar(c, reason, up[c]) PROVE TypeOK'
        BY <3>1, FailGrammarType DEF TypeOK
    <3>2. CASE Chosen(c) /\ UNCHANGED <<mode, retry, inbound, upstream, sessions, bumps>>
      <4>1. "patching" \in PCs /\ event[c] \in Events
          BY DEF PCs, TypeOK
      <4> QED BY <3>2, <4>1, AwaitWriteType DEF Chosen, TypeOK, inbound, upstream
    <3> QED BY <2>2, <3>1, <3>2 DEF HostsForGrammar, Reasons
  <2>3. CASE HostsForTui(c)
    <3>1. chan[c] \in Chans /\ ShutChannel(chan[c]) \in Chans /\ up[c] \in Ups
        BY ShutType DEF TypeOK
    <3>2. CASE FailTui(c, "directory-unreachable", up[c], ShutChannel(chan[c]), "rejected")
        BY <3>1, <3>2, FailTuiType DEF Reasons, Promises
    <3>3. ASSUME NEW list \in {"resolved", "empty"}, FailTui(c, "cancelled", up[c], chan[c], list)
          PROVE  TypeOK'
        BY <3>1, <3>3, FailTuiType DEF Reasons, Promises
    <3>4. ASSUME NEW list \in {"resolved", "empty"},
                 pc' = [pc EXCEPT ![c] = "picker"], promise' = [promise EXCEPT ![c] = list],
                 UNCHANGED <<mode, retry, result, client, chan, upstream, sessions, ledger>>
          PROVE  TypeOK'
        BY <3>4 DEF TypeOK, PCs, Promises, upstream, ledger
    <3> QED BY <2>3, <3>2, <3>3, <3>4 DEF HostsForTui
  <2>4. CASE EmptyPicker(c)
      BY <2>4, FailTuiType
      DEF EmptyPicker, TypeOK, PCs, Chans, Promises, Ups, Kinds, Reasons,
          ShutChannel, End, control, inbound, upstream, ledger
  <2>5. CASE Targeted(c)
    <3>1. CASE FailUnnamed(c)
        BY <3>1, FailUnnamedType
    <3>2. CASE ~FailUnnamed(c)
        BY <2>5, <3>2 DEF Targeted, TypeOK, PCs, inbound, upstream, ledger
    <3> QED BY <3>1, <3>2
  <2>6. CASE Credentialed(c)
    <3>1. CredentialFailure \in Reasons
        BY DEF CredentialFailure, Reasons
    <3>2. CASE FailGrammar(c, CredentialFailure, up[c])
        BY <3>1, <3>2, FailGrammarType DEF TypeOK
    <3>3. CASE FailTui(c, CredentialFailure, up[c], chan[c], promise[c])
        BY <3>1, <3>3, FailTuiType DEF TypeOK
    <3>4. CASE ~FailGrammar(c, CredentialFailure, up[c])
               /\ ~FailTui(c, CredentialFailure, up[c], chan[c], promise[c])
      <4>1. PICK justInjected \in BOOLEAN :
                /\ retry' = [retry EXCEPT ![c] = justInjected]
                /\ pc' = [pc EXCEPT ![c] = "dialing"]
                /\ up' = [up EXCEPT ![c] = "dialing"]
                /\ UNCHANGED <<mode, result, inbound, wired, sessions, ledger>>
          BY <2>6, <3>4 DEF Credentialed
      <4> QED BY <4>1 DEF TypeOK, PCs, Ups, inbound, ledger
    <3> QED BY <3>2, <3>3, <3>4
  <2>7. CASE HostKey(c)
    <3>1. event[c] \in Events
        BY DEF TypeOK
    <3>2. CASE Crash(c, event[c])
        BY <3>1, <3>2, CrashType
    <3>3. CASE ~Crash(c, event[c])
        BY <2>7, <3>1, <3>3 DEF HostKey, WriteUnawaited, TypeOK, Ups, control, inbound
    <3> QED BY <3>2, <3>3
  <2>8. CASE UpstreamReady(c)
      BY <2>8, AwaitWriteType, EventType
      DEF UpstreamReady, TypeOK, PCs, Chans, Promises, Ups, Kinds, Reasons,
          ShutChannel, End, control, inbound, upstream, ledger
  <2>9. CASE DialError(c)
    <3>1. ShutChannel(chan[c]) \in Chans
        BY ShutType DEF TypeOK
    <3>2. CASE FailGrammar(c, "upstream-unreachable", "closed")
        BY <3>2, FailGrammarType DEF Reasons, Ups
    <3>3. CASE FailTui(c, "upstream-unreachable", "closed", ShutChannel(chan[c]), promise[c])
        BY <3>1, <3>3, FailTuiType DEF TypeOK, Reasons, Ups
    <3>4. CASE ~FailGrammar(c, "upstream-unreachable", "closed")
               /\ ~FailTui(c, "upstream-unreachable", "closed", ShutChannel(chan[c]), promise[c])
        BY <2>9, <3>4 DEF DialError, TypeOK, PCs, Ups, inbound, ledger
    <3> QED BY <3>2, <3>3, <3>4
  <2>10. CASE Redial(c)
      BY <2>10
      DEF Redial, TypeOK, PCs, Chans, Promises, Ups, Kinds, Reasons,
          ShutChannel, End, control, inbound, upstream, ledger
  <2>11. CASE SuccessRecorded(c)
      BY <2>11, FailUnnamedType, AwaitBumpType
      DEF SuccessRecorded, TypeOK, PCs, Chans, Promises, Ups, Kinds, Reasons,
          ShutChannel, End, control, inbound, upstream, ledger
  <2>12. CASE SuccessCounted(c)
      BY <2>12, FailUnnamedType
      DEF SuccessCounted, TypeOK, PCs, Chans, Promises, Ups, Kinds, Reasons,
          ShutChannel, End, control, inbound, upstream, ledger
  <2>13. CASE ShellAnswered(c)
    <3>1. event[c] \in Events /\ ShutChannel(chan[c]) \in Chans /\ Bridge(chan[c]) \in Chans
        BY ShutType DEF TypeOK
    <3>2. CASE Crash(c, event[c])
        BY <3>1, <3>2, CrashType
    <3>3. CASE /\ WriteUnawaited(c, event[c])
               /\ chan' = [chan EXCEPT ![c] = Bridge(@)]
               /\ wired' = [wired EXCEPT ![c] = TRUE]
               /\ pc' = [pc EXCEPT ![c] = "done"]
               /\ UNCHANGED <<mode, retry, result, client, promise, up, sessions, bumps>>
        BY <3>1, <3>3 DEF WriteUnawaited, TypeOK, PCs
    <3>4. CASE /\ chan' = [chan EXCEPT ![c] = ShutChannel(@)]
               /\ wired' = [wired EXCEPT ![c] = TRUE]
               /\ pc' = [pc EXCEPT ![c] = "done"]
               /\ UNCHANGED <<mode, retry, result, client, promise, up, sessions, ledger>>
        BY <3>1, <3>4 DEF TypeOK, PCs, ledger
    <3> QED BY <2>13, <3>2, <3>3, <3>4 DEF ShellAnswered
  <2>14. CASE ChannelAnswered(c)
    <3>1. event[c] \in Events
        BY DEF TypeOK
    <3>2. CASE Crash(c, event[c])
        BY <3>1, <3>2, CrashType
    <3>3. CASE ~Crash(c, event[c])
        BY <2>14, <3>1, <3>3
        DEF ChannelAnswered, WriteUnawaited, TypeOK, Chans, control, upstream,
            ledger
    <3> QED BY <3>2, <3>3
  <2>15. CASE FailRecorded(c)
      BY <2>15, ThrowType, AwaitBumpType
      DEF FailRecorded, TypeOK, PCs, Chans, Promises, Ups, Kinds, Reasons,
          ShutChannel, End, control, inbound, upstream, ledger
  <2>16. CASE FailCounted(c)
      BY <2>16, ThrowType
      DEF FailCounted, TypeOK, PCs, Chans, Promises, Ups, Kinds, Reasons,
          ShutChannel, End, control, inbound, upstream, ledger
  <2> QED
    BY <1>2, <2>1, <2>2, <2>3, <2>4, <2>5, <2>6, <2>7, <2>8, <2>9, <2>10, <2>11,
       <2>12, <2>13, <2>14, <2>15, <2>16
    DEF Handler
<1>3. ASSUME NEW c \in Conns, Client(c) PROVE TypeOK'
  <2>1. CASE Connect(c)
      BY <2>1
      DEF Connect, TypeOK, PCs, Chans, Promises, Ups, Kinds, Reasons,
          ShutChannel, End, control, inbound, upstream, ledger
  <2>2. CASE Ready(c)
    <3>1. /\ \E m \in {"grammar", "tui"} : mode' = [mode EXCEPT ![c] = m]
          /\ \E next \in {"refused", "session"} : pc' = [pc EXCEPT ![c] = next]
          /\ client' = [client EXCEPT ![c] = End(@)] \/ client' = client
          /\ UNCHANGED <<retry, result, chan, promise, upstream, sessions, ledger>>
        BY <2>2 DEF Ready
    <3>2. mode' \in [Conns -> {"grammar", "tui"}]
        BY <3>1 DEF TypeOK
    <3>3. pc' \in [Conns -> PCs]
        BY <3>1 DEF TypeOK, PCs
    <3>4. client' \in [Conns -> {"none", "open", "ended", "closed"}]
        BY <3>1 DEF TypeOK, End
    <3> QED BY <3>1, <3>2, <3>3, <3>4 DEF TypeOK, upstream, ledger
  <2>3. CASE OpenSession(c)
      BY <2>3, AwaitWriteType, EventType
      DEF OpenSession, TypeOK, PCs, Chans, Promises, Ups, Kinds, Reasons,
          ShutChannel, End, control, inbound, upstream, ledger
  <2>4. CASE PickHost(c)
    <3>1. /\ AwaitWrite(c, event[c], "patching")
          /\ chan' = [chan EXCEPT ![c] = "picked"]
          /\ UNCHANGED <<mode, retry, client, promise, upstream, sessions, bumps>>
        BY <2>4 DEF PickHost, Chosen
    <3>2. "patching" \in PCs /\ event[c] \in Events
        BY DEF PCs, TypeOK
    <3> QED BY <3>1, <3>2, AwaitWriteType DEF TypeOK, Chans, upstream
  <2>5. CASE QuitPicker(c)
      BY <2>5, FailTuiType
      DEF QuitPicker, TypeOK, PCs, Chans, Promises, Ups, Kinds, Reasons,
          ShutChannel, End, control, inbound, upstream, ledger
  <2>6. CASE RequestChannel(c)
      BY <2>6
      DEF RequestChannel, TypeOK, PCs, Chans, Promises, Ups, Kinds, Reasons,
          ShutChannel, End, control, inbound, upstream, ledger
  <2>7. CASE RequestRefused(c)
    <3>1. CASE FailTui(c, "cancelled", up[c], "refused", promise[c])
        BY <3>1, FailTuiType DEF TypeOK, Reasons, Chans
    <3>2. CASE ~FailTui(c, "cancelled", up[c], "refused", promise[c])
        BY <2>7, <3>2 DEF RequestRefused, TypeOK, Chans, control, upstream, ledger
    <3> QED BY <3>1, <3>2
  <2>8. CASE ClientCloses(c)
      BY <2>8
      DEF ClientCloses, TypeOK, PCs, Chans, Promises, Ups, Kinds, Reasons,
          ShutChannel, End, control, inbound, upstream, ledger
  <2> QED BY <1>3, <2>1, <2>2, <2>3, <2>4, <2>5, <2>6, <2>7, <2>8 DEF Client
<1>4. ASSUME NEW c \in Conns, UpstreamCloses(c) PROVE TypeOK'
  <2>1. Ended(event[c]) \in Events /\ Unbridge(chan[c]) \in Chans
      BY EventType, ShutType DEF TypeOK
  <2>2. CASE Crash(c, Ended(event[c]))
      BY <2>1, <2>2, CrashType
  <2>3. CASE ~Crash(c, Ended(event[c]))
    <3>1. CASE wired[c]
      <4>1. /\ sessions' = sessions \ {c}
            /\ event' = [event EXCEPT ![c] = Ended(event[c])]
            /\ stored' = [stored EXCEPT ![c] = Ended(event[c])]
            /\ up' = [up EXCEPT ![c] = "closed"]
            /\ chan' = [chan EXCEPT ![c] = Unbridge(@)]
            /\ UNCHANGED <<control, client, promise, wired, bumps>>
          BY <1>4, <2>3, <3>1 DEF UpstreamCloses, WriteUnawaited
      <4> QED BY <2>1, <4>1 DEF TypeOK, Ups, control
    <3>2. CASE ~wired[c]
        BY <1>4, <3>2 DEF UpstreamCloses, TypeOK, Ups, control, inbound, ledger
    <3> QED BY <3>1, <3>2
  <2> QED BY <2>2, <2>3
<1> QED BY <1>1, <1>2, <1>3, <1>4 DEF Next

-----------------------------------------------------------------------------
(* The invariant                                                           *)

\* A step of one connection leaves every other one as it was.
Untouched(d) ==
    /\ pc'[d] = pc[d] /\ mode'[d] = mode[d] /\ result'[d] = result[d]
    /\ chan'[d] = chan[d] /\ promise'[d] = promise[d]
    /\ up'[d] = up[d] /\ wired'[d] = wired[d]
    /\ event'[d] = event[d] /\ stored'[d] = stored[d]
    /\ d \in sessions => d \in sessions'

LEMMA UntouchedInv ==
    ASSUME NEW d \in Conns, ConnInv(d), Untouched(d)
    PROVE  ConnInv(d)'
BY DEF ConnInv, Untouched

LEMMA SoundEvents ==
    ASSUME NEW e \in Events
    PROVE  /\ \A reason \in Reasons : Sound(Failed(e, reason))
           /\ e.reason = "" => Sound(Ended(e)) /\ Sound(Succeeded(e))
           /\ Sound(NoEvent) /\ Sound(NewEvent)
BY DEF Events, Sound, Failed, Ended, Succeeded, NoEvent, NewEvent, Reasons

LEMMA LiveEvents ==
    /\ LiveEvent(Succeeded(NewEvent)) /\ Sound(Succeeded(NewEvent))
    /\ \A e \in Events : LiveEvent(e) => /\ Sound(e) /\ e.reason = ""
                                        /\ Sound(Ended(e)) /\ Ended(e).reason = ""
BY DEF LiveEvent, Events, Sound, Succeeded, Ended, NewEvent

LEMMA CrashInv ==
    ASSUME IInv, NEW c \in Conns, NEW e \in Events, pc[c] # "idle", Sound(e), Crash(c, e)
    PROVE  \A d \in Conns : ConnInv(d)'
<1> SUFFICES ASSUME NEW d \in Conns PROVE ConnInv(d)'
    OBVIOUS
<1>1. /\ pc'[d] = IF pc[d] = "idle" THEN "idle" ELSE "dead"
      /\ chan'[d] \notin {"waiting", "picked", "bridged"}
      /\ up'[d] \in {"none", "closed"}
      /\ ~wired'[d]
      /\ promise'[d] = promise[d] /\ mode'[d] = mode[d]
    BY DEF Crash, ShutChannel, IInv, TypeOK
<1>2. Sound(event[d]) /\ Sound(stored[d])
    BY DEF IInv, ConnInv
<1>3. /\ event' = [event EXCEPT ![c] = e]
      /\ stored' = stored \/ stored' = [stored EXCEPT ![c] = e]
    BY DEF Crash
<1>4. /\ Sound(event'[d]) /\ Sound(stored'[d])
      /\ pc[d] = "idle" => event'[d] = event[d]
    BY <1>2, <1>3 DEF IInv, TypeOK
<1> QED BY <1>1, <1>4 DEF IInv, ConnInv, Attempting

LEMMA ThrowInv ==
    ASSUME IInv, NEW c \in Conns, pc[c] # "dead", Throw(c)
    PROVE  \A d \in Conns : ConnInv(d)'
<1>1. \A d \in Conns \ {c} : Untouched(d)
    BY DEF Throw, Untouched, IInv, TypeOK, upstream, ledger
<1>2. ConnInv(c)'
    BY DEF Throw, IInv, TypeOK, ConnInv, Attempting, Sound, LiveEvent, upstream, ledger
<1> QED BY <1>1, <1>2, UntouchedInv DEF IInv

LEMMA FailGrammarInv ==
    ASSUME IInv, NEW c \in Conns, NEW reason \in Reasons, NEW upNow \in {up[c], "closed"},
           pc[c] \notin {"idle", "done", "dead"}, FailGrammar(c, reason, upNow)
    PROVE  \A d \in Conns : ConnInv(d)'
<1>1. Failed(event[c], reason) \in Events /\ Sound(Failed(event[c], reason))
    BY EventType, SoundEvents DEF IInv, TypeOK
<1>2. CASE Crash(c, Failed(event[c], reason))
    BY <1>1, <1>2, CrashInv
<1>3. CASE ~Crash(c, Failed(event[c], reason))
  <2>1. /\ promise' = [promise EXCEPT ![c] = "rejected"]
        /\ chan' = [chan EXCEPT ![c] = ShutChannel(@)]
        /\ up' = [up EXCEPT ![c] = upNow]
        /\ AwaitWrite(c, Failed(event[c], reason), "failing")
        /\ UNCHANGED <<mode, retry, client, wired, sessions, bumps>>
      BY <1>3 DEF FailGrammar
  <2>2. \A d \in Conns \ {c} : Untouched(d)
      BY <2>1 DEF AwaitWrite, Write, Untouched, IInv, TypeOK
  <2>3. /\ pc'[c] = "failing" /\ promise'[c] = "rejected" /\ wired'[c] = wired[c]
        /\ chan'[c] # "bridged" /\ up'[c] \in {up[c], "closed"} /\ sessions' = sessions
      BY <2>1 DEF AwaitWrite, ShutChannel, IInv, TypeOK
  <2>4. Sound(stored[c]) /\ ~wired[c] /\ (up[c] \in {"open", "ending"} => c \in sessions)
      BY DEF IInv, ConnInv
  <2>5. /\ event' = [event EXCEPT ![c] = Failed(event[c], reason)]
        /\ stored' = stored \/ stored' = [stored EXCEPT ![c] = Failed(event[c], reason)]
      BY <2>1 DEF AwaitWrite, Write
  <2>6. Sound(event'[c]) /\ Sound(stored'[c])
      BY <1>1, <2>4, <2>5 DEF IInv, TypeOK
  <2>7. ConnInv(c)'
      BY <2>3, <2>4, <2>6 DEF ConnInv, Attempting
  <2> QED BY <2>2, <2>7, UntouchedInv DEF IInv
<1> QED BY <1>2, <1>3

LEMMA FailTuiInv ==
    ASSUME IInv, NEW c \in Conns, NEW reason \in Reasons, NEW upNow \in {up[c], "closed"},
           NEW chanNow \in Chans \ {"bridged"}, NEW promiseNow \in Promises,
           pc[c] \notin {"idle", "done", "dead"},
           FailTui(c, reason, upNow, chanNow, promiseNow)
    PROVE  \A d \in Conns : ConnInv(d)'
<1>1. Failed(event[c], reason) \in Events /\ Sound(Failed(event[c], reason))
    BY EventType, SoundEvents DEF IInv, TypeOK
<1>2. \A d \in Conns \ {c} : Untouched(d)
    BY DEF FailTui, AwaitWrite, Write, Untouched, IInv, TypeOK
<1>3. /\ pc'[c] = "failing" /\ mode'[c] = "tui" /\ wired'[c] = wired[c]
      /\ chan'[c] # "bridged" /\ up'[c] \in {up[c], "closed"} /\ sessions' = sessions
    BY DEF FailTui, AwaitWrite, IInv, TypeOK
<1>4. Sound(stored[c]) /\ ~wired[c] /\ (up[c] \in {"open", "ending"} => c \in sessions)
    BY DEF IInv, ConnInv
<1>5. /\ event' = [event EXCEPT ![c] = Failed(event[c], reason)]
      /\ stored' = stored \/ stored' = [stored EXCEPT ![c] = Failed(event[c], reason)]
    BY DEF FailTui, AwaitWrite, Write
<1>6. Sound(event'[c]) /\ Sound(stored'[c])
    BY <1>1, <1>4, <1>5 DEF IInv, TypeOK
<1>7. ConnInv(c)'
    BY <1>3, <1>4, <1>6 DEF ConnInv, Attempting
<1> QED BY <1>2, <1>7, UntouchedInv DEF IInv

LEMMA FailUnnamedInv ==
    ASSUME IInv, NEW c \in Conns, pc[c] \notin {"idle", "done", "dead"}, FailUnnamed(c)
    PROVE  \A d \in Conns : ConnInv(d)'
BY FailGrammarInv, ThrowInv DEF FailUnnamed, Reasons

\* What a step that awaits a write, or writes unawaited, leaves behind.
LEMMA AwaitWriteFacts ==
    ASSUME IInv, NEW c \in Conns, NEW e, NEW next, AwaitWrite(c, e, next)
    PROVE  /\ pc'[c] = next /\ event'[c] = e
           /\ stored'[c] = stored[c] \/ stored'[c] = e
           /\ result'[c] = "ok" => stored'[c] = e
           /\ \A d \in Conns \ {c} : /\ pc'[d] = pc[d] /\ result'[d] = result[d]
                                      /\ event'[d] = event[d] /\ stored'[d] = stored[d]
BY DEF AwaitWrite, Write, Outcomes, IInv, TypeOK

LEMMA WriteUnawaitedFacts ==
    ASSUME IInv, NEW c \in Conns, NEW e, WriteUnawaited(c, e)
    PROVE  /\ event'[c] = e /\ stored'[c] = e
           /\ \A d \in Conns \ {c} : event'[d] = event[d] /\ stored'[d] = stored[d]
BY DEF WriteUnawaited, IInv, TypeOK

\* What a step keeps of its own connection.
SameInbound(c) == mode'[c] = mode[c] /\ chan'[c] = chan[c] /\ promise'[c] = promise[c]
SameUpstream(c) == up'[c] = up[c] /\ wired'[c] = wired[c] /\ (c \in sessions => c \in sessions')
SameLedger(c) == event'[c] = event[c] /\ stored'[c] = stored[c]
Same(c) == SameInbound(c) /\ SameUpstream(c) /\ SameLedger(c)

LEMMA InvStep == IInv /\ [Next]_vars => \A d \in Conns : ConnInv(d)'
<1> SUFFICES ASSUME IInv, [Next]_vars PROVE \A d \in Conns : ConnInv(d)'
    OBVIOUS
<1> DEFINE Goal == \A d \in Conns : ConnInv(d)'
<1>1. CASE UNCHANGED vars
  <2>1. \A d \in Conns : Untouched(d)
      BY <1>1 DEF Untouched, vars, control, inbound, upstream, ledger
  <2> QED BY <2>1, UntouchedInv DEF IInv
<1>2. ASSUME NEW c \in Conns, Handler(c) PROVE Goal
  <2>1. CASE Created(c)
    <3>1. CASE Throw(c)
        BY <2>1, <3>1, ThrowInv DEF Created
    <3>2. CASE ~Throw(c)
      <4>1. \A d \in Conns \ {c} : Untouched(d)
          BY <2>1, <3>2
          DEF Created, Untouched, IInv, TypeOK, control, inbound, upstream,
              ledger
      <4>2. /\ pc[c] = "creating" /\ pc'[c] = "hosts" /\ Same(c)
          BY <2>1, <3>2
          DEF Created, IInv, TypeOK, control, inbound, upstream, ledger, Same,
              SameInbound, SameUpstream, SameLedger
      <4>3. ConnInv(c) /\ event[c] \in Events
          BY DEF IInv, TypeOK
      <4>4. ConnInv(c)'
          BY <4>2, <4>3
          DEF ConnInv, Attempting, Same, SameInbound, SameUpstream, SameLedger
      <4> QED BY <4>1, <4>4, UntouchedInv DEF IInv
    <3> QED BY <3>1, <3>2
  <2>2. CASE HostsForGrammar(c)
    <3>1. CASE \E reason \in Reasons : FailGrammar(c, reason, up[c])
        BY <2>2, <3>1, FailGrammarInv DEF HostsForGrammar
    <3>2. CASE ~(\E reason \in Reasons : FailGrammar(c, reason, up[c]))
      <4>1. \A d \in Conns \ {c} : Untouched(d)
          BY <2>2, <3>2, AwaitWriteFacts
          DEF HostsForGrammar, Chosen, Reasons, Untouched, IInv, TypeOK,
              control, inbound, upstream, ledger
      <4>2. /\ pc[c] = "hosts" /\ pc'[c] = "patching" /\ SameInbound(c) /\ SameUpstream(c)
            /\ event'[c] = event[c] /\ stored'[c] \in {stored[c], event[c]}
          BY <2>2, <3>2, AwaitWriteFacts
          DEF HostsForGrammar, Chosen, Reasons, IInv, TypeOK, control, inbound,
              upstream, ledger, Same, SameInbound, SameUpstream, SameLedger
      <4>3. ConnInv(c) /\ event[c] \in Events
          BY DEF IInv, TypeOK
      <4>4. ConnInv(c)'
          BY <4>2, <4>3
          DEF ConnInv, Attempting, Same, SameInbound, SameUpstream, SameLedger
      <4> QED BY <4>1, <4>4, UntouchedInv DEF IInv
    <3> QED BY <3>1, <3>2
  <2>3. CASE HostsForTui(c)
    <3>1. /\ pc[c] = "hosts" /\ mode[c] = "tui" /\ up[c] \in Ups
          /\ chan[c] \in Chans \ {"bridged"} /\ ShutChannel(chan[c]) \in Chans \ {"bridged"}
        BY <2>3 DEF HostsForTui, IInv, TypeOK, ConnInv, Chans, ShutChannel
    <3>2. CASE FailTui(c, "directory-unreachable", up[c], ShutChannel(chan[c]), "rejected")
        BY <3>1, <3>2, FailTuiInv DEF Reasons, Promises
    <3>3. ASSUME NEW list \in {"resolved", "empty"}, FailTui(c, "cancelled", up[c], chan[c], list)
          PROVE  Goal
        BY <3>1, <3>3, FailTuiInv DEF Reasons, Promises
    <3>4. ASSUME NEW list \in {"resolved", "empty"},
                 pc' = [pc EXCEPT ![c] = "picker"], promise' = [promise EXCEPT ![c] = list],
                 UNCHANGED <<mode, retry, result, client, chan, upstream, sessions, ledger>>
          PROVE  Goal
      <4>1. \A d \in Conns \ {c} : Untouched(d)
          BY <3>4 DEF Untouched, IInv, TypeOK, upstream, ledger
      <4>2. /\ pc'[c] = "picker" /\ mode'[c] = "tui" /\ chan'[c] = chan[c]
            /\ SameUpstream(c) /\ SameLedger(c)
          BY <3>1, <3>4 DEF IInv, TypeOK, upstream, ledger, SameUpstream, SameLedger
      <4>3. ConnInv(c)
          BY DEF IInv
      <4>4. ConnInv(c)'
          BY <3>1, <4>2, <4>3 DEF ConnInv, Attempting, SameUpstream, SameLedger
      <4> QED BY <4>1, <4>4, UntouchedInv DEF IInv
    <3> QED BY <2>3, <3>2, <3>3, <3>4 DEF HostsForTui
  <2>4. CASE EmptyPicker(c)
      BY <2>4, FailTuiInv DEF EmptyPicker, Reasons, Chans, IInv, TypeOK
  <2>5. CASE Targeted(c)
    <3>1. CASE FailUnnamed(c)
        BY <2>5, <3>1, FailUnnamedInv DEF Targeted
    <3>2. CASE ~FailUnnamed(c)
      <4>1. \A d \in Conns \ {c} : Untouched(d)
          BY <2>5, <3>2
          DEF Targeted, Untouched, IInv, TypeOK, control, inbound, upstream,
              ledger
      <4>2. /\ pc[c] = "patching" /\ pc'[c] = "injecting" /\ Same(c)
          BY <2>5, <3>2
          DEF Targeted, IInv, TypeOK, control, inbound, upstream, ledger, Same,
              SameInbound, SameUpstream, SameLedger
      <4>3. ConnInv(c) /\ event[c] \in Events
          BY DEF IInv, TypeOK
      <4>4. ConnInv(c)'
          BY <4>2, <4>3
          DEF ConnInv, Attempting, Same, SameInbound, SameUpstream, SameLedger
      <4> QED BY <4>1, <4>4, UntouchedInv DEF IInv
    <3> QED BY <3>1, <3>2
  <2>6. CASE Credentialed(c)
    <3>1. CASE FailGrammar(c, CredentialFailure, up[c])
        BY <2>6, <3>1, FailGrammarInv DEF Credentialed, CredentialFailure, Reasons
    <3>2. CASE FailTui(c, CredentialFailure, up[c], chan[c], promise[c])
      <4>1. chan[c] # "bridged"
          BY <2>6, <3>2 DEF Credentialed, FailTui, IInv, ConnInv
      <4> QED
        BY <2>6, <3>2, <4>1, FailTuiInv
        DEF Credentialed, CredentialFailure, Reasons, IInv, TypeOK
    <3>3. CASE /\ ~FailGrammar(c, CredentialFailure, up[c])
               /\ ~FailTui(c, CredentialFailure, up[c], chan[c], promise[c])
      <4>1. \A d \in Conns \ {c} : Untouched(d)
          BY <2>6, <3>3
          DEF Credentialed, Untouched, IInv, TypeOK, control, inbound, upstream,
              ledger
      <4>2. /\ pc[c] = "injecting" /\ pc'[c] = "dialing" /\ up'[c] = "dialing" /\ wired'[c] = wired[c]
            /\ SameInbound(c) /\ SameLedger(c)
          BY <2>6, <3>3
          DEF Credentialed, IInv, TypeOK, control, inbound, upstream, ledger,
              Same, SameInbound, SameUpstream, SameLedger
      <4>3. ConnInv(c) /\ event[c] \in Events
          BY DEF IInv, TypeOK
      <4>4. ConnInv(c)'
          BY <4>2, <4>3
          DEF ConnInv, Attempting, Same, SameInbound, SameUpstream, SameLedger
      <4> QED BY <4>1, <4>4, UntouchedInv DEF IInv
    <3> QED BY <3>1, <3>2, <3>3
  <2>7. CASE HostKey(c)
    <3>1. CASE Crash(c, event[c])
        BY <2>7, <3>1, CrashInv DEF HostKey, IInv, TypeOK, ConnInv
    <3>2. CASE ~Crash(c, event[c])
      <4>1. \A d \in Conns \ {c} : Untouched(d)
          BY <2>7, <3>2, WriteUnawaitedFacts
          DEF HostKey, Untouched, IInv, TypeOK, control, inbound, upstream,
              ledger
      <4>2. /\ pc[c] = "dialing" /\ pc'[c] = "dialing" /\ up'[c] = "keyed" /\ wired'[c] = wired[c]
            /\ SameInbound(c) /\ event'[c] = event[c] /\ stored'[c] = event[c]
          BY <2>7, <3>2, WriteUnawaitedFacts
          DEF HostKey, IInv, TypeOK, control, inbound, upstream, ledger, Same,
              SameInbound, SameUpstream, SameLedger
      <4>3. ConnInv(c) /\ event[c] \in Events
          BY DEF IInv, TypeOK
      <4>4. ConnInv(c)'
          BY <4>2, <4>3
          DEF ConnInv, Attempting, Same, SameInbound, SameUpstream, SameLedger
      <4> QED BY <4>1, <4>4, UntouchedInv DEF IInv
    <3> QED BY <3>1, <3>2
  <2>8. CASE UpstreamReady(c)
    <3>1. \A d \in Conns \ {c} : Untouched(d)
        BY <2>8, AwaitWriteFacts
        DEF UpstreamReady, Untouched, IInv, TypeOK, control, inbound, upstream,
            ledger
    <3>2. /\ pc[c] = "dialing" /\ pc'[c] = "registered" /\ c \in sessions'
          /\ wired'[c] = wired[c] /\ SameInbound(c)
          /\ event'[c] = Succeeded(event[c]) /\ stored'[c] \in {stored[c], event'[c]}
          /\ result'[c] = "ok" => stored'[c] = event'[c]
        BY <2>8, AwaitWriteFacts
        DEF UpstreamReady, IInv, TypeOK, control, inbound, upstream, ledger,
            Same, SameInbound, SameUpstream, SameLedger
    <3>3. ConnInv(c) /\ event[c] \in Events
        BY DEF IInv, TypeOK
    <3>4. ConnInv(c)'
        BY <3>2, <3>3, LiveEvents
        DEF ConnInv, Attempting, Same, SameInbound, SameUpstream, SameLedger
    <3> QED BY <3>1, <3>4, UntouchedInv DEF IInv
  <2>9. CASE DialError(c)
    <3>1. CASE FailGrammar(c, "upstream-unreachable", "closed")
        BY <2>9, <3>1, FailGrammarInv DEF DialError, Reasons
    <3>2. CASE FailTui(c, "upstream-unreachable", "closed", ShutChannel(chan[c]), promise[c])
        BY <2>9, <3>2, FailTuiInv DEF DialError, Reasons, IInv, TypeOK, ShutChannel, Chans
    <3>3. CASE /\ ~FailGrammar(c, "upstream-unreachable", "closed")
               /\ ~FailTui(c, "upstream-unreachable", "closed", ShutChannel(chan[c]), promise[c])
      <4>1. \A d \in Conns \ {c} : Untouched(d)
          BY <2>9, <3>3
          DEF DialError, Untouched, IInv, TypeOK, control, inbound, upstream,
              ledger
      <4>2. /\ pc[c] = "dialing" /\ pc'[c] = "redial" /\ up'[c] = "none" /\ wired'[c] = wired[c]
            /\ SameInbound(c) /\ SameLedger(c)
          BY <2>9, <3>3
          DEF DialError, IInv, TypeOK, control, inbound, upstream, ledger, Same,
              SameInbound, SameUpstream, SameLedger
      <4>3. ConnInv(c) /\ event[c] \in Events
          BY DEF IInv, TypeOK
      <4>4. ConnInv(c)'
          BY <4>2, <4>3
          DEF ConnInv, Attempting, Same, SameInbound, SameUpstream, SameLedger
      <4> QED BY <4>1, <4>4, UntouchedInv DEF IInv
    <3> QED BY <3>1, <3>2, <3>3
  <2>10. CASE Redial(c)
    <3>1. \A d \in Conns \ {c} : Untouched(d)
        BY <2>10 DEF Redial, Untouched, IInv, TypeOK, control, inbound, upstream, ledger
    <3>2. /\ pc[c] = "redial" /\ pc'[c] = "dialing" /\ up'[c] = "dialing" /\ wired'[c] = wired[c]
          /\ SameInbound(c) /\ SameLedger(c)
        BY <2>10
        DEF Redial, IInv, TypeOK, control, inbound, upstream, ledger, Same,
            SameInbound, SameUpstream, SameLedger
    <3>3. ConnInv(c) /\ event[c] \in Events
        BY DEF IInv, TypeOK
    <3>4. ConnInv(c)'
        BY <3>2, <3>3 DEF ConnInv, Attempting, Same, SameInbound, SameUpstream, SameLedger
    <3> QED BY <3>1, <3>4, UntouchedInv DEF IInv
  <2>11. CASE SuccessRecorded(c)
    <3>1. CASE FailUnnamed(c)
        BY <2>11, <3>1, FailUnnamedInv DEF SuccessRecorded
    <3>2. CASE ~FailUnnamed(c)
      <4>1. \A d \in Conns \ {c} : Untouched(d)
          BY <2>11, <3>2
          DEF SuccessRecorded, AwaitBump, Outcomes, Untouched, IInv, TypeOK,
              control, inbound, upstream, ledger
      <4>2. /\ pc[c] = "registered" /\ result[c] = "ok" /\ pc'[c] = "counting" /\ Same(c)
          BY <2>11, <3>2
          DEF SuccessRecorded, AwaitBump, Outcomes, IInv, TypeOK, control,
              inbound, upstream, ledger, Same, SameInbound, SameUpstream,
              SameLedger
      <4>3. ConnInv(c) /\ event[c] \in Events
          BY DEF IInv, TypeOK
      <4>4. ConnInv(c)'
          BY <4>2, <4>3
          DEF ConnInv, Attempting, Same, SameInbound, SameUpstream, SameLedger
      <4> QED BY <4>1, <4>4, UntouchedInv DEF IInv
    <3> QED BY <3>1, <3>2
  <2>12. CASE SuccessCounted(c)
    <3>1. CASE FailUnnamed(c)
        BY <2>12, <3>1, FailUnnamedInv DEF SuccessCounted
    <3>2. CASE ~FailUnnamed(c)
      <4>1. \A d \in Conns \ {c} : Untouched(d)
          BY <2>12, <3>2
          DEF SuccessCounted, Untouched, IInv, TypeOK, control, inbound,
              upstream, ledger
      <4>2. /\ pc[c] = "counting" /\ SameLedger(c) /\ chan'[c] = chan[c] /\ up'[c] = up[c]
            /\ mode'[c] = mode[c] /\ (c \in sessions => c \in sessions')
            /\ \/ pc'[c] = "done" /\ wired'[c]
               \/ pc'[c] = "shell" /\ wired'[c] = wired[c] /\ promise'[c] = promise[c]
          BY <2>12, <3>2
          DEF SuccessCounted, IInv, TypeOK, control, inbound, upstream, ledger,
              Same, SameInbound, SameUpstream, SameLedger
      <4>3. ConnInv(c) /\ event[c] \in Events
          BY DEF IInv, TypeOK
      <4>4. ConnInv(c)'
          BY <4>2, <4>3, LiveEvents
          DEF ConnInv, Attempting, Same, SameInbound, SameUpstream, SameLedger
      <4> QED BY <4>1, <4>4, UntouchedInv DEF IInv
    <3> QED BY <3>1, <3>2
  <2>13. CASE ShellAnswered(c)
    <3>1. CASE Crash(c, event[c])
        BY <2>13, <3>1, CrashInv DEF ShellAnswered, IInv, TypeOK, ConnInv
    <3>2. CASE ~Crash(c, event[c])
      <4>1. \A d \in Conns \ {c} : Untouched(d)
          BY <2>13, <3>2, WriteUnawaitedFacts
          DEF ShellAnswered, Bridge, ShutChannel, Untouched, IInv, TypeOK,
              control, inbound, upstream, ledger
      <4>2. /\ pc[c] = "shell" /\ pc'[c] = "done" /\ wired'[c] /\ up'[c] = up[c]
            /\ (c \in sessions => c \in sessions') /\ (chan'[c] = "bridged" => up[c] = "open" \/ chan[c] = "bridged")
            /\ event'[c] = event[c] /\ stored'[c] \in {stored[c], event[c]}
          BY <2>13, <3>2, WriteUnawaitedFacts
          DEF ShellAnswered, Bridge, ShutChannel, IInv, TypeOK, control,
              inbound, upstream, ledger, Same, SameInbound, SameUpstream,
              SameLedger
      <4>3. ConnInv(c) /\ event[c] \in Events
          BY DEF IInv, TypeOK
      <4>4. ConnInv(c)'
          BY <4>2, <4>3, LiveEvents
          DEF ConnInv, Attempting, Same, SameInbound, SameUpstream, SameLedger
      <4> QED BY <4>1, <4>4, UntouchedInv DEF IInv
    <3> QED BY <3>1, <3>2
  <2>14. CASE ChannelAnswered(c)
    <3>1. CASE Crash(c, event[c])
        BY <2>14, <3>1, CrashInv DEF ChannelAnswered, IInv, TypeOK, ConnInv
    <3>2. CASE ~Crash(c, event[c])
      <4>1. \A d \in Conns \ {c} : Untouched(d)
          BY <2>14, <3>2, WriteUnawaitedFacts
          DEF ChannelAnswered, Untouched, IInv, TypeOK, control, inbound,
              upstream, ledger
      <4>2. /\ mode[c] = "grammar" /\ promise[c] = "resolved" /\ chan[c] = "waiting" /\ pc'[c] = pc[c]
            /\ mode'[c] = mode[c] /\ promise'[c] = promise[c] /\ SameUpstream(c)
            /\ chan'[c] = "closed" \/ (chan'[c] = "bridged" /\ up[c] = "open")
            /\ event'[c] = event[c] /\ stored'[c] \in {stored[c], event[c]}
          BY <2>14, <3>2, WriteUnawaitedFacts
          DEF ChannelAnswered, IInv, TypeOK, control, inbound, upstream, ledger,
              Same, SameInbound, SameUpstream, SameLedger
      <4>3. ConnInv(c) /\ event[c] \in Events
          BY DEF IInv, TypeOK
      <4>4. ConnInv(c)'
          BY <4>2, <4>3
          DEF ConnInv, Attempting, Same, SameInbound, SameUpstream, SameLedger
      <4> QED BY <4>1, <4>4, UntouchedInv DEF IInv
    <3> QED BY <3>1, <3>2
  <2>15. CASE FailRecorded(c)
    <3>1. CASE Throw(c)
        BY <2>15, <3>1, ThrowInv DEF FailRecorded
    <3>2. CASE ~Throw(c)
      <4>1. \A d \in Conns \ {c} : Untouched(d)
          BY <2>15, <3>2
          DEF FailRecorded, AwaitBump, Outcomes, Untouched, IInv, TypeOK,
              control, inbound, upstream, ledger
      <4>2. /\ pc[c] = "failing" /\ pc'[c] = "bumpFail" /\ Same(c)
          BY <2>15, <3>2
          DEF FailRecorded, AwaitBump, Outcomes, IInv, TypeOK, control, inbound,
              upstream, ledger, Same, SameInbound, SameUpstream, SameLedger
      <4>3. ConnInv(c) /\ event[c] \in Events
          BY DEF IInv, TypeOK
      <4>4. ConnInv(c)'
          BY <4>2, <4>3
          DEF ConnInv, Attempting, Same, SameInbound, SameUpstream, SameLedger
      <4> QED BY <4>1, <4>4, UntouchedInv DEF IInv
    <3> QED BY <3>1, <3>2
  <2>16. CASE FailCounted(c)
    <3>1. CASE Throw(c)
        BY <2>16, <3>1, ThrowInv DEF FailCounted
    <3>2. CASE ~Throw(c)
      <4>1. \A d \in Conns \ {c} : Untouched(d)
          BY <2>16, <3>2
          DEF FailCounted, Untouched, IInv, TypeOK, control, inbound, upstream,
              ledger
      <4>2. /\ pc[c] = "bumpFail" /\ pc'[c] = "done" /\ Same(c)
          BY <2>16, <3>2
          DEF FailCounted, IInv, TypeOK, control, inbound, upstream, ledger,
              Same, SameInbound, SameUpstream, SameLedger
      <4>3. ConnInv(c) /\ event[c] \in Events
          BY DEF IInv, TypeOK
      <4>4. ConnInv(c)'
          BY <4>2, <4>3
          DEF ConnInv, Attempting, Same, SameInbound, SameUpstream, SameLedger
      <4> QED BY <4>1, <4>4, UntouchedInv DEF IInv
    <3> QED BY <3>1, <3>2
  <2> QED
    BY <1>2, <2>1, <2>2, <2>3, <2>4, <2>5, <2>6, <2>7, <2>8, <2>9, <2>10, <2>11,
       <2>12, <2>13, <2>14, <2>15, <2>16
    DEF Handler
<1>3. ASSUME NEW c \in Conns, Client(c) PROVE Goal
  <2>1. CASE Connect(c)
    <3>1. \A d \in Conns \ {c} : Untouched(d)
        BY <2>1 DEF Connect, Untouched, IInv, TypeOK, control, inbound, upstream, ledger
    <3>2. /\ pc[c] = "idle" /\ pc'[c] = "auth" /\ Same(c)
        BY <2>1
        DEF Connect, IInv, TypeOK, control, inbound, upstream, ledger, Same,
            SameInbound, SameUpstream, SameLedger
    <3>3. ConnInv(c) /\ event[c] \in Events
        BY DEF IInv, TypeOK
    <3>4. ConnInv(c)'
        BY <3>2, <3>3 DEF ConnInv, Attempting, Same, SameInbound, SameUpstream, SameLedger
    <3> QED BY <3>1, <3>4, UntouchedInv DEF IInv
  <2>2. CASE Ready(c)
    <3>1. \A d \in Conns \ {c} : Untouched(d)
        BY <2>2 DEF Ready, Untouched, IInv, TypeOK, control, inbound, upstream, ledger
    <3>2. /\ pc[c] = "auth" /\ pc'[c] \in {"refused", "session"} /\ chan'[c] = chan[c]
          /\ promise'[c] = promise[c] /\ SameUpstream(c) /\ SameLedger(c)
        BY <2>2
        DEF Ready, IInv, TypeOK, control, inbound, upstream, ledger, Same,
            SameInbound, SameUpstream, SameLedger
    <3>3. ConnInv(c) /\ event[c] \in Events
        BY DEF IInv, TypeOK
    <3>4. ConnInv(c)'
        BY <3>2, <3>3 DEF ConnInv, Attempting, Same, SameInbound, SameUpstream, SameLedger
    <3> QED BY <3>1, <3>4, UntouchedInv DEF IInv
  <2>3. CASE OpenSession(c)
    <3>1. \A d \in Conns \ {c} : Untouched(d)
        BY <2>3, AwaitWriteFacts
        DEF OpenSession, Untouched, IInv, TypeOK, control, inbound, upstream,
            ledger
    <3>2. /\ pc[c] = "session" /\ pc'[c] = "creating" /\ SameInbound(c) /\ SameUpstream(c)
          /\ event'[c] = NewEvent /\ stored'[c] \in {stored[c], NewEvent}
        BY <2>3, AwaitWriteFacts
        DEF OpenSession, IInv, TypeOK, control, inbound, upstream, ledger, Same,
            SameInbound, SameUpstream, SameLedger
    <3>3. ConnInv(c) /\ event[c] \in Events
        BY DEF IInv, TypeOK
    <3>4. ConnInv(c)'
        BY <3>2, <3>3, SoundEvents, EventType
        DEF ConnInv, Attempting, Same, SameInbound, SameUpstream, SameLedger
    <3> QED BY <3>1, <3>4, UntouchedInv DEF IInv
  <2>4. CASE PickHost(c)
    <3>1. \A d \in Conns \ {c} : Untouched(d)
        BY <2>4, AwaitWriteFacts
        DEF PickHost, Chosen, Untouched, IInv, TypeOK, control, inbound,
            upstream, ledger
    <3>2. /\ pc[c] = "picker" /\ pc'[c] = "patching" /\ mode'[c] = mode[c] /\ promise'[c] = promise[c]
          /\ chan'[c] = "picked" /\ SameUpstream(c)
          /\ event'[c] = event[c] /\ stored'[c] \in {stored[c], event[c]}
        BY <2>4, AwaitWriteFacts
        DEF PickHost, Chosen, IInv, TypeOK, control, inbound, upstream, ledger,
            Same, SameInbound, SameUpstream, SameLedger
    <3>3. ConnInv(c) /\ event[c] \in Events
        BY DEF IInv, TypeOK
    <3>4. ConnInv(c)'
        BY <3>2, <3>3 DEF ConnInv, Attempting, Same, SameInbound, SameUpstream, SameLedger
    <3> QED BY <3>1, <3>4, UntouchedInv DEF IInv
  <2>5. CASE QuitPicker(c)
      BY <2>5, FailTuiInv DEF QuitPicker, Reasons, Chans, IInv, TypeOK
  <2>6. CASE RequestChannel(c)
    <3>1. \A d \in Conns \ {c} : Untouched(d)
        BY <2>6
        DEF RequestChannel, InSession, Untouched, IInv, TypeOK, control,
            inbound, upstream, ledger
    <3>2. /\ pc[c] # "dead" /\ pc'[c] = pc[c] /\ mode'[c] = mode[c] /\ promise'[c] = promise[c] /\ result'[c] = result[c]
          /\ chan'[c] # "bridged" /\ SameUpstream(c) /\ SameLedger(c)
        BY <2>6
        DEF RequestChannel, InSession, IInv, TypeOK, control, inbound, upstream,
            ledger, Same, SameInbound, SameUpstream, SameLedger
    <3>3. ConnInv(c) /\ event[c] \in Events
        BY DEF IInv, TypeOK
    <3>4. ConnInv(c)'
        BY <3>2, <3>3 DEF ConnInv, Attempting, Same, SameInbound, SameUpstream, SameLedger
    <3> QED BY <3>1, <3>4, UntouchedInv DEF IInv
  <2>7. CASE RequestRefused(c)
    <3>1. CASE mode[c] = "tui" /\ pc[c] = "picker"
      <4>1. FailTui(c, "cancelled", up[c], "refused", promise[c])
          BY <2>7, <3>1 DEF RequestRefused
      <4> QED BY <3>1, <4>1, FailTuiInv DEF Reasons, IInv, TypeOK, Chans
    <3>2. CASE ~(mode[c] = "tui" /\ pc[c] = "picker")
      <4>1. \A d \in Conns \ {c} : Untouched(d)
          BY <2>7, <3>2
          DEF RequestRefused, InSession, Untouched, IInv, TypeOK, control,
              inbound, upstream, ledger
      <4>2. /\ pc[c] # "dead" /\ pc'[c] = pc[c] /\ mode'[c] = mode[c] /\ promise'[c] = promise[c] /\ result'[c] = result[c]
            /\ chan'[c] # "bridged" /\ SameUpstream(c) /\ SameLedger(c)
          BY <2>7, <3>2
          DEF RequestRefused, InSession, IInv, TypeOK, control, inbound,
              upstream, ledger, Same, SameInbound, SameUpstream, SameLedger
      <4>3. ConnInv(c) /\ event[c] \in Events
          BY DEF IInv, TypeOK
      <4>4. ConnInv(c)'
          BY <4>2, <4>3
          DEF ConnInv, Attempting, Same, SameInbound, SameUpstream, SameLedger
      <4> QED BY <4>1, <4>4, UntouchedInv DEF IInv
    <3> QED BY <3>1, <3>2
  <2>8. CASE ClientCloses(c)
    <3>1. \A d \in Conns \ {c} : Untouched(d)
        BY <2>8
        DEF ClientCloses, ShutChannel, Untouched, IInv, TypeOK, control,
            inbound, upstream, ledger
    <3>2. /\ pc'[c] = pc[c] /\ mode'[c] = mode[c] /\ promise'[c] = promise[c] /\ result'[c] = result[c]
          /\ chan'[c] \notin {"waiting", "picked", "bridged"}
          /\ up'[c] = up[c] \/ (up[c] = "open" /\ up'[c] = "ending")
          /\ wired'[c] = wired[c] /\ (c \in sessions => c \in sessions') /\ SameLedger(c)
        BY <2>8
        DEF ClientCloses, ShutChannel, IInv, TypeOK, control, inbound, upstream,
            ledger, Same, SameInbound, SameUpstream, SameLedger
    <3>3. ConnInv(c) /\ event[c] \in Events
        BY DEF IInv, TypeOK
    <3>4. ConnInv(c)'
        BY <3>2, <3>3 DEF ConnInv, Attempting, Same, SameInbound, SameUpstream, SameLedger
    <3> QED BY <3>1, <3>4, UntouchedInv DEF IInv
  <2> QED BY <1>3, <2>1, <2>2, <2>3, <2>4, <2>5, <2>6, <2>7, <2>8 DEF Client
<1>4. ASSUME NEW c \in Conns, UpstreamCloses(c) PROVE Goal
  <2>1. ConnInv(c) /\ event[c] \in Events /\ Ended(event[c]) \in Events
      BY EventType DEF IInv, TypeOK
  <2>2. up[c] \in {"open", "ending"} /\ pc[c] # "dead"
      BY <1>4, <2>1 DEF UpstreamCloses, ConnInv
  <2>3. CASE wired[c]
    <3>1. pc[c] = "done" /\ LiveEvent(event[c])
        BY <2>1, <2>2, <2>3 DEF ConnInv
    <3>2. CASE Crash(c, Ended(event[c]))
        BY <2>1, <3>1, <3>2, CrashInv, LiveEvents
    <3>3. CASE ~Crash(c, Ended(event[c]))
      <4>1. \A d \in Conns \ {c} : Untouched(d)
          BY <1>4, <2>3, <3>3, WriteUnawaitedFacts
          DEF UpstreamCloses, Untouched, IInv, TypeOK, control, inbound,
              upstream, ledger
      <4>2. /\ pc'[c] = pc[c] /\ mode'[c] = mode[c] /\ promise'[c] = promise[c]
            /\ up'[c] = "closed" /\ wired'[c] = wired[c] /\ chan'[c] # "bridged"
            /\ event'[c] = Ended(event[c]) /\ stored'[c] = Ended(event[c])
          BY <1>4, <2>3, <3>3, WriteUnawaitedFacts
          DEF UpstreamCloses, Unbridge, IInv, TypeOK, control, inbound,
              upstream, ledger, Same, SameInbound, SameUpstream, SameLedger
      <4>3. ConnInv(c)'
          BY <2>1, <2>3, <3>1, <4>2, LiveEvents DEF ConnInv, Attempting
      <4> QED BY <4>1, <4>3, UntouchedInv DEF IInv
    <3> QED BY <3>2, <3>3
  <2>4. CASE ~wired[c]
    <3>1. \A d \in Conns \ {c} : Untouched(d)
        BY <1>4, <2>4
        DEF UpstreamCloses, Untouched, IInv, TypeOK, control, inbound, upstream,
            ledger
    <3>2. /\ pc'[c] = pc[c] /\ result'[c] = result[c] /\ up'[c] = "closed"
          /\ wired'[c] = wired[c] /\ SameInbound(c) /\ SameLedger(c)
        BY <1>4, <2>4
        DEF UpstreamCloses, IInv, TypeOK, control, inbound, upstream, ledger,
            Same, SameInbound, SameUpstream, SameLedger
    <3>3. ConnInv(c)'
        BY <2>1, <2>4, <3>2
        DEF ConnInv, Attempting, Same, SameInbound, SameUpstream, SameLedger
    <3> QED BY <3>1, <3>3, UntouchedInv DEF IInv
  <2> QED BY <2>3, <2>4
<1> QED BY <1>1, <1>2, <1>3, <1>4 DEF Next

-----------------------------------------------------------------------------
(* Counting                                                                *)

\* What metrics.bump has counted for c.
Tally(c, succeeded, failed) ==
    bumps[c]["success"] = succeeded /\ bumps[c]["fail"] = failed

\* With Redis answering it, where c's handler is parked says what has been
\* counted, and memory and Redis hold the same record.
TallyInv(c) ==
    /\ result[c] = "ok"
    /\ pc[c] # "dead" => stored[c] = event[c]
    /\ pc[c] \in {"idle", "auth", "refused", "session", "registered", "failing"} \cup Attempting
          => Tally(c, 0, 0)
    /\ pc[c] \in {"counting", "shell"} => Tally(c, 1, 0)
    /\ pc[c] = "bumpFail" => Tally(c, 0, 1)
    /\ pc[c] \in {"failing", "bumpFail"} => ~event[c].success
    /\ pc[c] = "done" => \/ Tally(c, 1, 0) /\ event[c].success
                         \/ Tally(c, 0, 1) /\ ~event[c].success

TalliesInv == \A c \in Conns \ Refusing : TallyInv(c)

\* A step of another connection leaves c's handler and ledger alone, or takes
\* the process down.
LedgerKept(c) == event'[c] = event[c] /\ stored'[c] = stored[c] /\ bumps'[c] = bumps[c]
Spared(c) ==
    /\ result'[c] = result[c]
    /\ pc'[c] = "dead" \/ (pc'[c] = pc[c] /\ LedgerKept(c))

LEMMA SparedTally ==
    ASSUME NEW c \in Conns, TallyInv(c), Spared(c)
    PROVE  TallyInv(c)'
BY DEF TallyInv, Tally, Spared, LedgerKept, Attempting

\* Each step that actions share spares the others, and what it does to its own.
LEMMA CrashSpares ==
    ASSUME TypeOK, NEW c \in Conns, NEW e, pc[c] # "idle", Crash(c, e)
    PROVE  \A d \in Conns : Spared(d)
BY DEF Crash, Spared, LedgerKept, TypeOK

LEMMA ThrowSpares ==
    ASSUME TypeOK, NEW c \in Conns, Throw(c)
    PROVE  /\ \A d \in Conns \ {c} : Spared(d)
           /\ pc'[c] = "done" /\ result'[c] = result[c] /\ LedgerKept(c)
BY DEF Throw, Spared, LedgerKept, TypeOK, upstream, ledger

LEMMA AwaitWriteSpares ==
    ASSUME TypeOK, NEW c \in Conns, NEW e, NEW next, AwaitWrite(c, e, next), bumps' = bumps
    PROVE  /\ \A d \in Conns \ {c} : Spared(d)
           /\ pc'[c] = next /\ event'[c] = e /\ bumps'[c] = bumps[c]
           /\ c \notin Refusing => result'[c] = "ok" /\ stored'[c] = e
BY DEF AwaitWrite, Write, Outcomes, Spared, LedgerKept, TypeOK

LEMMA AwaitBumpSpares ==
    ASSUME TypeOK, NEW c \in Conns, NEW kind \in Kinds, NEW next, AwaitBump(c, kind, next),
           UNCHANGED <<event, stored>>
    PROVE  /\ \A d \in Conns \ {c} : Spared(d)
           /\ pc'[c] = next /\ event'[c] = event[c] /\ stored'[c] = stored[c]
           /\ c \notin Refusing => /\ result'[c] = "ok"
                                   /\ bumps'[c] = Counted(bumps[c], kind)
BY DEF AwaitBump, Outcomes, Spared, LedgerKept, TypeOK

LEMMA WriteUnawaitedSpares ==
    ASSUME TypeOK, NEW c \in Conns, NEW e, WriteUnawaited(c, e), UNCHANGED <<result, bumps>>,
           \A d \in Conns \ {c} : pc'[d] = pc[d]
    PROVE  /\ \A d \in Conns \ {c} : Spared(d)
           /\ event'[c] = e /\ stored'[c] = e
BY DEF WriteUnawaited, Spared, LedgerKept, TypeOK

\* What a step owes: the others are spared and its own tally stays right.
TallyKept(c) ==
    /\ \A d \in Conns \ {c} : Spared(d)
    /\ c \notin Refusing => TallyInv(c)'

LEMMA TallyCrash ==
    ASSUME IInv, TalliesInv, NEW c \in Conns, NEW e, pc[c] # "idle", Crash(c, e)
    PROVE  TallyKept(c)
BY CrashSpares, SparedTally DEF IInv, TalliesInv, TallyKept

\* Uncounted so far, the attempt is recorded as a failure.
LEMMA TallyFailing ==
    ASSUME IInv, TalliesInv, NEW c \in Conns, NEW reason \in Reasons,
           pc[c] \in Attempting, bumps' = bumps,
           AwaitWrite(c, Failed(event[c], reason), "failing")
    PROVE  TallyKept(c)
<1>1. ~Failed(event[c], reason).success
    BY DEF Failed
<1> QED BY <1>1, AwaitWriteSpares DEF IInv, TalliesInv, TallyInv, TallyKept, Tally, Attempting

LEMMA TallyFailGrammar ==
    ASSUME IInv, TalliesInv, NEW c \in Conns, NEW reason \in Reasons, NEW upNow,
           pc[c] \in Attempting, FailGrammar(c, reason, upNow)
    PROVE  TallyKept(c)
<1>1. pc[c] # "idle"
    BY DEF Attempting
<1> QED BY <1>1, TallyCrash, TallyFailing DEF FailGrammar

LEMMA TallyFailTui ==
    ASSUME IInv, TalliesInv, NEW c \in Conns, NEW reason \in Reasons, NEW upNow, NEW chanNow,
           NEW promiseNow, pc[c] \in Attempting, FailTui(c, reason, upNow, chanNow, promiseNow)
    PROVE  TallyKept(c)
BY TallyFailing DEF FailTui

\* Only a refused command leads to an error without a reason.
LEMMA TallyRefused ==
    ASSUME IInv, TalliesInv, NEW c \in Conns, result[c] = "err", pc[c] \notin {"idle", "dead"},
           FailUnnamed(c) \/ Throw(c)
    PROVE  TallyKept(c)
<1>1. c \in Refusing
    BY DEF TalliesInv, TallyInv
<1>2. \A d \in Conns \ {c} : Spared(d)
    BY CrashSpares, ThrowSpares, AwaitWriteSpares DEF FailUnnamed, FailGrammar, IInv
<1> QED BY <1>1, <1>2 DEF TallyKept

\* A step that parks the handler elsewhere before anything was counted, with
\* the ledger as it was.
LEMMA TallyMoves ==
    ASSUME IInv, TalliesInv, NEW c \in Conns, UNCHANGED <<result, event, stored, bumps>>,
           \A d \in Conns \ {c} : pc'[d] = pc[d],
           \/ pc'[c] = pc[c]
           \/ /\ pc[c] \in {"idle", "auth", "session"} \cup Attempting
              /\ pc'[c] \in {"auth", "refused", "session"} \cup Attempting
    PROVE  TallyKept(c)
BY DEF IInv, TalliesInv, TallyInv, TallyKept, Tally, Spared, LedgerKept, Attempting

\* Writing the record again, awaited or not, while nothing is counted.
LEMMA TallyRewrites ==
    ASSUME IInv, TalliesInv, NEW c \in Conns, UNCHANGED <<result, bumps>>,
           UNCHANGED pc, WriteUnawaited(c, event[c])
    PROVE  TallyKept(c)
BY WriteUnawaitedSpares DEF IInv, TalliesInv, TallyInv, TallyKept, Tally, Attempting

LEMMA TallyWrites ==
    ASSUME IInv, TalliesInv, NEW c \in Conns, pc[c] \in {"session"} \cup Attempting,
           NEW e \in Events, NEW next \in {"registered"} \cup Attempting,
           AwaitWrite(c, e, next), bumps' = bumps
    PROVE  TallyKept(c)
BY AwaitWriteSpares DEF IInv, TalliesInv, TallyInv, TallyKept, Tally, Attempting

LEMMA TallyHandler ==
    ASSUME IInv, TalliesInv, NEW c \in Conns, Handler(c)
    PROVE  TallyKept(c)
<1>0. ConnInv(c) /\ event[c] \in Events
    BY DEF IInv, TypeOK
<1>1. CASE Created(c)
  <2>1. CASE Throw(c) /\ result[c] = "err"
      BY <1>1, <2>1, TallyRefused DEF Created
  <2>2. CASE ~(Throw(c) /\ result[c] = "err")
      BY <1>1, <2>2, TallyMoves
      DEF Created, IInv, TypeOK, inbound, upstream, ledger, Attempting
  <2> QED BY <2>1, <2>2
<1>2. CASE HostsForGrammar(c)
  <2>1. pc[c] \in Attempting /\ "patching" \in Attempting
      BY <1>2 DEF HostsForGrammar, Attempting
  <2>2. \/ \E reason \in Reasons : FailGrammar(c, reason, up[c])
        \/ AwaitWrite(c, event[c], "patching") /\ bumps' = bumps
      BY <1>2 DEF HostsForGrammar, Chosen, Reasons
  <2> QED BY <1>0, <2>1, <2>2, TallyFailGrammar, TallyWrites
<1>3. CASE HostsForTui(c)
  <2>1. pc[c] \in Attempting /\ "picker" \in Attempting
      BY <1>3 DEF HostsForTui, Attempting
  <2>2. CASE \E reason \in Reasons : \E chanNow, promiseNow :
                FailTui(c, reason, up[c], chanNow, promiseNow)
      BY <2>1, <2>2, TallyFailTui
  <2>3. CASE /\ pc' = [pc EXCEPT ![c] = "picker"]
             /\ UNCHANGED <<result, event, stored, bumps>>
      BY <2>1, <2>3, TallyMoves DEF IInv, TypeOK
  <2> QED BY <1>3, <2>2, <2>3 DEF HostsForTui, Reasons, ledger
<1>4. CASE EmptyPicker(c)
    BY <1>4, TallyFailTui DEF EmptyPicker, Attempting, Reasons
<1>5. CASE Targeted(c)
  <2>1. CASE result[c] = "err" /\ FailUnnamed(c)
      BY <1>5, <2>1, TallyRefused DEF Targeted
  <2>2. CASE ~(result[c] = "err" /\ FailUnnamed(c))
      BY <1>5, <2>2, TallyMoves
      DEF Targeted, IInv, TypeOK, inbound, upstream, ledger, Attempting
  <2> QED BY <2>1, <2>2
<1>6. CASE Credentialed(c)
  <2>1. pc[c] \in Attempting /\ "dialing" \in Attempting /\ CredentialFailure \in Reasons
      BY <1>6 DEF Credentialed, Attempting, CredentialFailure, Reasons
  <2>2. CASE FailGrammar(c, CredentialFailure, up[c])
      BY <2>1, <2>2, TallyFailGrammar
  <2>3. CASE FailTui(c, CredentialFailure, up[c], chan[c], promise[c])
      BY <2>1, <2>3, TallyFailTui
  <2>4. CASE /\ pc' = [pc EXCEPT ![c] = "dialing"]
             /\ UNCHANGED <<result, event, stored, bumps>>
      BY <2>1, <2>4, TallyMoves DEF IInv, TypeOK
  <2> QED BY <1>6, <2>2, <2>3, <2>4 DEF Credentialed, ledger
<1>7. CASE HostKey(c)
  <2>1. CASE Crash(c, event[c])
      BY <1>7, <2>1, TallyCrash DEF HostKey
  <2>2. CASE ~Crash(c, event[c])
      BY <1>7, <2>2, TallyRewrites DEF HostKey, control
  <2> QED BY <2>1, <2>2
<1>8. CASE UpstreamReady(c)
    BY <1>0, <1>8, TallyWrites, EventType DEF UpstreamReady, Attempting
<1>9. CASE DialError(c)
  <2>1. pc[c] \in Attempting /\ "redial" \in Attempting
      BY <1>9 DEF DialError, Attempting
  <2>2. CASE FailGrammar(c, "upstream-unreachable", "closed")
      BY <2>1, <2>2, TallyFailGrammar DEF Reasons
  <2>3. CASE FailTui(c, "upstream-unreachable", "closed", ShutChannel(chan[c]), promise[c])
      BY <2>1, <2>3, TallyFailTui DEF Reasons
  <2>4. CASE /\ pc' = [pc EXCEPT ![c] = "redial"]
             /\ UNCHANGED <<result, event, stored, bumps>>
      BY <2>1, <2>4, TallyMoves DEF IInv, TypeOK
  <2> QED BY <1>9, <2>2, <2>3, <2>4 DEF DialError, ledger
<1>10. CASE Redial(c)
    BY <1>10, TallyMoves DEF Redial, IInv, TypeOK, ledger, Attempting
<1>11. CASE SuccessRecorded(c)
  <2>1. CASE result[c] = "err" /\ FailUnnamed(c)
      BY <1>11, <2>1, TallyRefused DEF SuccessRecorded
  <2>2. CASE AwaitBump(c, "success", "counting") /\ UNCHANGED <<event, stored>>
    <3>1. Counted(bumps[c], "success")["success"] = bumps[c]["success"] + 1
          /\ Counted(bumps[c], "success")["fail"] = bumps[c]["fail"]
        BY DEF Counted, Kinds
    <3> QED BY <1>11, <2>2, <3>1, AwaitBumpSpares
        DEF SuccessRecorded, IInv, TalliesInv, TallyInv, TallyKept, Tally, Attempting, Kinds
  <2> QED BY <1>11, <2>1, <2>2 DEF SuccessRecorded
<1>12. CASE SuccessCounted(c)
  <2>1. CASE result[c] = "err" /\ FailUnnamed(c)
      BY <1>12, <2>1, TallyRefused DEF SuccessCounted
  <2>2. ASSUME NEW next \in {"done", "shell"}, pc' = [pc EXCEPT ![c] = next],
               UNCHANGED <<result, event, stored, bumps>>
        PROVE  TallyKept(c)
    <3>1. pc[c] = "counting" /\ pc'[c] = next /\ LedgerKept(c) /\ result'[c] = result[c]
          /\ \A d \in Conns \ {c} : Spared(d)
        BY <1>12, <2>2 DEF SuccessCounted, IInv, TypeOK, Spared, LedgerKept
    <3>2. event[c].success
        BY <1>0, <3>1 DEF ConnInv, LiveEvent
    <3> QED BY <3>1, <3>2 DEF TalliesInv, TallyInv, TallyKept, Tally, LedgerKept, Attempting
  <2> QED BY <1>12, <2>1, <2>2 DEF SuccessCounted, ledger
<1>13. CASE ShellAnswered(c)
  <2>1. CASE Crash(c, event[c])
      BY <1>13, <2>1, TallyCrash DEF ShellAnswered
  <2>2. CASE ~Crash(c, event[c])
    <3>1. /\ pc[c] = "shell" /\ pc' = [pc EXCEPT ![c] = "done"] /\ UNCHANGED <<result, bumps>>
          /\ WriteUnawaited(c, event[c]) \/ UNCHANGED <<event, stored>>
        BY <1>13, <2>2 DEF ShellAnswered, ledger
    <3>2. event[c].success
        BY <1>0, <3>1 DEF ConnInv, LiveEvent
    <3>3. CASE WriteUnawaited(c, event[c])
        BY <3>1, <3>2, <3>3, WriteUnawaitedSpares
        DEF IInv, TypeOK, TalliesInv, TallyInv, TallyKept, Tally, Attempting
    <3>4. CASE UNCHANGED <<event, stored>>
        BY <3>1, <3>2, <3>4
        DEF IInv, TypeOK, TalliesInv, TallyInv, TallyKept, Tally, Spared, LedgerKept, Attempting
    <3> QED BY <3>1, <3>3, <3>4
  <2> QED BY <2>1, <2>2
<1>14. CASE ChannelAnswered(c)
  <2>1. CASE Crash(c, event[c])
    <3>1. pc[c] # "idle"
        BY <1>0, <1>14 DEF ChannelAnswered, ConnInv
    <3> QED BY <2>1, <3>1, TallyCrash
  <2>2. CASE ~Crash(c, event[c])
      BY <1>14, <2>2, TallyRewrites, TallyMoves DEF ChannelAnswered, control, ledger
  <2> QED BY <2>1, <2>2
<1>15. CASE FailRecorded(c)
  <2>1. CASE result[c] = "err" /\ Throw(c)
      BY <1>15, <2>1, TallyRefused DEF FailRecorded
  <2>2. CASE AwaitBump(c, "fail", "bumpFail") /\ UNCHANGED <<event, stored>>
    <3>1. Counted(bumps[c], "fail")["success"] = bumps[c]["success"]
          /\ Counted(bumps[c], "fail")["fail"] = bumps[c]["fail"] + 1
        BY DEF Counted, Kinds
    <3> QED BY <1>15, <2>2, <3>1, AwaitBumpSpares
        DEF FailRecorded, IInv, TalliesInv, TallyInv, TallyKept, Tally, Attempting, Kinds
  <2> QED BY <1>15, <2>1, <2>2 DEF FailRecorded
<1>16. CASE FailCounted(c)
  <2>1. /\ pc[c] = "bumpFail" /\ pc'[c] = "done" /\ result'[c] = result[c] /\ LedgerKept(c)
        /\ \A d \in Conns \ {c} : Spared(d)
      BY <1>16, ThrowSpares
      DEF FailCounted, IInv, TypeOK, Spared, LedgerKept, inbound, upstream, ledger
  <2> QED BY <2>1 DEF TalliesInv, TallyInv, TallyKept, Tally, LedgerKept, Attempting
<1> QED
  BY <1>1, <1>2, <1>3, <1>4, <1>5, <1>6, <1>7, <1>8, <1>9, <1>10, <1>11,
     <1>12, <1>13, <1>14, <1>15, <1>16
  DEF Handler

LEMMA TallyClient ==
    ASSUME IInv, TalliesInv, NEW c \in Conns, Client(c)
    PROVE  TallyKept(c)
<1>1. CASE Connect(c)
    BY <1>1, TallyMoves DEF Connect, IInv, TypeOK, ledger
<1>2. CASE Ready(c)
    BY <1>2, TallyMoves DEF Ready, IInv, TypeOK, ledger
<1>3. CASE OpenSession(c)
    BY <1>3, TallyWrites, SoundEvents DEF OpenSession, NewEvent, Events, Attempting
<1>4. CASE PickHost(c)
  <2>1. event[c] \in Events
      BY DEF IInv, TypeOK
  <2> QED BY <1>4, <2>1, TallyWrites DEF PickHost, Chosen, Attempting
<1>5. CASE QuitPicker(c)
    BY <1>5, TallyFailTui DEF QuitPicker, Attempting, Reasons
<1>6. CASE RequestChannel(c)
    BY <1>6, TallyMoves DEF RequestChannel, control, ledger
<1>7. CASE RequestRefused(c)
    BY <1>7, TallyMoves, TallyFailTui DEF RequestRefused, control, ledger, Attempting, Reasons
<1>8. CASE ClientCloses(c)
    BY <1>8, TallyMoves DEF ClientCloses, control, ledger
<1> QED BY <1>1, <1>2, <1>3, <1>4, <1>5, <1>6, <1>7, <1>8 DEF Client

\* The teardown finishes a record that was already a success.
LEMMA TallyUpstream ==
    ASSUME IInv, TalliesInv, NEW c \in Conns, UpstreamCloses(c)
    PROVE  TallyKept(c)
<1>1. ConnInv(c) /\ up[c] \in {"open", "ending"}
    BY DEF UpstreamCloses, IInv
<1>2. CASE wired[c] /\ Crash(c, Ended(event[c]))
    BY <1>1, <1>2, TallyCrash DEF ConnInv
<1>3. CASE wired[c] /\ WriteUnawaited(c, Ended(event[c])) /\ UNCHANGED <<pc, result, bumps>>
  <2>1. pc[c] = "done" /\ event[c].success /\ Ended(event[c]).success
      BY <1>1, <1>3 DEF ConnInv, LiveEvent, Ended
  <2> QED BY <1>3, <2>1, WriteUnawaitedSpares
      DEF IInv, TalliesInv, TallyInv, TallyKept, Tally, Attempting
<1>4. CASE UNCHANGED <<pc, result, event, stored, bumps>>
    BY <1>4, TallyMoves
<1> QED BY <1>2, <1>3, <1>4 DEF UpstreamCloses, control, ledger

LEMMA TallyStep == IInv /\ TalliesInv /\ [Next]_vars => TalliesInv'
<1> SUFFICES ASSUME IInv, TalliesInv, [Next]_vars PROVE TalliesInv'
    OBVIOUS
<1>1. CASE UNCHANGED vars
    BY <1>1, SparedTally
    DEF TalliesInv, Spared, LedgerKept, vars, control, ledger
<1>2. ASSUME NEW c \in Conns, TallyKept(c) PROVE TalliesInv'
    BY <1>2, SparedTally DEF TallyKept, TalliesInv
<1> QED BY <1>1, <1>2, TallyHandler, TallyClient, TallyUpstream DEF Next

-----------------------------------------------------------------------------
(* The course of a record                                                  *)

\* Where the record of c stands in Redis, by the place of its handler.
CourseInv(c) ==
    /\ result[c] = "err" => c \in Refusing
    /\ pc[c] \in {"idle", "auth", "refused", "session"} => stored[c] = NoEvent
    /\ pc[c] = "creating" => /\ stored[c] \in {NoEvent, NewEvent}
                             /\ result[c] = "ok" => stored[c] = NewEvent
    /\ pc[c] \in Attempting \ {"creating"} => stored[c] = NewEvent
    /\ pc[c] = "registered" => stored[c] \in {NewEvent, Succeeded(NewEvent)}

CoursesInv == \A c \in Conns : CourseInv(c)

\* What may be written over e.
Follows(c, e, f) ==
    \/ f = e
    \/ e = NoEvent /\ f = NewEvent
    \/ e = NewEvent /\ f = Succeeded(NewEvent)
    \/ e = NewEvent /\ \E reason \in Reasons : f = Failed(e, reason)
    \/ e = Succeeded(NewEvent) /\ f = Ended(e)
    \/ c \in Refusing /\ e = Succeeded(NewEvent) /\ \E reason \in Reasons : f = Failed(e, reason)

\* What another connection's step leaves.
Passed(d) ==
    stored'[d] = stored[d] /\ result'[d] = result[d] /\ pc'[d] \in {pc[d], "dead"}

CourseKept(c) ==
    /\ \A d \in Conns \ {c} : Passed(d)
    /\ CourseInv(c)'
    /\ Follows(c, stored[c], stored'[c])

LEMMA PassedCourse ==
    ASSUME NEW d \in Conns, CourseInv(d), Passed(d)
    PROVE  CourseInv(d)'
BY DEF CourseInv, Passed, Attempting

\* The records there are.
LEMMA Records ==
    /\ NoEvent # NewEvent /\ NewEvent # Succeeded(NewEvent) /\ NoEvent # Succeeded(NewEvent)
    /\ \A e \in Events : LiveEvent(e) => e = Succeeded(NewEvent)
    /\ \A e, f, reason : Failed(e, reason) = Failed(f, reason)
<1>1. NoEvent # NewEvent /\ NewEvent # Succeeded(NewEvent) /\ NoEvent # Succeeded(NewEvent)
  BY DEF NoEvent, NewEvent, Succeeded
<1>2. ASSUME NEW e \in Events, LiveEvent(e) PROVE e = Succeeded(NewEvent)
  <2>1. e = [stage |-> e.stage, success |-> e.success, reason |-> e.reason] BY DEF Events
  <2>2. e.stage = "open" /\ e.reason = "" /\ e.success = TRUE BY <1>2 DEF LiveEvent, Events
  <2> QED BY <2>1, <2>2, Zenon DEF Succeeded, NewEvent
<1>3. \A e, f, reason : Failed(e, reason) = Failed(f, reason) BY DEF Failed
<1> QED BY <1>1, <1>2, <1>3

LEMMA CourseCrash ==
    ASSUME IInv, NEW c \in Conns, CourseInv(c), pc[c] # "idle", NEW e,
           Follows(c, stored[c], e), Crash(c, e)
    PROVE  CourseKept(c)
<1>1. \A d \in Conns : result'[d] = result[d] /\ pc'[d] = IF pc[d] = "idle" THEN "idle" ELSE "dead"
  BY DEF Crash
<1>2. stored'[c] = stored[c] \/ stored'[c] = e
  BY DEF Crash, IInv, TypeOK
<1>3. \A d \in Conns \ {c} : stored'[d] = stored[d]
  BY DEF Crash, IInv, TypeOK
<1>4. CourseInv(c)' BY <1>1 DEF CourseInv, Attempting
<1>5. Follows(c, stored[c], stored'[c]) BY <1>2 DEF Follows
<1> QED BY <1>1, <1>3, <1>4, <1>5 DEF CourseKept, Passed

LEMMA CourseThrow ==
    ASSUME IInv, NEW c \in Conns, CourseInv(c), Throw(c)
    PROVE  CourseKept(c)
BY DEF Throw, CourseInv, CourseKept, Passed, Follows, Attempting, IInv, TypeOK, ledger

\* A write, awaited at a place where either outcome is expected.
LEMMA CourseWrites ==
    ASSUME IInv, NEW c \in Conns, CourseInv(c), NEW e, NEW next, AwaitWrite(c, e, next),
           Follows(c, stored[c], e),
           \/ next = "failing"
           \/ next = "creating" /\ e = NewEvent /\ stored[c] = NoEvent
           \/ next = "patching" /\ e = NewEvent /\ stored[c] = NewEvent
           \/ next = "registered" /\ e = Succeeded(NewEvent) /\ stored[c] = NewEvent
    PROVE  CourseKept(c)
<1>1. /\ pc'[c] = next
      /\ stored'[c] = stored[c] \/ stored'[c] = e
      /\ result'[c] = "ok" => stored'[c] = e
      /\ \A d \in Conns \ {c} : pc'[d] = pc[d] /\ result'[d] = result[d] /\ stored'[d] = stored[d]
  BY AwaitWriteFacts
<1>2. result'[c] = "err" => c \in Refusing
  BY DEF AwaitWrite, Outcomes, IInv, TypeOK
<1>3. CourseInv(c)' BY <1>1, <1>2 DEF CourseInv, Attempting
<1>4. Follows(c, stored[c], stored'[c]) BY <1>1 DEF Follows
<1> QED BY <1>1, <1>3, <1>4 DEF CourseKept, Passed

\* The first failure of an attempt that has a record and no verdict.
LEMMA CourseFails ==
    ASSUME IInv, NEW c \in Conns, CourseInv(c), pc[c] \in Attempting \ {"creating"},
           NEW reason \in Reasons,
           \/ \E upNow : FailGrammar(c, reason, upNow)
           \/ \E upNow, chanNow, promiseNow : FailTui(c, reason, upNow, chanNow, promiseNow)
    PROVE  CourseKept(c)
<1>1. Follows(c, stored[c], Failed(event[c], reason))
  BY Records DEF CourseInv, Follows
<1>2. pc[c] # "idle" BY DEF Attempting
<1>3. Crash(c, Failed(event[c], reason)) \/ AwaitWrite(c, Failed(event[c], reason), "failing")
  BY DEF FailGrammar, FailTui
<1> QED BY <1>1, <1>2, <1>3, CourseCrash, CourseWrites

\* An error without a reason, which only a refused command leads to.
LEMMA CourseRefused ==
    ASSUME IInv, NEW c \in Conns, CourseInv(c), result[c] = "err",
           pc[c] \in {"patching", "registered", "counting"}, FailUnnamed(c)
    PROVE  CourseKept(c)
<1>1. "error" \in Reasons /\ c \in Refusing BY DEF Reasons, CourseInv
<1>2. stored[c] = NewEvent \/ stored[c] = Succeeded(NewEvent)
  BY Records DEF CourseInv, Attempting, IInv, ConnInv, TypeOK
<1>3. Follows(c, stored[c], Failed(event[c], "error"))
  BY <1>1, <1>2, Records DEF Follows
<1>4. \/ Crash(c, Failed(event[c], "error")) \/ AwaitWrite(c, Failed(event[c], "error"), "failing")
      \/ Throw(c)
  BY DEF FailUnnamed, FailGrammar
<1> QED BY <1>3, <1>4, CourseCrash, CourseWrites, CourseThrow

\* The handler moves on, or something else does, and the record is as it was.
LEMMA CourseMoves ==
    ASSUME IInv, NEW c \in Conns, CourseInv(c), stored' = stored,
           \A d \in Conns \ {c} : pc'[d] = pc[d] /\ result'[d] = result[d],
           \/ result'[c] = result[c]
           \/ pc'[c] # "creating" /\ (result'[c] = "err" => c \in Refusing),
           \/ pc'[c] = pc[c]
           \/ pc'[c] \in {"counting", "shell", "bumpFail", "done"}
           \/ pc[c] \in {"idle", "auth"} /\ pc'[c] \in {"auth", "refused", "session"}
           \/ pc[c] = "creating" /\ result[c] = "ok" /\ pc'[c] = "hosts"
           \/ pc[c] \in Attempting \ {"creating"} /\ pc'[c] \in Attempting \ {"creating"}
    PROVE  CourseKept(c)
BY DEF CourseInv, CourseKept, Passed, Follows, Attempting

\* Writing the record in memory where Redis has the same.
LEMMA CourseRewrites ==
    ASSUME IInv, NEW c \in Conns, CourseInv(c), stored[c] = event[c], result' = result,
           \A d \in Conns \ {c} : pc'[d] = pc[d],
           pc'[c] \in {pc[c], "done"}, WriteUnawaited(c, event[c])
    PROVE  CourseKept(c)
<1>1. stored' = stored
  BY DEF WriteUnawaited, IInv, TypeOK
<1> QED BY <1>1, CourseMoves

LEMMA CourseHandler ==
    ASSUME IInv, NEW c \in Conns, CourseInv(c), Handler(c)
    PROVE  CourseKept(c)
<1>0. ConnInv(c) /\ event[c] \in Events /\ stored[c] \in Events /\ result[c] \in {"ok", "err"}
    BY DEF IInv, TypeOK
<1>1. CASE Created(c)
  <2>1. CASE Throw(c)
      BY <2>1, CourseThrow
  <2>2. CASE ~Throw(c)
      BY <1>1, <2>2, CourseMoves DEF Created, IInv, TypeOK, ledger
  <2> QED BY <2>1, <2>2
<1>2. CASE HostsForGrammar(c)
  <2>1. pc[c] \in Attempting \ {"creating"}
      BY <1>2 DEF HostsForGrammar, Attempting
  <2>2. event[c] = NewEvent /\ stored[c] = NewEvent
      BY <1>0, <2>1 DEF ConnInv, CourseInv
  <2>3. CASE AwaitWrite(c, event[c], "patching")
      BY <2>2, <2>3, CourseWrites DEF Follows
  <2>4. \/ \E reason \in Reasons : FailGrammar(c, reason, up[c])
        \/ AwaitWrite(c, event[c], "patching")
      BY <1>2 DEF HostsForGrammar, Chosen, Reasons
  <2> QED BY <2>1, <2>3, <2>4, CourseFails
<1>3. CASE HostsForTui(c)
  <2>1. pc[c] \in Attempting \ {"creating"} /\ "picker" \in Attempting \ {"creating"}
      BY <1>3 DEF HostsForTui, Attempting
  <2>2. CASE \E reason \in Reasons : \E chanNow, promiseNow :
                FailTui(c, reason, up[c], chanNow, promiseNow)
      BY <2>1, <2>2, CourseFails
  <2>3. CASE /\ pc' = [pc EXCEPT ![c] = "picker"]
             /\ UNCHANGED <<result, event, stored, bumps>>
      BY <2>1, <2>3, CourseMoves DEF IInv, TypeOK
  <2> QED BY <1>3, <2>2, <2>3 DEF HostsForTui, Reasons, ledger
<1>4. CASE EmptyPicker(c)
    BY <1>4, CourseFails DEF EmptyPicker, Attempting, Reasons
<1>5. CASE Targeted(c)
  <2>1. CASE result[c] = "err" /\ FailUnnamed(c)
      BY <1>5, <2>1, CourseRefused DEF Targeted
  <2>2. CASE ~(result[c] = "err" /\ FailUnnamed(c))
      BY <1>5, <2>2, CourseMoves DEF Targeted, IInv, TypeOK, ledger, Attempting
  <2> QED BY <2>1, <2>2
<1>6. CASE Credentialed(c)
  <2>1. /\ pc[c] \in Attempting \ {"creating"} /\ "dialing" \in Attempting \ {"creating"}
        /\ CredentialFailure \in Reasons
      BY <1>6 DEF Credentialed, Attempting, CredentialFailure, Reasons
  <2>2. CASE FailGrammar(c, CredentialFailure, up[c])
      BY <2>1, <2>2, CourseFails
  <2>3. CASE FailTui(c, CredentialFailure, up[c], chan[c], promise[c])
      BY <2>1, <2>3, CourseFails
  <2>4. CASE /\ pc' = [pc EXCEPT ![c] = "dialing"]
             /\ UNCHANGED <<result, event, stored, bumps>>
      BY <2>1, <2>4, CourseMoves DEF IInv, TypeOK
  <2> QED BY <1>6, <2>2, <2>3, <2>4 DEF Credentialed, ledger
<1>7. CASE HostKey(c)
  <2>1. event[c] = NewEvent /\ stored[c] = NewEvent /\ pc[c] # "idle"
      BY <1>0, <1>7 DEF HostKey, ConnInv, CourseInv, Attempting
  <2>2. CASE Crash(c, event[c])
      BY <2>1, <2>2, CourseCrash DEF Follows
  <2>3. CASE ~Crash(c, event[c])
      BY <1>7, <2>1, <2>3, CourseRewrites DEF HostKey, control
  <2> QED BY <2>2, <2>3
<1>8. CASE UpstreamReady(c)
  <2>1. event[c] = NewEvent /\ stored[c] = NewEvent
      BY <1>0, <1>8 DEF UpstreamReady, ConnInv, CourseInv, Attempting
  <2> QED BY <1>8, <2>1, CourseWrites DEF UpstreamReady, Follows
<1>9. CASE DialError(c)
  <2>1. pc[c] \in Attempting \ {"creating"} /\ "redial" \in Attempting \ {"creating"}
      BY <1>9 DEF DialError, Attempting
  <2>2. CASE FailGrammar(c, "upstream-unreachable", "closed")
      BY <2>1, <2>2, CourseFails DEF Reasons
  <2>3. CASE FailTui(c, "upstream-unreachable", "closed", ShutChannel(chan[c]), promise[c])
      BY <2>1, <2>3, CourseFails DEF Reasons
  <2>4. CASE /\ pc' = [pc EXCEPT ![c] = "redial"]
             /\ UNCHANGED <<result, event, stored, bumps>>
      BY <2>1, <2>4, CourseMoves DEF IInv, TypeOK
  <2> QED BY <1>9, <2>2, <2>3, <2>4 DEF DialError, ledger
<1>10. CASE Redial(c)
    BY <1>10, CourseMoves DEF Redial, IInv, TypeOK, ledger, Attempting
<1>11. CASE SuccessRecorded(c)
  <2>1. CASE result[c] = "err" /\ FailUnnamed(c)
      BY <1>11, <2>1, CourseRefused DEF SuccessRecorded
  <2>2. CASE AwaitBump(c, "success", "counting") /\ UNCHANGED <<event, stored>>
      BY <2>2, CourseMoves DEF AwaitBump, Outcomes, IInv, TypeOK
  <2> QED BY <1>11, <2>1, <2>2 DEF SuccessRecorded
<1>12. CASE SuccessCounted(c)
  <2>1. CASE result[c] = "err" /\ FailUnnamed(c)
      BY <1>12, <2>1, CourseRefused DEF SuccessCounted
  <2>2. ASSUME NEW next \in {"done", "shell"}, pc' = [pc EXCEPT ![c] = next],
               UNCHANGED <<result, event, stored, bumps>>
        PROVE  CourseKept(c)
      BY <2>2, CourseMoves DEF IInv, TypeOK
  <2> QED BY <1>12, <2>1, <2>2 DEF SuccessCounted, ledger
<1>13. CASE ShellAnswered(c)
  <2>1. pc[c] = "shell" /\ stored[c] = event[c]
      BY <1>0, <1>13 DEF ShellAnswered, ConnInv
  <2>2. CASE Crash(c, event[c])
      BY <2>1, <2>2, CourseCrash DEF Follows
  <2>3. CASE ~Crash(c, event[c])
    <3>1. /\ pc' = [pc EXCEPT ![c] = "done"] /\ result' = result
          /\ WriteUnawaited(c, event[c]) \/ UNCHANGED <<event, stored>>
        BY <1>13, <2>3 DEF ShellAnswered, ledger
    <3>2. pc'[c] = "done" /\ \A d \in Conns \ {c} : pc'[d] = pc[d]
        BY <3>1 DEF IInv, TypeOK
    <3> QED BY <2>1, <3>1, <3>2, CourseRewrites, CourseMoves
  <2> QED BY <2>2, <2>3
<1>14. CASE ChannelAnswered(c)
  <2>1. up[c] = "open" => pc[c] = "done" /\ stored[c] = event[c]
      BY <1>0, <1>14 DEF ChannelAnswered, ConnInv
  <2>2. CASE up[c] = "open" /\ Crash(c, event[c])
      BY <2>1, <2>2, CourseCrash DEF Follows
  <2>3. CASE up[c] = "open" /\ WriteUnawaited(c, event[c]) /\ UNCHANGED control
      BY <2>1, <2>3, CourseRewrites DEF control
  <2>4. CASE UNCHANGED <<control, ledger>>
      BY <2>4, CourseMoves DEF control, ledger
  <2> QED BY <1>14, <2>2, <2>3, <2>4 DEF ChannelAnswered
<1>15. CASE FailRecorded(c)
  <2>1. CASE result[c] = "err" /\ Throw(c)
      BY <2>1, CourseThrow
  <2>2. CASE AwaitBump(c, "fail", "bumpFail") /\ UNCHANGED <<event, stored>>
      BY <2>2, CourseMoves DEF AwaitBump, Outcomes, IInv, TypeOK
  <2> QED BY <1>15, <2>1, <2>2 DEF FailRecorded
<1>16. CASE FailCounted(c)
  <2>1. CASE Throw(c)
      BY <2>1, CourseThrow
  <2>2. CASE pc' = [pc EXCEPT ![c] = "done"] /\ UNCHANGED <<result, stored>>
      BY <2>2, CourseMoves DEF IInv, TypeOK
  <2> QED BY <1>16, <2>1, <2>2 DEF FailCounted, ledger
<1> QED
  BY <1>1, <1>2, <1>3, <1>4, <1>5, <1>6, <1>7, <1>8, <1>9, <1>10, <1>11,
     <1>12, <1>13, <1>14, <1>15, <1>16
  DEF Handler

LEMMA CourseClient ==
    ASSUME IInv, NEW c \in Conns, CourseInv(c), Client(c)
    PROVE  CourseKept(c)
<1>0. ConnInv(c)
    BY DEF IInv
<1>1. CASE Connect(c)
    BY <1>1, CourseMoves DEF Connect, IInv, TypeOK, ledger
<1>2. CASE Ready(c)
    BY <1>2, CourseMoves DEF Ready, IInv, TypeOK, ledger
<1>3. CASE OpenSession(c)
  <2>1. stored[c] = NoEvent
      BY <1>3 DEF OpenSession, CourseInv
  <2> QED BY <1>3, <2>1, CourseWrites DEF OpenSession, Follows
<1>4. CASE PickHost(c)
  <2>1. event[c] = NewEvent /\ stored[c] = NewEvent
      BY <1>0, <1>4 DEF PickHost, ConnInv, CourseInv, Attempting
  <2> QED BY <1>4, <2>1, CourseWrites DEF PickHost, Chosen, Follows
<1>5. CASE QuitPicker(c)
    BY <1>5, CourseFails DEF QuitPicker, Attempting, Reasons
<1>6. CASE RequestChannel(c)
    BY <1>6, CourseMoves DEF RequestChannel, control, ledger
<1>7. CASE RequestRefused(c)
    BY <1>7, CourseMoves, CourseFails DEF RequestRefused, control, ledger, Attempting, Reasons
<1>8. CASE ClientCloses(c)
    BY <1>8, CourseMoves DEF ClientCloses, control, ledger
<1> QED BY <1>1, <1>2, <1>3, <1>4, <1>5, <1>6, <1>7, <1>8 DEF Client

\* The teardown closes a record that is a success in Redis.
LEMMA CourseUpstream ==
    ASSUME IInv, NEW c \in Conns, CourseInv(c), UpstreamCloses(c)
    PROVE  CourseKept(c)
<1>1. ConnInv(c) /\ up[c] \in {"open", "ending"} /\ event[c] \in Events
    BY DEF UpstreamCloses, IInv, TypeOK
<1>2. wired[c] => /\ pc[c] = "done" /\ stored[c] = event[c]
                  /\ event[c] = Succeeded(NewEvent)
    BY <1>1, Records DEF ConnInv
<1>3. CASE wired[c] /\ Crash(c, Ended(event[c]))
    BY <1>2, <1>3, CourseCrash DEF Follows
<1>4. CASE wired[c] /\ WriteUnawaited(c, Ended(event[c])) /\ UNCHANGED <<pc, result>>
  <2>1. stored'[c] = Ended(event[c]) /\ \A d \in Conns \ {c} : stored'[d] = stored[d]
      BY <1>4, WriteUnawaitedFacts
  <2> QED BY <1>2, <1>4, <2>1 DEF CourseKept, CourseInv, Passed, Follows, Attempting
<1>5. CASE UNCHANGED <<pc, result, event, stored>>
    BY <1>5, CourseMoves
<1> QED BY <1>3, <1>4, <1>5 DEF UpstreamCloses, control, ledger

LEMMA SomeonesStep ==
    ASSUME IInv, CoursesInv, Next
    PROVE  \E c \in Conns : CourseKept(c)
BY CourseHandler, CourseClient, CourseUpstream DEF Next, CoursesInv

LEMMA CourseStep == IInv /\ CoursesInv /\ [Next]_vars => CoursesInv'
<1> SUFFICES ASSUME IInv, CoursesInv, [Next]_vars PROVE CoursesInv'
    OBVIOUS
<1>1. CASE UNCHANGED vars
    BY <1>1, PassedCourse DEF CoursesInv, Passed, vars, control, ledger
<1>2. CASE Next
    BY <1>2, SomeonesStep, PassedCourse DEF CourseKept, CoursesInv
<1> QED BY <1>1, <1>2

-----------------------------------------------------------------------------
(* The refinement                                                          *)

rows == [c \in Conns |-> AuditRow(stored[c])]

\* What the records look like in AttemptRecord.
LEMMA RowOfRecord ==
    /\ AuditRow(NoEvent) = Audit!NoRow
    /\ AuditRow(NewEvent) = Audit!Opened
    /\ AuditRow(Succeeded(NewEvent)) = Audit!Granted
    /\ AuditRow(Ended(Succeeded(NewEvent))) = Audit!Closed
    /\ \A e : \A reason \in Reasons : AuditRow(Failed(e, reason)) = Audit!Refused
BY DEF AuditRow, NoEvent, NewEvent, Succeeded, Ended, Failed, Reasons,
       Audit!Row, Audit!NoRow, Audit!Opened, Audit!Granted, Audit!Closed, Audit!Refused

LEMMA RecordStep ==
    ASSUME NEW c \in Conns, TypeOK, CourseKept(c)
    PROVE  [Audit!Next]_rows
<1>1. rows' = [rows EXCEPT ![c] = AuditRow(stored'[c])]
  <2>1. \A d \in Conns \ {c} : stored'[d] = stored[d] BY DEF CourseKept, Passed
  <2> QED BY <2>1 DEF rows
<1>2. rows[c] = AuditRow(stored[c]) BY DEF rows
<1>3. Follows(c, stored[c], stored'[c]) BY DEF CourseKept
<1>4. CASE stored'[c] = stored[c]
  <2>1. rows' = rows BY <1>1, <1>4 DEF rows
  <2> QED BY <2>1
<1>5. CASE stored[c] = NoEvent /\ stored'[c] = NewEvent
  <2>1. Audit!Open(c) BY <1>1, <1>2, <1>5, RowOfRecord DEF Audit!Open, Audit!Becomes, rows
  <2> QED BY <2>1 DEF Audit!Next
<1>6. CASE stored[c] = NewEvent /\ stored'[c] = Succeeded(NewEvent)
  <2>1. Audit!Grant(c) BY <1>1, <1>2, <1>6, RowOfRecord DEF Audit!Grant, Audit!Becomes, rows
  <2> QED BY <2>1 DEF Audit!Next
<1>7. CASE stored[c] = NewEvent /\ \E reason \in Reasons : stored'[c] = Failed(stored[c], reason)
  <2>1. rows[c] = Audit!Opened BY <1>2, <1>7, RowOfRecord
  <2>2. AuditRow(stored'[c]) = Audit!Refused BY <1>7, RowOfRecord
  <2>3. Audit!Refuse(c) BY <1>1, <2>1, <2>2 DEF Audit!Refuse, Audit!Becomes, rows
  <2> QED BY <2>3 DEF Audit!Next
<1>8. CASE stored[c] = Succeeded(NewEvent) /\ stored'[c] = Ended(stored[c])
  <2>1. Audit!Close(c) BY <1>1, <1>2, <1>8, RowOfRecord DEF Audit!Close, Audit!Becomes, rows
  <2> QED BY <2>1 DEF Audit!Next
<1>9. CASE /\ c \in Refusing /\ stored[c] = Succeeded(NewEvent)
           /\ \E reason \in Reasons : stored'[c] = Failed(stored[c], reason)
  <2>1. rows[c] = Audit!Granted BY <1>2, <1>9, RowOfRecord
  <2>2. AuditRow(stored'[c]) = Audit!Refused BY <1>9, RowOfRecord
  <2>3. Audit!Retract(c) BY <1>1, <1>9, <2>1, <2>2 DEF Audit!Retract, Audit!Becomes, rows
  <2> QED BY <2>3 DEF Audit!Next
<1> QED BY <1>3, <1>4, <1>5, <1>6, <1>7, <1>8, <1>9 DEF Follows

-----------------------------------------------------------------------------
(* Theorems                                                                *)

LEMMA InitInv == Init => IInv
<1> SUFFICES ASSUME Init PROVE IInv
    OBVIOUS
<1>1. TypeOK
    BY EventType DEF Init, TypeOK, PCs, Chans, Promises, Ups, NoEvent, Events
<1>2. ASSUME NEW c \in Conns PROVE ConnInv(c)
    BY EventType, SoundEvents DEF Init, ConnInv, Attempting, NoEvent, Events, Sound
<1> QED BY <1>1, <1>2 DEF IInv

\* The invariant the safety properties rest on holds in every reachable state.
THEOREM InductiveInvariant == Spec => []IInv
<1>1. IInv /\ [Next]_vars => IInv'
    BY TypeStep, InvStep DEF IInv
<1> QED BY InitInv, <1>1, PTL DEF Spec

\* Every variable keeps its type, for any number of connections.
THEOREM TypeCorrect == Spec => []TypeOK
<1>1. IInv => TypeOK
    BY DEF IInv
<1> QED BY InductiveInvariant, <1>1, PTL

\* No user byte is piped (bridge.js pipeStreams, bridgeShellChannel) for a
\* session that is not registered and recorded as an open success.
THEOREM AuditPrecedesBridge == Spec => []AuditedBeforeBridged
<1>1. IInv => AuditedBeforeBridged
    BY DEF IInv, ConnInv, AuditedBeforeBridged, LiveEvent
<1> QED BY InductiveInvariant, <1>1, PTL

\* No upstream connection is up outside the registry (session_registry.js).
THEOREM UpstreamsAreRegistered == Spec => []UpstreamsAccountedFor
<1>1. IInv => UpstreamsAccountedFor
    BY DEF IInv, ConnInv, UpstreamsAccountedFor
<1> QED BY InductiveInvariant, <1>1, PTL

\* Every attempt whose Redis commands were answered is counted once when its
\* handler has returned, as its record says (metrics.bump in runGrammar's and
\* runTuiSession's success and failure paths).
THEOREM EachAttemptCountedOnce == Spec => []MetricsMatchAudit
<1>1. Init => TalliesInv
    BY DEF Init, TalliesInv, TallyInv, Tally, Attempting, Kinds
<1>2. IInv /\ TalliesInv /\ [Next]_vars => TalliesInv'
    BY TallyStep
<1>3. TalliesInv => MetricsMatchAudit
    BY DEF TalliesInv, TallyInv, Tally, MetricsMatchAudit
<1> QED BY InductiveInvariant, <1>1, <1>2, <1>3, PTL DEF Spec

\* The record of every attempt takes the course that AttemptRecord promises, for
\* any connections, whatever Redis refuses and whenever the process dies.
THEOREM RecordsImplementAttemptRecord == Spec => VerdictStands
<1>1. Init => CoursesInv
    BY DEF Init, CoursesInv, CourseInv, Attempting
<1>2. Init => Audit!Init
    BY RowOfRecord DEF Init, Audit!Init
<1>3. IInv /\ CoursesInv /\ [Next]_vars => [Audit!Next]_rows
  <2> SUFFICES ASSUME IInv, CoursesInv, [Next]_vars PROVE [Audit!Next]_rows
      OBVIOUS
  <2>1. CASE UNCHANGED vars
      BY <2>1 DEF rows, vars, ledger
  <2>2. CASE Next
      BY <2>2, SomeonesStep, RecordStep DEF IInv
  <2> QED BY <2>1, <2>2
<1> QED
  BY <1>1, <1>2, <1>3, InductiveInvariant, CourseStep, PTL
  DEF Spec, VerdictStands, Audit!Spec, rows

=============================================================================
