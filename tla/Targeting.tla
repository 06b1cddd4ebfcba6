----------------------------- MODULE Targeting -----------------------------
(***************************************************************************)
(* Which host a session is sent to: isCatalogHost of utils/access.js, the  *)
(* five rules of utils/target_match.js when the username names a target,   *)
(* and the picker of services/tui_picker.js when it does not.              *)
(*                                                                         *)
(* Names, slugs and addresses are words, compared as the code compares     *)
(* them (lower-cased).  The text typed into the picker matters only for    *)
(* the hosts that still contain it: one more character can only narrow     *)
(* them, and a backspace goes back to the hosts before it.                 *)
(***************************************************************************)
EXTENDS Integers, SequencesExt, Grammar

CONSTANTS
    Resources,  \* what the directory may list, as records
    MaxListed,  \* bound: resources in one answer
    IPs,        \* the targets that are IPv4 addresses
    Prefixed,   \* for a target t, the slug host_t
    Hostname,   \* for an address, its host part (addrHost)
    MaxFilter   \* bound: characters of a filter

ASSUME BoundsAssumption == MaxListed \in Nat /\ MaxFilter \in Nat
ASSUME NoneIsNoResource == None \notin Resources
ASSUME FieldsAssumption ==
    \A r \in Resources :
        /\ {"slug", "name", "ip", "address", "kind", "managed", "sources"} = DOMAIN r
        /\ r.managed \in {"yes", "no", "unset"}
        /\ r.address # None => r.address \in DOMAIN Hostname
ASSUME SlugsAssumption == \A r, s \in Resources : r.slug = s.slug => r = s

VARIABLES
    hosts,     \* the session's accessible hosts, in the directory's order
    target,    \* state.target
    allowRaw,  \* conf.ssh.allowRawIPs
    phase,     \* "match" and "shell" come first, "picking" in the picker, "done"
    narrowed,  \* the filter: for each of its characters, the hosts left
    selected,  \* the picker's cursor, from 0, and -1 for nothing
    screen,    \* the last rendering: the rows and the highlighted one
    dialed     \* the outcome: a host or None, the address and the reason

targetVars == <<hosts, target, allowRaw, phase, narrowed, selected, screen, dialed>>

request == <<hosts, target, allowRaw>>
picker  == <<narrowed, selected, screen>>

\* "In the catalog": a host, and promoted, or at least not one that only
\* discovery has seen.
IsCatalogHost(r) ==
    /\ r.kind = "host"
    /\ r.managed # "no"
    /\ r.managed = "yes" \/ r.sources = {} \/ "manual" \in r.sources

\* What hosts.filter(...) leaves of a list, in its order.  (SelectSeq computes
\* the same; written out, the provers can look into it.)
Filter(list, S) ==
    LET kept[n \in 0 .. Len(list)] ==
            IF n = 0 THEN <<>>
            ELSE IF list[n] \in S THEN Append(kept[n - 1], list[n]) ELSE kept[n - 1]
    IN  kept[Len(list)]

NoScreen == [rows |-> <<>>, at |-> -1]
NotYet == [host |-> None, address |-> None, reason |-> "none"]

TargetInit ==
    /\ \E list \in BoundedSeq(Resources, MaxListed) :
          /\ IsInjective(list)
          /\ hosts = Filter(list, {r \in Resources : IsCatalogHost(r)})
    /\ target \in Targets \cup {None}
    /\ allowRaw \in BOOLEAN
    /\ phase = IF target = None THEN "shell" ELSE "match"
    /\ narrowed = <<>>
    /\ selected = 0
    /\ screen = NoScreen
    /\ dialed = NotYet

(***************************************************************************)
(* The username names a target                                             *)
(***************************************************************************)

AddrHost(h) == IF h.address = None THEN None ELSE Hostname[h.address]

\* hostEndpoint's address: the ip, else the host part of the address.
EndpointOf(h) == IF h.ip # None THEN h.ip ELSE AddrHost(h)

\* Mutant: names are looked at before slugs.
FindsNameFirst(t, list) ==
    << SelectInSeq(list, LAMBDA h : h.name = t),
       SelectInSeq(list, LAMBDA h : h.slug = t),
       SelectInSeq(list, LAMBDA h : h.slug = Prefixed[t]),
       SelectInSeq(list, LAMBDA h : h.ip = t),
       SelectInSeq(list, LAMBDA h : AddrHost(h) = t) >>

\* The five finds of matchTarget, each an index or 0.
Finds(t, list) ==
    << SelectInSeq(list, LAMBDA h : h.slug = t),
       SelectInSeq(list, LAMBDA h : h.slug = Prefixed[t]),
       SelectInSeq(list, LAMBDA h : h.name = t),
       SelectInSeq(list, LAMBDA h : h.ip = t),
       SelectInSeq(list, LAMBDA h : AddrHost(h) = t) >>

\* matchTarget's host: that of the first find that found one.
MatchTarget(t, list) ==
    LET rule == SelectInSeq(Finds(t, list), LAMBDA i : i # 0)
    IN  IF rule = 0 THEN None ELSE list[Finds(t, list)[rule]]

\* resolveAndConnect up to the dial, which needs an address.
Match ==
    /\ phase = "match"
    /\ phase' = "done"
    /\ LET host == MatchTarget(target, hosts) IN
       dialed' =
          IF host # None
          THEN [host |-> host, address |-> EndpointOf(host),
                reason |-> IF EndpointOf(host) = None THEN "no-address" ELSE "dial"]
          ELSE IF target \in IPs /\ allowRaw
          THEN [host |-> None, address |-> target, reason |-> "dial"]
          ELSE [NotYet EXCEPT !.reason = "no-such-target"]
    /\ UNCHANGED <<request, picker>>

(***************************************************************************)
(* The picker                                                              *)
(***************************************************************************)

\* The hosts that contain the filter, in the directory's order.
VisibleIn(filter) ==
    IF filter = <<>> THEN hosts ELSE Filter(hosts, Last(filter))

Visible == VisibleIn(narrowed)

\* render(): a cursor past the end is clamped; on an empty list nothing is
\* highlighted.
Render(filter, cursor) ==
    LET rows == VisibleIn(filter)
        at == IF cursor >= Len(rows) THEN (IF rows = <<>> THEN 0 ELSE Len(rows) - 1) ELSE cursor
    IN  /\ narrowed' = filter
        /\ selected' = at
        /\ screen' = [rows |-> rows, at |-> IF rows = <<>> THEN -1 ELSE at]

\* done(host), then runTuiSession's dial, which does not ask for an address.
Choose(h) ==
    /\ phase' = "done"
    /\ dialed' = [host |-> h, address |-> EndpointOf(h), reason |-> "dial"]
    /\ UNCHANGED <<request, picker>>

\* A shell was asked for: without hosts the picker ends at once.
OpenPicker ==
    /\ phase = "shell"
    /\ \/ /\ hosts = <<>>
          /\ phase' = "done" /\ dialed' = [NotYet EXCEPT !.reason = "cancelled"]
          /\ UNCHANGED picker
       \/ /\ hosts # <<>>
          /\ phase' = "picking" /\ Render(<<>>, 0) /\ UNCHANGED dialed
    /\ UNCHANGED request

Key == phase = "picking" /\ UNCHANGED <<request, phase, dialed>>

Up == Key /\ Render(narrowed, IF selected > 0 THEN selected - 1 ELSE 0)

\* Math.min(list.length - 1, selected + 1): -1 on an empty list, and render
\* leaves it there.
Down ==
    LET last == Len(Visible) - 1 IN
    Key /\ Render(narrowed, IF selected + 1 < last THEN selected + 1 ELSE last)

\* Mutant: the cursor stays where it was.
EraseKeepsCursor == Key /\ Render(IF narrowed = <<>> THEN <<>> ELSE Front(narrowed), selected)

Erase == Key /\ Render(IF narrowed = <<>> THEN <<>> ELSE Front(narrowed), 0)

\* A printable character other than q and the digits.
Type ==
    /\ Key /\ Len(narrowed) < MaxFilter
    /\ \E left \in SUBSET ToSet(Visible) : Render(Append(narrowed, left), 0)

\* Enter on nothing, and a digit past the end, do nothing.
Enter ==
    /\ phase = "picking"
    /\ selected + 1 \in DOMAIN Visible
    /\ Choose(Visible[selected + 1])

Digit ==
    /\ phase = "picking"
    /\ \E i \in DOMAIN Visible \cap (1 .. 9) : Choose(Visible[i])

Quit ==
    /\ phase = "picking"
    /\ phase' = "done"
    /\ dialed' = [NotYet EXCEPT !.reason = "cancelled"]
    /\ UNCHANGED <<request, picker>>

TargetNext == Match \/ OpenPicker \/ Up \/ Down \/ Erase \/ Type \/ Enter \/ Digit \/ Quit

TargetSpec == TargetInit /\ [][TargetNext]_targetVars

(***************************************************************************)
(* Properties                                                              *)
(***************************************************************************)

\* Whatever keys came before, the screen shows the hosts the next key will be
\* applied to, and while there is any, one of them is highlighted and is the
\* one that Enter takes -- also after the cursor has been at -1.
EnterTakesHighlighted ==
    phase = "picking" =>
        /\ screen.rows = Visible
        /\ Visible # <<>> => /\ selected + 1 \in DOMAIN Visible
                             /\ screen.at = selected

\* matchTarget's answer against its definition: among all pairs of a rule and a
\* host that it fits, the first rule, then the first host; an address that
\* belongs to no accessible host is dialed only where raw addresses are allowed.
Fits(rule, h, t) ==
    \/ rule = 1 /\ h.slug = t
    \/ rule = 2 /\ h.slug = Prefixed[t]
    \/ rule = 3 /\ h.name = t
    \/ rule = 4 /\ h.ip = t
    \/ rule = 5 /\ h.address # None /\ Hostname[h.address] = t

GrammarDialsBest ==
    LET fitting == {p \in (1 .. 5) \X DOMAIN hosts : Fits(p[1], hosts[p[2]], target)}
    IN  (phase = "done" /\ target # None) =>
            IF fitting # {}
            THEN \E p \in fitting :
                    /\ dialed.host = hosts[p[2]]
                    /\ \A q \in fitting : p[1] < q[1] \/ (p[1] = q[1] /\ p[2] <= q[2])
            ELSE /\ dialed.host = None
                 /\ dialed.reason = "dial" <=> (allowRaw /\ target \in IPs)

\* The two modes agree: a host taken from the list is the one its slug names
\* as a target, whatever names and addresses the other hosts have; only hosts
\* of the catalog are ever dialed, and none that discovery alone has seen.
SlugNamesPicked ==
    (dialed.reason = "dial" /\ dialed.host # None) =>
        /\ dialed.host.slug \in Targets => MatchTarget(dialed.host.slug, hosts) = dialed.host
        /\ \/ dialed.host.managed = "yes"
           \/ dialed.host.managed = "unset" /\ dialed.host.sources # {"scan"}

=============================================================================
