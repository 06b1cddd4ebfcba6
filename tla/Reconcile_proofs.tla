-------------------------- MODULE Reconcile_proofs --------------------------
(***************************************************************************)
(* For any set of passes and pages and any bounds: passes do not overlap,  *)
(* the gateway's key stays what Redis keeps, an outage takes no peers      *)
(* away, and nothing from the directory is replaced by something older.    *)
(***************************************************************************)
EXTENDS Reconcile, TLAPS

\* A pass that has begun is the one that inFlight holds; its documents are
\* asked for in this order.
Earlier == [peers |-> {}, clients |-> {"peers"}, roster |-> {"peers", "clients"}]

\* What a pass knows of a document: it has been fetched or looked up in vain.
Settled(p, d) ==
    \/ pc[p] \in {"ask", "store"} /\ d \in Earlier[doc[p]]
    \/ pc[p] = "iface"

\* From the read or the save of the keypair on, a pass holds the one in Redis.
KeyInv ==
    /\ published \in {stored, None} /\ installed \in {stored, None}
    /\ \A p \in Passes :
          /\ pc[p] \notin {"idle", "identity", "save"} => key[p] = stored /\ stored # None
          /\ pc[p] = "save" => stored = None /\ key[p] # None

\* Which documents can have come from the directory by now.
OrderInv ==
    /\ \A p \in Passes :
          /\ pc[p] \in {"idle", "identity", "save", "publish"} => doc[p] = "peers" /\ fresh[p] = {}
          /\ pc[p] = "ask" => fresh[p] \subseteq Earlier[doc[p]]
          /\ pc[p] = "store" => fresh[p] \subseteq Earlier[doc[p]] \cup {doc[p]}
    /\ \A f \in Fetchers : pc[f] = "store" => got[f][doc[f]] # None

\* No copy is younger than the directory, and what a pass has from the directory
\* is not older than what the interface was set from.
VersionInv ==
    /\ \A d \in Docs : iface[d] # None => iface[d] <= version
    /\ \A p \in Passes : \A d \in fresh[p] :
          got[p][d] # None /\ (iface[d] # None => got[p][d] >= iface[d])
    /\ \A p \in Passes, d \in Docs : got[p][d] # None => got[p][d] <= version
    /\ \A f \in Fetchers : pc[f] = "store" => got[f][doc[f]] <= version
    /\ \A d \in Docs : cache[d] # None => cache[d] <= version

\* While Redis has refused nothing, what the interface was set from is cached.
OutageInv ==
    refused = 0 => \A d \in Docs :
        /\ iface[d] # None => cache[d] # None
        /\ \A p \in Passes : Settled(p, d) =>
              /\ got[p][d] = None => iface[d] = None
              /\ got[p][d] # None => cache[d] # None

IInv == TypeOK /\ OnePassAtATime /\ KeyInv /\ OrderInv /\ VersionInv /\ OutageInv

\* What Over and Restart leave behind has a type.
LEMMA NoDocsTyped == NoDocs \in Documents
BY DEF NoDocs, Documents, Versions

PCs == {"idle", "identity", "save", "publish", "ask", "store", "iface", "netmaps", "exits"}

\* The part of TypeOK about fetchers and their passes.
FetchersTyped ==
    /\ inFlight \in Passes \cup {None}
    /\ pc \in [Fetchers -> PCs]
    /\ doc \in [Fetchers -> Docs]
    /\ got \in [Fetchers -> Documents]
    /\ fresh \in [Fetchers -> SUBSET Docs]
    /\ key \in [Passes -> Versions]

LEMMA OverTyped ==
    ASSUME TypeOK, NEW p \in Passes, Over(p)
    PROVE  FetchersTyped'
<1> USE DEF Over, TypeOK, Fetchers
<1>1. inFlight' \in Passes \cup {None} OBVIOUS
<1>2. pc' \in [Fetchers -> PCs] BY DEF PCs
<1>3. doc' \in [Fetchers -> Docs] BY DEF Docs
<1>4. got' \in [Fetchers -> Documents] BY NoDocsTyped
<1>5. fresh' \in [Fetchers -> SUBSET Docs] OBVIOUS
<1>6. key' \in [Passes -> Versions] BY DEF Versions
<1> QED BY <1>1, <1>2, <1>3, <1>4, <1>5, <1>6 DEF FetchersTyped

LEMMA AwaitTyped ==
    ASSUME TypeOK, NEW p \in Passes, NEW place \in PCs, Await(p, place), key' = key
    PROVE  FetchersTyped'
BY DEF TypeOK, FetchersTyped, Await, PCs, Fetchers

LEMMA AdvanceTyped ==
    ASSUME TypeOK, NEW f \in Fetchers, NEW v \in Versions, Advance(f, v)
    PROVE  FetchersTyped'
<1> USE DEF TypeOK, FetchersTyped, Fetchers
<1>1. [got EXCEPT ![f][doc[f]] = v] \in [Fetchers -> Documents]
  BY DEF Documents
<1>2. CASE f \in Passes /\ Over(f) BY <1>2, OverTyped
<1>3. CASE /\ doc' = [doc EXCEPT ![f] = "clients"] \/ doc' = [doc EXCEPT ![f] = "roster"] \/ doc' = doc
           /\ pc' = [pc EXCEPT ![f] = "ask"] \/ pc' = [pc EXCEPT ![f] = "iface"]
           /\ got' = [got EXCEPT ![f][doc[f]] = v]
           /\ UNCHANGED <<inFlight, fresh, key>>
  BY <1>1, <1>3 DEF Docs, PCs
<1>4. CASE /\ pc' = [pc EXCEPT ![f] = "idle"]
           /\ doc' = [doc EXCEPT ![f] = "peers"]
           /\ got' = [got EXCEPT ![f] = NoDocs]
           /\ fresh' = [fresh EXCEPT ![f] = {}]
           /\ UNCHANGED <<inFlight, key>>
  BY <1>4, NoDocsTyped DEF Docs, PCs
<1> QED BY <1>2, <1>3, <1>4, Zenon DEF Advance

LEMMA TickKeeps ==
    ASSUME IInv, NEW p \in Passes, Tick(p)
    PROVE  IInv'
<1> USE NoneAssumption, PassesAssumption, FetchersAssumption, BoundsAssumption DEF IInv, Fetchers
<1>1. TypeOK' BY DEF Tick, Start, TypeOK, directory, redis, kernel, bounds
<1>2. OnePassAtATime' BY DEF Tick, Start, TypeOK, OnePassAtATime
<1>3. KeyInv' BY DEF Tick, Start, TypeOK, KeyInv, directory, redis, kernel
<1>4. OrderInv' BY DEF Tick, Start, NextPass, TypeOK, OrderInv
<1>5. VersionInv' BY DEF Tick, Start, TypeOK, VersionInv, directory, redis, kernel
<1>6. OutageInv'
    BY
    DEF Tick, Start, TypeOK, OutageInv, Settled, redis, kernel, bounds
<1> QED BY <1>1, <1>2, <1>3, <1>4, <1>5, <1>6

LEMMA ReadIdentityKeeps ==
    ASSUME IInv, NEW p \in Passes, ReadIdentity(p)
    PROVE  IInv'
<1> USE NoneAssumption, PassesAssumption, FetchersAssumption, BoundsAssumption DEF IInv, Fetchers
<1>1. TypeOK'
  <2>1. FetchersTyped'
    <3>1. CASE Over(p) BY <3>1, OverTyped
    <3>2. CASE Await(p, "publish") /\ key' = [key EXCEPT ![p] = stored]
      BY <3>2 DEF Await, TypeOK, FetchersTyped, PCs
    <3>3. CASE Await(p, "save") /\ minted' = minted + 1 /\ key' = [key EXCEPT ![p] = minted']
      BY <3>3 DEF Await, TypeOK, FetchersTyped, PCs, Versions
    <3> QED BY <3>1, <3>2, <3>3, Zenon DEF ReadIdentity
  <2>2. UNCHANGED <<directory, redis, kernel>> /\ minted' \in Nat
    BY DEF ReadIdentity, TypeOK
  <2>3. UNCHANGED bounds \/ Refused BY Zenon DEF ReadIdentity
  <2> QED BY <2>1, <2>2, <2>3
      DEF TypeOK, FetchersTyped, PCs, Refused, directory, redis, kernel, bounds
<1>2. OnePassAtATime' BY DEF ReadIdentity, Await, Over, TypeOK, OnePassAtATime
<1>3. KeyInv'
    BY
    DEF ReadIdentity, Await, Over, TypeOK, KeyInv, directory, redis, kernel
<1>4. OrderInv' BY DEF ReadIdentity, Await, Over, TypeOK, OrderInv, Docs
<1>5. VersionInv'
    BY
    DEF ReadIdentity, Await, Over, TypeOK, VersionInv, directory, redis, kernel,
        NoDocs
<1>6. OutageInv'
    BY
    DEF ReadIdentity, Await, Refused, TypeOK, OutageInv, Settled, redis, kernel,
        bounds
<1> QED BY <1>1, <1>2, <1>3, <1>4, <1>5, <1>6

LEMMA SaveIdentityKeeps ==
    ASSUME IInv, NEW p \in Passes, SaveIdentity(p)
    PROVE  IInv'
<1> USE NoneAssumption, PassesAssumption, FetchersAssumption, BoundsAssumption DEF IInv, Fetchers
<1>1. TypeOK'
  <2>1. FetchersTyped'
    <3>1. CASE Over(p) BY <3>1, OverTyped
    <3>2. CASE Await(p, "publish") /\ key' = key
      BY <3>2, AwaitTyped DEF PCs
    <3> QED BY <3>1, <3>2, Zenon DEF SaveIdentity
  <2>2. UNCHANGED <<directory, minted, cache, kernel>> /\ (stored' = stored \/ stored' = key[p])
    BY Zenon DEF SaveIdentity, Await
  <2>3. UNCHANGED bounds \/ Refused BY Zenon DEF SaveIdentity
  <2> QED BY <2>1, <2>2, <2>3
      DEF TypeOK, FetchersTyped, PCs, Refused, directory, redis, kernel, bounds
<1>2. OnePassAtATime' BY DEF SaveIdentity, Await, Over, TypeOK, OnePassAtATime
<1>3. KeyInv'
    BY
    DEF SaveIdentity, Await, Over, TypeOK, OnePassAtATime, KeyInv, directory, kernel
<1>4. OrderInv' BY DEF SaveIdentity, Await, Over, Refused, TypeOK, OrderInv
<1>5. VersionInv'
    BY
    DEF SaveIdentity, Await, Over, TypeOK, VersionInv, directory, kernel, NoDocs
<1>6. OutageInv'
    BY
    DEF SaveIdentity, Await, Refused, TypeOK, OutageInv, Settled, kernel, bounds
<1> QED BY <1>1, <1>2, <1>3, <1>4, <1>5, <1>6

LEMMA PublishKeeps ==
    ASSUME IInv, NEW p \in Passes, Publish(p)
    PROVE  IInv'
<1> USE NoneAssumption, PassesAssumption, FetchersAssumption, BoundsAssumption DEF IInv, Fetchers
<1>1. TypeOK' BY DEF Publish, Await, Outage, TypeOK, redis, kernel, bounds
<1>2. OnePassAtATime' BY DEF Publish, Await, TypeOK, OnePassAtATime
<1>3. KeyInv' BY DEF Publish, Await, TypeOK, KeyInv, redis, kernel
<1>4. OrderInv' BY DEF Publish, Await, TypeOK, OrderInv
<1>5. VersionInv' BY DEF Publish, Await, TypeOK, VersionInv, redis, kernel
<1>6. OutageInv'
    BY
    DEF Publish, Await, Outage, TypeOK, OrderInv, OutageInv, Settled, redis, kernel,
        bounds, Earlier
<1> QED BY <1>1, <1>2, <1>3, <1>4, <1>5, <1>6

LEMMA AnswerKeeps ==
    ASSUME IInv, NEW p \in Passes, Answer(p)
    PROVE  IInv'
<1> USE NoneAssumption, PassesAssumption, FetchersAssumption, BoundsAssumption DEF IInv, Fetchers
<1>1. TypeOK'
    BY
    DEF Answer, Answered, TypeOK, Versions, Documents, directory, redis, kernel,
        bounds
<1>2. OnePassAtATime' BY DEF Answer, Answered, TypeOK, OnePassAtATime
<1>3. KeyInv' BY DEF Answer, Answered, TypeOK, KeyInv, directory, redis, kernel
<1>4. OrderInv' BY DEF Answer, Answered, TypeOK, OrderInv, redis, Documents
<1>5. VersionInv'
    BY
    DEF Answer, Answered, TypeOK, VersionInv, directory, redis, kernel, Documents
<1>6. OutageInv'
    BY
    DEF Answer, Answered, TypeOK, OutageInv, Settled, redis, kernel, bounds, Docs,
        Earlier
<1> QED BY <1>1, <1>2, <1>3, <1>4, <1>5, <1>6

LEMMA OpenPageKeeps ==
    ASSUME IInv, NEW g \in Pages, OpenPage(g)
    PROVE  IInv'
<1> USE NoneAssumption, PassesAssumption, FetchersAssumption, BoundsAssumption DEF IInv, Fetchers
<1>1. TypeOK'
    BY
    DEF OpenPage, Answered, TypeOK, Versions, Documents, directory, redis, kernel,
        bounds
<1>2. OnePassAtATime' BY DEF OpenPage, Answered, TypeOK, OnePassAtATime
<1>3. KeyInv' BY DEF OpenPage, Answered, TypeOK, KeyInv, directory, redis, kernel
<1>4. OrderInv' BY DEF OpenPage, Answered, TypeOK, OrderInv, Documents
<1>5. VersionInv'
    BY
    DEF OpenPage, Answered, TypeOK, VersionInv, directory, redis, kernel, Documents
<1>6. OutageInv'
    BY
    DEF OpenPage, Answered, TypeOK, OutageInv, Settled, redis, kernel, bounds
<1> QED BY <1>1, <1>2, <1>3, <1>4, <1>5, <1>6

LEMMA StoreKeeps ==
    ASSUME IInv, NEW f \in Fetchers, Store(f)
    PROVE  IInv'
<1> USE NoneAssumption, PassesAssumption, FetchersAssumption, BoundsAssumption DEF IInv, Fetchers
<1>1. TypeOK'
  <2>1. FetchersTyped' BY AdvanceTyped DEF Store, TypeOK, Documents
  <2>2. /\ UNCHANGED <<directory, minted, stored, kernel>>
        /\ cache' = [cache EXCEPT ![doc[f]] = got[f][doc[f]]] \/ cache' = cache
    BY Zenon DEF Store
  <2>3. cache' \in Documents BY <2>2 DEF TypeOK, Documents
  <2>4. UNCHANGED bounds \/ Refused BY Zenon DEF Store
  <2> QED BY <2>1, <2>2, <2>3, <2>4
      DEF TypeOK, FetchersTyped, PCs, Refused, directory, kernel, bounds
<1>2. OnePassAtATime' BY DEF Store, Advance, Over, TypeOK, OnePassAtATime
<1>3. KeyInv' BY DEF Store, Advance, Over, TypeOK, KeyInv, directory, kernel
<1>4. OrderInv' BY DEF Store, Advance, Over, TypeOK, OrderInv, Earlier
<1>5. VersionInv'
    BY
    DEF Store, Advance, Over, TypeOK, OnePassAtATime, VersionInv, directory, kernel,
        Docs, NoDocs, Documents, Versions, Earlier
<1>6. OutageInv'
    BY
    DEF Store, Advance, Over, Refused, TypeOK, OrderInv, OutageInv, Settled, kernel,
        bounds, Docs, Documents, Earlier
<1> QED BY <1>1, <1>2, <1>3, <1>4, <1>5, <1>6

LEMMA FallBackKeeps ==
    ASSUME IInv, NEW p \in Passes, FallBack(p)
    PROVE  IInv'
<1> USE NoneAssumption, PassesAssumption, FetchersAssumption, BoundsAssumption DEF IInv, Fetchers
<1>1. TypeOK'
  <2>1. PICK v \in Versions : Advance(p, v)
    BY DEF FallBack, TypeOK, Documents, Versions
  <2>2. FetchersTyped' BY <2>1, AdvanceTyped
  <2> QED BY <2>2
      DEF FallBack, Outage, TypeOK, FetchersTyped, PCs, directory, redis, kernel
<1>2. OnePassAtATime' BY DEF FallBack, Advance, Over, TypeOK, OnePassAtATime
<1>3. KeyInv'
    BY
    DEF FallBack, Advance, Over, TypeOK, KeyInv, directory, redis, kernel
<1>4. OrderInv' BY DEF FallBack, Advance, Over, TypeOK, OrderInv, Earlier
<1>5. VersionInv'
  <2>1. PICK v \in Versions : Advance(p, v) /\ (v # None => v <= version)
    BY DEF FallBack, TypeOK, VersionInv, Documents, Versions
  <2>2. pc[p] = "ask" /\ UNCHANGED <<version, cache, iface>>
    BY DEF FallBack, directory, redis, kernel
  <2>3. doc[p] \in Docs /\ doc[p] \notin fresh[p]
    BY <2>2 DEF TypeOK, OrderInv, Docs, Earlier
  <2>4. \A f \in Fetchers \ {p} : pc'[f] = pc[f] /\ doc'[f] = doc[f] /\ got'[f] = got[f]
    BY <2>1 DEF Advance, Over, TypeOK
  <2>5. /\ \A q \in Passes \ {p} : fresh'[q] = fresh[q]
        /\ pc'[p] # "store"
    BY <2>1 DEF Advance, Over, TypeOK
  <2>6. \/ got'[p] = [got[p] EXCEPT ![doc[p]] = v] /\ fresh'[p] = fresh[p]
        \/ got'[p] = NoDocs /\ fresh'[p] = {}
    BY <2>1 DEF Advance, Over, TypeOK
  <2>7. \A d \in fresh'[p] : got'[p][d] = got[p][d] /\ d \in fresh[p]
    BY <2>3, <2>6 DEF TypeOK, Docs, Documents
  <2>8. \A d \in Docs : got'[p][d] # None => got'[p][d] <= version
    BY <2>1, <2>3, <2>6 DEF VersionInv, TypeOK, NoDocs, Docs, Documents
  <2>9. \A q \in Passes : \A d \in fresh'[q] :
            got'[q][d] # None /\ (iface'[d] # None => got'[q][d] >= iface'[d])
    <3> SUFFICES ASSUME NEW q \in Passes, NEW d \in fresh'[q]
                 PROVE  got'[q][d] # None /\ (iface'[d] # None => got'[q][d] >= iface'[d])
      OBVIOUS
    <3>1. d \in fresh[q] /\ got'[q][d] = got[q][d] BY <2>4, <2>5, <2>7
    <3> QED BY <2>2, <3>1 DEF VersionInv
  <2>10. \A q \in Passes, d \in Docs : got'[q][d] # None => got'[q][d] <= version'
    BY <2>2, <2>4, <2>8 DEF VersionInv
  <2>11. \A f \in Fetchers : pc'[f] = "store" => got'[f][doc'[f]] <= version'
    BY <2>2, <2>4, <2>5 DEF VersionInv
  <2> QED BY <2>2, <2>9, <2>10, <2>11 DEF VersionInv
<1>6. OutageInv'
  <2>1. pc[p] = "ask" /\ UNCHANGED <<cache, iface>>
      BY DEF FallBack, redis, kernel
  <2>2. refused' = 0 => refused = 0 /\ Advance(p, cache[doc[p]])
      BY DEF FallBack, Outage, TypeOK
  <2>3. CASE refused = 0 /\ Advance(p, cache[doc[p]])
      BY <2>1, <2>3
      DEF Advance, Over, TypeOK, OutageInv, Settled, Docs, Documents, Earlier
  <2> QED BY <2>2, <2>3 DEF OutageInv
<1> QED BY <1>1, <1>2, <1>3, <1>4, <1>5, <1>6

LEMMA ApplyPeersKeeps ==
    ASSUME IInv, NEW p \in Passes, ApplyPeers(p)
    PROVE  IInv'
<1> USE NoneAssumption, PassesAssumption, FetchersAssumption, BoundsAssumption DEF IInv, Fetchers
<1>1. TypeOK'
  <2>1. FetchersTyped'
    <3>1. CASE Over(p) BY <3>1, OverTyped
    <3>2. CASE Await(p, "netmaps") /\ key' = key
      BY <3>2, AwaitTyped DEF PCs
    <3> QED BY <3>1, <3>2, Zenon DEF ApplyPeers
  <2>2. /\ UNCHANGED <<directory, minted, redis, exits>>
        /\ installed' = key[p] \/ installed' = installed
        /\ iface' = got[p] \/ iface' = iface
    BY Zenon DEF ApplyPeers, Await
  <2>3. UNCHANGED bounds \/ Outage BY Zenon DEF ApplyPeers
  <2> QED BY <2>1, <2>2, <2>3
      DEF TypeOK, FetchersTyped, PCs, Fetchers, Outage, directory, redis, kernel,
          bounds
<1>2. OnePassAtATime' BY DEF ApplyPeers, Await, Over, TypeOK, OnePassAtATime
<1>3. KeyInv' BY DEF ApplyPeers, Await, Over, TypeOK, KeyInv, directory, redis
<1>4. OrderInv' BY DEF ApplyPeers, Await, Over, TypeOK, OrderInv
<1>5. VersionInv'
  <2>1. CASE Over(p) /\ iface' = iface
    BY <2>1
    DEF ApplyPeers, Over, Outage, TypeOK, VersionInv, directory, redis, NoDocs, Docs
  <2>2. CASE iface' = got[p] /\ Await(p, "netmaps")
    <3>1. \A q \in Passes : q # p => fresh[q] = {}
      BY DEF ApplyPeers, OnePassAtATime, OrderInv
    <3>2. UNCHANGED <<version, cache, doc, got, fresh>> /\ pc' = [pc EXCEPT ![p] = "netmaps"]
      BY <2>2 DEF ApplyPeers, Await, directory, redis
    <3>3. \A d \in Docs : iface'[d] # None => iface'[d] <= version'
      BY <2>2, <3>2 DEF VersionInv
    <3>4. ASSUME NEW q \in Passes, NEW d \in fresh[q]
          PROVE  got[q][d] # None /\ (iface'[d] # None => got[q][d] >= iface'[d])
      <4>1. q = p BY <3>1
      <4>2. d \in Docs BY DEF TypeOK
      <4>3. got[p][d] \in Versions BY <4>2 DEF TypeOK, Documents
      <4> QED BY <2>2, <4>1, <4>3 DEF VersionInv, Versions
    <3>5. \A f \in Fetchers : pc'[f] = "store" => pc[f] = "store"
      BY <3>2 DEF TypeOK
    <3> QED BY <3>2, <3>3, <3>4, <3>5 DEF VersionInv
  <2>3. CASE iface' = got[p] /\ Over(p)
    <3>1. \A q \in Passes : q # p => fresh[q] = {}
      BY DEF ApplyPeers, OnePassAtATime, OrderInv
    <3>2. /\ UNCHANGED <<version, cache>>
          /\ pc' = [pc EXCEPT ![p] = "idle"] /\ doc' = [doc EXCEPT ![p] = "peers"]
          /\ got' = [got EXCEPT ![p] = NoDocs] /\ fresh' = [fresh EXCEPT ![p] = {}]
      BY <2>3 DEF ApplyPeers, Over, directory, redis
    <3>3. \A d \in Docs : iface'[d] # None => iface'[d] <= version'
      BY <2>3, <3>2 DEF VersionInv
    <3>4. \A q \in Passes : fresh'[q] = {}
      BY <3>1, <3>2 DEF TypeOK
    <3> QED BY <3>2, <3>3, <3>4 DEF VersionInv, TypeOK, NoDocs
  <2> QED BY <2>1, <2>2, <2>3, Zenon DEF ApplyPeers
<1>6. OutageInv'
    BY
    DEF ApplyPeers, Await, Over, Outage, TypeOK, OnePassAtATime, OutageInv, Settled,
        redis, bounds
<1> QED BY <1>1, <1>2, <1>3, <1>4, <1>5, <1>6

LEMMA ApplyNetmapsKeeps ==
    ASSUME IInv, NEW p \in Passes, ApplyNetmaps(p)
    PROVE  IInv'
<1> USE NoneAssumption, PassesAssumption, FetchersAssumption, BoundsAssumption DEF IInv, Fetchers
<1>1. TypeOK'
  <2>1. FetchersTyped'
    <3>1. CASE Over(p) BY <3>1, OverTyped
    <3>2. CASE Await(p, "exits") /\ key' = key
      BY <3>2, AwaitTyped DEF PCs
    <3> QED BY <3>1, <3>2, Zenon DEF ApplyNetmaps
  <2>2. UNCHANGED <<directory, minted, redis, kernel>>
    BY Zenon DEF ApplyNetmaps, Await
  <2>3. UNCHANGED bounds \/ Refused BY Zenon DEF ApplyNetmaps
  <2> QED BY <2>1, <2>2, <2>3
      DEF TypeOK, FetchersTyped, PCs, Refused, directory, redis, kernel, bounds
<1>2. OnePassAtATime' BY DEF ApplyNetmaps, Await, Over, TypeOK, OnePassAtATime
<1>3. KeyInv'
    BY
    DEF ApplyNetmaps, Await, Over, TypeOK, KeyInv, directory, redis, kernel
<1>4. OrderInv' BY DEF ApplyNetmaps, Await, Over, TypeOK, OrderInv, NoDocs
<1>5. VersionInv'
    BY
    DEF ApplyNetmaps, Await, Over, TypeOK, VersionInv, directory, redis, kernel,
        NoDocs
<1>6. OutageInv'
    BY
    DEF ApplyNetmaps, Await, Refused, TypeOK, OutageInv, Settled, redis, kernel,
        bounds
<1> QED BY <1>1, <1>2, <1>3, <1>4, <1>5, <1>6

LEMMA ApplyExitsKeeps ==
    ASSUME IInv, NEW p \in Passes, ApplyExits(p)
    PROVE  IInv'
<1> USE NoneAssumption, PassesAssumption, FetchersAssumption, BoundsAssumption DEF IInv, Fetchers
<1>1. TypeOK'
  <2>1. FetchersTyped' BY OverTyped DEF ApplyExits
  <2> QED BY <2>1
      DEF ApplyExits, TypeOK, FetchersTyped, PCs, Fetchers, directory, redis, bounds
<1>2. OnePassAtATime' BY DEF ApplyExits, Over, TypeOK, OnePassAtATime
<1>3. KeyInv' BY DEF ApplyExits, Over, TypeOK, KeyInv, directory, redis
<1>4. OrderInv' BY DEF ApplyExits, Over, TypeOK, OrderInv
<1>5. VersionInv'
    BY
    DEF ApplyExits, Over, TypeOK, VersionInv, directory, redis, NoDocs
<1>6. OutageInv' BY DEF ApplyExits, Over, TypeOK, OutageInv, Settled, redis, bounds
<1> QED BY <1>1, <1>2, <1>3, <1>4, <1>5, <1>6

LEMMA EditKeeps ==
    ASSUME IInv, Edit
    PROVE  IInv'
<1> USE NoneAssumption, PassesAssumption, FetchersAssumption, BoundsAssumption DEF IInv, Fetchers
<1>1. TypeOK' BY DEF Edit, TypeOK, redis, fetches, kernel, bounds
<1>2. OnePassAtATime' BY DEF Edit, TypeOK, OnePassAtATime, fetches
<1>3. KeyInv' BY DEF Edit, TypeOK, KeyInv, redis, fetches, kernel
<1>4. OrderInv' BY DEF Edit, TypeOK, OrderInv, fetches
<1>5. VersionInv'
    BY
    DEF Edit, TypeOK, OrderInv, VersionInv, redis, fetches, kernel, Documents,
        Versions
<1>6. OutageInv'
    BY
    DEF Edit, TypeOK, OutageInv, Settled, redis, fetches, kernel, bounds
<1> QED BY <1>1, <1>2, <1>3, <1>4, <1>5, <1>6

LEMMA RestartKeeps ==
    ASSUME IInv, Restart
    PROVE  IInv'
<1> USE NoneAssumption, PassesAssumption, FetchersAssumption, BoundsAssumption DEF IInv, Fetchers
<1>1. TypeOK'
    BY NoDocsTyped
    DEF Restart, Outage, TypeOK, directory, redis, kernel, Versions, Docs
<1>2. OnePassAtATime' BY DEF Restart, TypeOK, OnePassAtATime
<1>3. KeyInv' BY DEF Restart, TypeOK, KeyInv, directory, redis, kernel
<1>4. OrderInv' BY DEF Restart, TypeOK, OrderInv
<1>5. VersionInv'
    BY
    DEF Restart, TypeOK, VersionInv, directory, redis, kernel, NoDocs
<1>6. OutageInv'
    BY
    DEF Restart, Outage, TypeOK, OutageInv, Settled, redis, kernel, NoDocs
<1> QED BY <1>1, <1>2, <1>3, <1>4, <1>5, <1>6

LEMMA NextKeeps == IInv /\ [Next]_vars => IInv'
<1> SUFFICES ASSUME IInv, [Next]_vars PROVE IInv' OBVIOUS
<1>1. CASE UNCHANGED vars
  <2> USE <1>1 DEF vars, directory, redis, fetches, kernel, bounds
  <2>1. TypeOK' /\ OnePassAtATime' BY DEF IInv, TypeOK, OnePassAtATime
  <2>2. KeyInv' /\ OrderInv' BY DEF IInv, KeyInv, OrderInv
  <2>3. VersionInv' /\ OutageInv' BY DEF IInv, VersionInv, OutageInv, Settled
  <2> QED BY <2>1, <2>2, <2>3 DEF IInv
<1>2. ASSUME NEW p \in Passes, Tick(p) \/ PassStep(p) PROVE IInv'
  <2>1. p \in Fetchers BY DEF Fetchers
  <2> QED
    BY <1>2, <2>1, TickKeeps, ReadIdentityKeeps, SaveIdentityKeeps, PublishKeeps, AnswerKeeps,
       StoreKeeps, FallBackKeeps, ApplyPeersKeeps, ApplyNetmapsKeeps, ApplyExitsKeeps
    DEF PassStep
<1>3. ASSUME NEW g \in Pages, OpenPage(g) \/ Store(g) PROVE IInv'
  BY <1>3, OpenPageKeeps, StoreKeeps DEF Fetchers
<1> QED BY <1>1, <1>2, <1>3, EditKeeps, RestartKeeps DEF Next

\* The invariant the theorems rest on: who holds inFlight, what a pass has found
\* out so far, and where each copy of a document can have come from.
THEOREM ReconcileInvariant == Spec => []IInv
<1>1. Init => IInv
  <2> SUFFICES ASSUME Init PROVE IInv OBVIOUS
  <2> USE NoneAssumption, BoundsAssumption DEF Init, Fetchers
  <2>1. TypeOK BY NoDocsTyped DEF TypeOK, Versions, Docs
  <2>2. OnePassAtATime BY PassesAssumption DEF OnePassAtATime
  <2>3. KeyInv /\ OrderInv BY DEF KeyInv, OrderInv
  <2>4. VersionInv BY DEF VersionInv, NoDocs
  <2>5. OutageInv BY DEF OutageInv, NoDocs, Settled
  <2> QED BY <2>1, <2>2, <2>3, <2>4, <2>5 DEF IInv
<1> QED BY <1>1, NextKeeps, PTL DEF Spec

\* Every variable keeps its type, whatever fails and whenever it is killed.
THEOREM TypesKept == Spec => []TypeOK
BY ReconcileInvariant, PTL DEF IInv

\* runReconcile serializes: however many timers and requests come, the pass that
\* is under way is the one inFlight holds, and no pass leaves it behind.
THEOREM PassesDoNotOverlap == Spec => []OnePassAtATime
BY ReconcileInvariant, PTL DEF IInv

\* The key that peers are told and the key on the interface are the stored one.
THEOREM KeysAgree == Spec => []OneIdentity
<1>1. IInv => OneIdentity BY DEF IInv, KeyInv, OneIdentity
<1> QED BY <1>1, ReconcileInvariant, PTL

\* A gateway's keypair, once in Redis, is never replaced: a pass that found none
\* is the only one, and none is there until it saves its own.
THEOREM KeyIsForGood == Spec => IdentityStays
<1>1. ASSUME IInv, [Next]_vars PROVE [stored # None => stored' = stored]_vars
  <2>1. CASE UNCHANGED vars BY <2>1
  <2>2. ASSUME NEW p \in Passes, SaveIdentity(p) PROVE stored = None
    <3>1. pc[p] = "save" BY <2>2 DEF SaveIdentity
    <3> QED BY <1>1, <3>1 DEF IInv, KeyInv
  <2>3. ASSUME NEW p \in Passes, Tick(p) \/ PassStep(p), ~SaveIdentity(p) PROVE stored' = stored
    BY <2>3
    DEF Tick, PassStep, ReadIdentity, Publish, Answer, Answered, Store, FallBack,
                ApplyPeers, ApplyNetmaps, ApplyExits, redis
  <2>4. ASSUME NEW g \in Pages, OpenPage(g) \/ Store(g) PROVE stored' = stored
    BY <2>4 DEF OpenPage, Answered, Store, redis
  <2>5. Edit \/ Restart => stored' = stored BY DEF Edit, Restart, redis
  <2> QED BY <1>1, <2>1, <2>2, <2>3, <2>4, <2>5 DEF Next
<1> QED BY <1>1, ReconcileInvariant, PTL DEF Spec, IdentityStays

\* The steps that touch wg-mesh.
LEMMA KernelSteps ==
    ASSUME [Next]_vars
    PROVE  iface' \in {iface, NoDocs} \/ \E p \in Passes : ApplyPeers(p)
<1>1. CASE UNCHANGED vars BY <1>1 DEF vars, kernel
<1>2. ASSUME NEW p \in Passes, Tick(p) \/ PassStep(p), ~ApplyPeers(p) PROVE iface' = iface
  BY <1>2
  DEF Tick, PassStep, ReadIdentity, SaveIdentity, Publish, Answer, Answered, Store,
              FallBack, ApplyNetmaps, ApplyExits, kernel
<1>3. ASSUME NEW g \in Pages, OpenPage(g) \/ Store(g) PROVE iface' = iface
  BY <1>3 DEF OpenPage, Answered, Store, kernel
<1>4. Edit \/ Restart => iface' \in {iface, NoDocs} BY DEF Edit, Restart, kernel
<1> QED BY <1>1, <1>2, <1>3, <1>4 DEF Next

\* Redis commands are only ever refused, never unrefused.
LEMMA RefusalsStay == ASSUME IInv, [Next]_vars, refused' = 0 PROVE refused = 0
<1> USE DEF IInv, TypeOK, Outage, Refused, bounds
<1>1. CASE UNCHANGED vars BY <1>1 DEF vars
<1>2. ASSUME NEW p \in Passes, Tick(p) \/ PassStep(p) PROVE refused = 0
  <2>1. CASE Tick(p) \/ Answer(p) \/ ApplyExits(p)
    BY <2>1 DEF Tick, Answer, Answered, ApplyExits
  <2>2. CASE ReadIdentity(p) \/ SaveIdentity(p) \/ Publish(p)
    BY <2>2 DEF ReadIdentity, SaveIdentity, Publish
  <2>3. CASE Store(p) \/ FallBack(p) BY <2>3 DEF Store, FallBack
  <2>4. CASE ApplyPeers(p) \/ ApplyNetmaps(p) BY <2>4 DEF ApplyPeers, ApplyNetmaps
  <2> QED BY <1>2, <2>1, <2>2, <2>3, <2>4 DEF PassStep
<1>3. ASSUME NEW g \in Pages, OpenPage(g) \/ Store(g) PROVE refused = 0
  BY <1>3 DEF OpenPage, Answered, Store
<1>4. Edit \/ Restart => refused = 0 BY DEF Edit, Restart
<1> QED BY <1>1, <1>2, <1>3, <1>4 DEF Next

\* As long as Redis refuses nothing, no pass takes from the interface a document
\* it was set from, whichever fetches fail and whatever restarts there are.
THEOREM OutageKeepsWhatWasKnown == Spec => OutageKeepsPeers
<1> DEFINE Kept == \A d \in Docs :
             refused' = 0 /\ iface[d] # None /\ iface' # NoDocs => iface'[d] # None
<1>1. ASSUME IInv, [Next]_vars PROVE [Kept]_vars
  <2>1. CASE iface' \in {iface, NoDocs} BY <2>1
  <2>2. ASSUME NEW p \in Passes, ApplyPeers(p), refused' = 0, NEW d \in Docs, iface[d] # None
        PROVE  iface'[d] # None
    <3>1. refused = 0 BY <1>1, <2>2, RefusalsStay
    <3>2. Settled(p, d) BY <2>2 DEF ApplyPeers, Settled
    <3>3. got[p][d] # None BY <1>1, <2>2, <3>1, <3>2 DEF IInv, OutageInv
    <3> QED BY <2>2, <3>3 DEF ApplyPeers
  <2> QED BY <1>1, <2>1, <2>2, KernelSteps
<1> QED BY <1>1, ReconcileInvariant, PTL DEF Spec, OutageKeepsPeers

\* A document that a pass has from the directory is never applied over a younger
\* one, for passes do not overlap.
THEOREM NothingGoesBack == Spec => NeverBackwards
<1> DEFINE Forward == \A p \in Passes : pc[p] = "iface" /\ iface' # NoDocs
             => \A d \in fresh[p] : iface[d] # None => iface'[d] >= iface[d]
<1>1. ASSUME IInv, [Next]_vars PROVE [Forward]_vars
  <2> SUFFICES ASSUME NEW p \in Passes, pc[p] = "iface", iface' # NoDocs,
                      NEW d \in fresh[p], iface[d] # None
               PROVE  iface'[d] >= iface[d]
    OBVIOUS
  <2> USE <1>1, NoneAssumption DEF IInv
  <2>1. d \in Docs BY FetchersAssumption DEF TypeOK, Fetchers
  <2>2. iface[d] \in Nat BY <2>1 DEF TypeOK, Documents, Versions
  <2>3. CASE iface' = iface BY <2>2, <2>3
  <2>4. ASSUME NEW q \in Passes, ApplyPeers(q), iface' # iface PROVE iface'[d] >= iface[d]
    <3>1. q = p BY <2>4 DEF ApplyPeers, OnePassAtATime
    <3>2. iface' = got[p] BY <2>4, <3>1 DEF ApplyPeers
    <3> QED BY <3>2 DEF VersionInv
  <2> QED BY <2>3, <2>4, KernelSteps
<1> QED BY <1>1, ReconcileInvariant, PTL DEF Spec, NeverBackwards

=============================================================================
