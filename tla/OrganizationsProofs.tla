-------------------------- MODULE OrganizationsProofs --------------------------
(***************************************************************************)
(* Theorems about Organizations for any nodes, domains and names, any      *)
(* TOML files and any number of updates.                                   *)
(***************************************************************************)
EXTENDS Organizations, FiniteSetTheorems, TLAPS

OrgOf(N, n) == N.nodes[n].organizationId
Lists(N, n) ==
  OrgOf(N, n) # None =>
    OrgOf(N, n) \in DOMAIN N.organizations /\ n \in N.organizations[OrgOf(N, n)].validators

\* A node that is not listed by its organization is as a save has left it, and that save
\* has ignored a change of it.
Current ==
  /\ \A n \in Known(network) :
       Lists(network, n) \/ (n \in unsaved /\ OrgOf(network, n) = OrgOf(saved, n))
  /\ \A n \in Known(saved) : Lists(saved, n) \/ n \in unsaved
  /\ Known(saved) \subseteq Known(network) /\ unsaved \subseteq Known(saved)

IInv == TypeOK /\ Current
-----------------------------------------------------------------------------
(* What the operators on networks preserve. *)

LEMMA WithOrganizationType ==
  ASSUME NEW N, IsNetwork(N), NEW id \in OrgId, NEW toml \in Toml
  PROVE  LET M == WithOrganization(N, id, toml) IN
         /\ IsNetwork(M) /\ M.nodes = N.nodes
         /\ DOMAIN M.organizations = DOMAIN N.organizations \cup {id}
         /\ \A o \in DOMAIN N.organizations :
              M.organizations[o].validators = N.organizations[o].validators
  <1> DEFINE M == WithOrganization(N, id, toml)
  <1> DEFINE D == DOMAIN N.organizations
  <1>0. N = [nodes |-> N.nodes, organizations |-> N.organizations]
    BY DEF IsNetwork
  <1>1. M = [nodes |-> N.nodes, organizations |-> M.organizations]
    BY <1>0 DEF WithOrganization
  <1>2. M.organizations = [o \in D \cup {id} |->
          IF o # id THEN N.organizations[o]
          ELSE [homeDomain |-> toml.domain,
                validators |-> IF id \in D THEN N.organizations[id].validators ELSE {}]]
    BY DEF WithOrganization, IsNetwork
  <1>3. toml.domain \in Domain
    BY DEF Toml
  <1>4. \A o \in D : N.organizations[o] \in OrgData
    BY DEF IsNetwork
  <1>5. \A o \in D \cup {id} : M.organizations[o] \in OrgData
    BY <1>2, <1>3, <1>4 DEF OrgData
  <1>6. \A o \in D : M.organizations[o].validators = N.organizations[o].validators
    BY <1>2
  <1> HIDE DEF M
  <1>7. IsNetwork(M)
    <2>1. M.organizations \in [D \cup {id} -> OrgData] /\ DOMAIN M.organizations = D \cup {id}
      BY <1>2, <1>5
    <2>2. M = [nodes |-> M.nodes, organizations |-> M.organizations] /\ M.nodes = N.nodes
      BY <1>1
    <2>3. D \cup {id} \subseteq OrgId
      BY DEF IsNetwork
    <2>4. DOMAIN N.nodes \subseteq Node /\ N.nodes \in [DOMAIN N.nodes -> NodeData]
      BY DEF IsNetwork
    <2> HIDE DEF D
    <2>5. QED
      BY <2>1, <2>2, <2>3, <2>4 DEF IsNetwork
  <1>8. QED
    BY <1>1, <1>2, <1>6, <1>7 DEF M

LEMMA WithValidatorsType ==
  ASSUME NEW N, IsNetwork(N), NEW S, NEW id \in DOMAIN N.organizations, NEW toml \in Toml
  PROVE  LET M == WithValidators(N, S, id, toml) IN
         /\ IsNetwork(M) /\ Known(M) = Known(N)
         /\ DOMAIN M.organizations = DOMAIN N.organizations
  <1> DEFINE M == WithValidators(N, S, id, toml)
  <1>1. M = [nodes |-> M.nodes, organizations |-> M.organizations]
    BY DEF WithValidators
  <1>2. DOMAIN M.nodes = DOMAIN N.nodes /\ DOMAIN M.organizations = DOMAIN N.organizations
    BY DEF WithValidators, Known
  <1>3. \A n \in Known(N) : M.nodes[n] \in NodeData
    <2>1. \A n \in Known(N) : N.nodes[n] \in NodeData
      BY DEF IsNetwork, Known
    <2>2. \A n \in Known(N) : \A o \in OrgId \cup {None} :
            [N.nodes[n] EXCEPT !.organizationId = o] \in NodeData
      BY <2>1 DEF NodeData
    <2>3. id \in OrgId
      BY DEF IsNetwork
    <2>4. QED
      BY <2>1, <2>2, <2>3 DEF WithValidators
  <1>4. \A o \in DOMAIN N.organizations : M.organizations[o] \in OrgData
    <2>1. \A o \in DOMAIN N.organizations : N.organizations[o] \in OrgData
      BY DEF IsNetwork
    <2>2. Detected(N, toml) \subseteq Node
      BY DEF Detected, Claimed, Toml
    <2>3. QED
      BY <2>1, <2>2 DEF WithValidators, OrgData
  <1>5. M.nodes = [n \in DOMAIN M.nodes |-> M.nodes[n]]
        /\ M.organizations = [o \in DOMAIN M.organizations |-> M.organizations[o]]
    BY DEF WithValidators
  <1> HIDE DEF M
  <1>6. IsNetwork(M)
    BY <1>1, <1>2, <1>3, <1>4, <1>5 DEF IsNetwork, Known
  <1>7. QED
    BY <1>2, <1>6 DEF M, Known

\* A file leaves a node with an organization that lists it, or as it was.
LEMMA WithValidatorsLists ==
  ASSUME NEW N, IsNetwork(N), NEW S, NEW id \in DOMAIN N.organizations, NEW toml \in Toml,
         NEW n \in Known(N)
  PROVE  LET M == WithValidators(N, S, id, toml) IN
         \/ Lists(M, n)
         \/ ~Lists(N, n) /\ OrgOf(M, n) = OrgOf(N, n)
  <1> DEFINE M == WithValidators(N, S, id, toml)
  <1>0. N.nodes[n] \in NodeData
    BY DEF IsNetwork, Known
  <1>1. CASE n \in Claimed(N, toml)
    <2>1. OrgOf(M, n) = id
      BY <1>0, <1>1 DEF WithValidators, OrgOf, NodeData
    <2>2. M.organizations[id].validators = Detected(N, toml) /\ id \in DOMAIN M.organizations
      BY DEF WithValidators, IsNetwork, OrgData
    <2>3. QED
      BY <1>1, <2>1, <2>2 DEF Lists, Detected
  <1>2. CASE n \notin Claimed(N, toml) /\ n \in Removed(N, id, toml)
    <2>1. OrgOf(M, n) = None
      BY <1>0, <1>2 DEF WithValidators, OrgOf, NodeData
    <2>2. QED
      BY <2>1 DEF Lists
  <1>3. CASE n \notin Claimed(N, toml) /\ n \notin Removed(N, id, toml)
    <2>1. OrgOf(M, n) = OrgOf(N, n)
      BY <1>3 DEF WithValidators, OrgOf
    <2>2. ASSUME Lists(N, n), OrgOf(N, n) # None
          PROVE  Lists(M, n)
      <3> DEFINE o == OrgOf(N, n)
      <3>1. o \in DOMAIN N.organizations /\ n \in N.organizations[o].validators
        BY <2>2 DEF Lists
      <3>2. N.organizations[o] \in OrgData
        BY <3>1 DEF IsNetwork
      <3>3. CASE o = id
        <4>1. n \in Detected(N, toml)
          BY <1>3, <3>1, <3>3 DEF Removed
        <4>2. M.organizations[id].validators = Detected(N, toml) /\ id \in DOMAIN M.organizations
          BY DEF WithValidators, IsNetwork, OrgData
        <4>3. QED
          BY <2>1, <3>3, <4>1, <4>2 DEF Lists
      <3>4. CASE o # id
        <4>1. n \notin SwitchedFrom(N, S, o, id, toml)
          BY <1>3 DEF SwitchedFrom
        <4>2. M.organizations[o].validators
                = N.organizations[o].validators \ SwitchedFrom(N, S, o, id, toml)
              /\ o \in DOMAIN M.organizations
          BY <3>1, <3>2, <3>4 DEF WithValidators, OrgData
        <4>3. QED
          BY <2>1, <3>1, <4>1, <4>2 DEF Lists
      <3>5. QED
        BY <3>3, <3>4
    <2>3. ASSUME OrgOf(N, n) = None
          PROVE  Lists(M, n)
      BY <2>1, <2>3 DEF Lists
    <2>4. QED
      BY <2>1, <2>2, <2>3
  <1>4. QED
    BY <1>1, <1>2, <1>3

LEMMA ProcessedFacts ==
  ASSUME NEW N, IsNetwork(N), NEW S, NEW id \in OrgId, NEW toml \in Toml
  PROVE  LET M == Processed(N, S, id, toml) IN
         /\ IsNetwork(M) /\ Known(M) = Known(N)
         /\ \A n \in Known(N) : Lists(M, n) \/ (~Lists(N, n) /\ OrgOf(M, n) = OrgOf(N, n))
  <1> DEFINE W == WithOrganization(N, id, toml)
  <1> DEFINE V == WithValidators(W, S, id, toml)
  <1>1. /\ IsNetwork(W) /\ W.nodes = N.nodes
        /\ DOMAIN W.organizations = DOMAIN N.organizations \cup {id}
        /\ \A o \in DOMAIN N.organizations :
             W.organizations[o].validators = N.organizations[o].validators
    BY WithOrganizationType
  <1>2. Known(W) = Known(N) /\ \A n \in Known(N) : OrgOf(W, n) = OrgOf(N, n)
    BY <1>1 DEF Known, OrgOf
  <1>3. \A n \in Known(N) : Lists(N, n) => Lists(W, n)
    BY <1>1, <1>2 DEF Lists
  <1> HIDE DEF W
  <1>4. IsNetwork(V) /\ Known(V) = Known(W)
    BY <1>1, WithValidatorsType
  <1>5. \A n \in Known(W) : Lists(V, n) \/ (~Lists(W, n) /\ OrgOf(V, n) = OrgOf(W, n))
    BY <1>1, WithValidatorsLists
  <1> HIDE DEF V
  <1>6. Processed(N, S, id, toml) = IF toml.lists THEN V ELSE W
    BY DEF Processed, V, W
  <1>7. QED
    BY <1>1, <1>2, <1>3, <1>4, <1>5, <1>6

LEMMA ClearedFacts ==
  ASSUME NEW N, IsNetwork(N)
  PROVE  /\ IsNetwork(Cleared(N)) /\ Cleared(N).nodes = N.nodes
         /\ \A n \in Known(N) : Lists(N, n) => Lists(Cleared(N), n)
  <1> DEFINE M == Cleared(N)
  <1> DEFINE F == [o \in DOMAIN N.organizations |->
                     IF o \in ReferredTo(N) THEN N.organizations[o]
                     ELSE [N.organizations[o] EXCEPT !.validators = {}]]
  <1>0. N = [nodes |-> N.nodes, organizations |-> N.organizations]
    BY DEF IsNetwork
  <1>1. M = [nodes |-> N.nodes, organizations |-> M.organizations] /\ M.organizations = F
    <2>1. M = [N EXCEPT !.organizations = F]
      BY DEF Cleared
    <2> HIDE DEF F, M
    <2>2. QED
      BY <1>0, <2>1
  <1>2. M.organizations = [o \in DOMAIN N.organizations |->
          IF o \in ReferredTo(N) THEN N.organizations[o]
          ELSE [N.organizations[o] EXCEPT !.validators = {}]]
    BY <1>1
  <1>3. \A o \in DOMAIN N.organizations : N.organizations[o] \in OrgData
    BY DEF IsNetwork
  <1>4. \A o \in DOMAIN N.organizations : M.organizations[o] \in OrgData
    BY <1>2, <1>3 DEF OrgData
  <1>5. ASSUME NEW n \in Known(N), Lists(N, n)
        PROVE  Lists(M, n)
    <2>1. OrgOf(M, n) = OrgOf(N, n)
      BY <1>1 DEF OrgOf
    <2>2. OrgOf(N, n) \in ReferredTo(N)
      BY DEF ReferredTo, OrgOf
    <2>3. QED
      BY <1>2, <1>5, <2>1, <2>2 DEF Lists
  <1> HIDE DEF M
  <1>6. IsNetwork(M)
    BY <1>1, <1>2, <1>4 DEF IsNetwork
  <1>7. QED
    BY <1>1, <1>5, <1>6 DEF M

LEMMA RereadFacts ==
  ASSUME NEW N, IsNetwork(N), NEW domains \in [OrgId -> Domain \cup {None}]
  PROVE  LET M == Reread(N, domains) IN
         /\ IsNetwork(M) /\ M.nodes = N.nodes
         /\ \A n \in Known(N) : Lists(N, n) => Lists(M, n)
  <1> DEFINE M == Reread(N, domains)
  <1> DEFINE F == [o \in DOMAIN N.organizations |->
                     [N.organizations[o] EXCEPT !.homeDomain = domains[o]]]
  <1>0. N = [nodes |-> N.nodes, organizations |-> N.organizations]
    BY DEF IsNetwork
  <1>01. M = [N EXCEPT !.organizations = F]
    BY DEF Reread
  <1> HIDE DEF M, F
  <1>1. M = [nodes |-> N.nodes, organizations |-> M.organizations]
    BY <1>0, <1>01
  <1>2. M.organizations = [o \in DOMAIN N.organizations |->
                             [N.organizations[o] EXCEPT !.homeDomain = domains[o]]]
    BY <1>0, <1>01 DEF F
  <1>3. \A o \in DOMAIN N.organizations : N.organizations[o] \in OrgData /\ o \in OrgId
    BY DEF IsNetwork
  <1>4. \A o \in DOMAIN N.organizations :
          M.organizations[o] \in OrgData
          /\ M.organizations[o].validators = N.organizations[o].validators
    BY <1>2, <1>3 DEF OrgData
  <1>5. \A n \in Known(N) : Lists(N, n) => Lists(M, n)
    BY <1>1, <1>2, <1>4 DEF Lists, OrgOf
  <1>6. IsNetwork(M)
    BY <1>1, <1>2, <1>4 DEF IsNetwork
  <1>7. QED
    BY <1>1, <1>5, <1>6 DEF M
-----------------------------------------------------------------------------
(* The invariant. *)

LEMMA StoredType ==
  ASSUME TypeOK, NEW written \in SUBSET DOMAIN network.organizations
  PROVE  Stored(network, written) \in [OrgId -> Domain \cup {None}]
  <1>1. \A o \in written : network.organizations[o].homeDomain \in Domain \cup {None}
    BY DEF TypeOK, IsNetwork, OrgData
  <1>2. QED
    BY <1>1 DEF Stored, TypeOK

LEMMA OverType == UpdateOver => /\ phase' = "idle" /\ pending' = {}
                                /\ DOMAIN start' \subseteq OrgId
                                /\ start' \in [DOMAIN start' -> OrgData]
  BY DEF UpdateOver

LEMMA InitIInv == Init => IInv
  <1> SUFFICES ASSUME Init PROVE IInv
    OBVIOUS
  <1>1. PICK seeds \in (SUBSET Node) \ {{}}, older \in SUBSET Name :
          \E owner \in [seeds -> older \cup {None}] :
            saved = [nodes |-> [n \in seeds |-> [homeDomain |-> None, organizationId |-> owner[n]]],
                     organizations |-> [o \in older |->
                       [homeDomain |-> None, validators |-> {n \in seeds : owner[n] = o}]]]
    BY DEF Init
  <1>2. PICK owner \in [seeds -> older \cup {None}] :
            saved = [nodes |-> [n \in seeds |-> [homeDomain |-> None, organizationId |-> owner[n]]],
                     organizations |-> [o \in older |->
                       [homeDomain |-> None, validators |-> {n \in seeds : owner[n] = o}]]]
    BY <1>1
  <1>3. IsNetwork(saved)
    BY <1>2 DEF IsNetwork, NodeData, OrgData, OrgId
  <1>4. domainOf \in [OrgId -> Domain \cup {None}]
    BY DEF Init, OrgId
  <1>5. \A n \in Known(saved) : Lists(saved, n)
    BY <1>2 DEF Known, Lists, OrgOf
  <1>6. network = Reread(saved, domainOf)
    BY DEF Init
  <1>7. /\ IsNetwork(network) /\ network.nodes = saved.nodes
        /\ \A n \in Known(saved) : Lists(network, n)
    BY <1>3, <1>4, <1>5, <1>6, RereadFacts
  <1>8. TypeOK
    BY <1>3, <1>4, <1>7, OrganizationsAssumption DEF Init, TypeOK
  <1>9. Current
    BY <1>5, <1>7 DEF Init, Current, Known
  <1>10. QED
    BY <1>8, <1>9 DEF IInv

LEMMA CrawlStep == IInv /\ Crawl => IInv'
  <1> SUFFICES ASSUME IInv, Crawl PROVE IInv'
    OBVIOUS
  <1>1. PICK discovered \in SUBSET (Node \ Known(network)) :
          network' = [network EXCEPT !.nodes =
            [n \in Known(network) \cup discovered |->
               IF n \in Known(network) THEN network.nodes[n] ELSE Unknown]]
    BY DEF Crawl
  <1>2. /\ network' = [nodes |-> network'.nodes, organizations |-> network.organizations]
        /\ network'.organizations = network.organizations
        /\ network'.nodes = [n \in Known(network) \cup discovered |->
                              IF n \in Known(network) THEN network.nodes[n] ELSE Unknown]
    BY <1>1 DEF IInv, TypeOK, IsNetwork
  <1>3. Unknown \in NodeData
    BY DEF Unknown, NodeData
  <1>4. IsNetwork(network')
    BY <1>2, <1>3 DEF IInv, TypeOK, IsNetwork, Known
  <1>5. \A n \in Known(network)' : \/ n \in Known(network) /\ OrgOf(network, n)' = OrgOf(network, n)
                                  \/ OrgOf(network, n)' = None
    BY <1>2 DEF Known, OrgOf, Unknown
  <1>6. \A n \in Known(network)' : Lists(network, n)' \/ (n \in Known(network) /\ ~Lists(network, n)
                                       /\ OrgOf(network, n)' = OrgOf(network, n))
    BY <1>2, <1>5 DEF Lists
  <1>7. TypeOK'
    <2>1. (updates \in 0..MaxUpdates)'
      BY OrganizationsAssumption DEF IInv, TypeOK, Crawl
    <2>2. QED
      BY <1>4, <2>1 DEF IInv, TypeOK, Crawl, database, IsNetwork
  <1>8. Current'
    BY <1>2, <1>6 DEF IInv, Current, Crawl, database, Known, Lists, OrgOf
  <1>9. QED
    BY <1>7, <1>8 DEF IInv

LEMMA UpdateHomeDomainsStep == IInv /\ UpdateHomeDomains => IInv'
  <1> SUFFICES ASSUME IInv, UpdateHomeDomains PROVE IInv'
    OBVIOUS
  <1>1. PICK fetched \in [Known(network) -> Domain \cup {None}] :
          network' = [network EXCEPT !.nodes = [n \in Known(network) |->
            IF fetched[n] = None THEN network.nodes[n]
            ELSE [network.nodes[n] EXCEPT !.homeDomain = fetched[n]]]]
    BY DEF UpdateHomeDomains, FetchHomeDomains, FetchAccount
  <1>2. /\ network' = [nodes |-> network'.nodes, organizations |-> network.organizations]
        /\ network'.organizations = network.organizations
        /\ network'.nodes = [n \in Known(network) |->
            IF fetched[n] = None THEN network.nodes[n]
            ELSE [network.nodes[n] EXCEPT !.homeDomain = fetched[n]]]
    BY <1>1 DEF IInv, TypeOK, IsNetwork
  <1>3. \A n \in Known(network) : network.nodes[n] \in NodeData
    BY DEF IInv, TypeOK, IsNetwork, Known
  <1>4. \A n \in Known(network) : network'.nodes[n] \in NodeData
                                  /\ OrgOf(network, n)' = OrgOf(network, n)
    BY <1>2, <1>3 DEF NodeData, OrgOf
  <1>5. IsNetwork(network') /\ Known(network)' = Known(network)
    BY <1>2, <1>4 DEF IInv, TypeOK, IsNetwork, Known
  <1>6. \A n \in Known(network) : Lists(network, n) => Lists(network, n)'
    BY <1>2, <1>4 DEF Lists
  <1>7. TypeOK'
    BY <1>5 DEF IInv, TypeOK, UpdateHomeDomains, database, IsNetwork
  <1>8. Current'
    BY <1>4, <1>5, <1>6 DEF IInv, Current, UpdateHomeDomains, database, Known, Lists, OrgOf
  <1>9. QED
    BY <1>7, <1>8 DEF IInv

LEMMA FetchTomlObjectsStep == IInv /\ FetchTomlObjects => IInv'
  <1> SUFFICES ASSUME IInv, FetchTomlObjects PROVE IInv'
    OBVIOUS
  <1>1. \A n \in Known(network) : network.nodes[n].homeDomain \in Domain \cup {None}
    BY DEF IInv, TypeOK, IsNetwork, Known, NodeData
  <1>2. pending' \subseteq Domain
    BY <1>1 DEF FetchTomlObjects
  <1>3. TypeOK'
    BY <1>2 DEF IInv, TypeOK, FetchTomlObjects, database, IsNetwork
  <1>4. Current'
    BY DEF IInv, Current, FetchTomlObjects, database, Known, Lists, OrgOf
  <1>5. QED
    BY <1>3, <1>4 DEF IInv

LEMMA ProcessTomlStep == ASSUME NEW toml \in Toml PROVE IInv /\ ProcessToml(toml) => IInv'
  <1> SUFFICES ASSUME IInv, ProcessToml(toml) PROVE IInv'
    OBVIOUS
  <1>1. PICK id \in Matches(start, toml) : network' = Processed(network, start, id, toml)
    BY DEF ProcessToml
  <1>2. id \in OrgId
    BY <1>1 DEF Matches, IInv, TypeOK, Toml, OrgId
  <1>3. /\ IsNetwork(network') /\ Known(network') = Known(network)
        /\ \A n \in Known(network) : Lists(network', n)
              \/ (~Lists(network, n) /\ OrgOf(network', n) = OrgOf(network, n))
    BY <1>1, <1>2, ProcessedFacts DEF IInv, TypeOK
  <1>4. TypeOK'
    BY <1>3 DEF IInv, TypeOK, ProcessToml, database, IsNetwork
  <1>5. Current'
    BY <1>3 DEF IInv, Current, ProcessToml, database, Known, Lists, OrgOf
  <1>6. QED
    BY <1>4, <1>5 DEF IInv

LEMMA TomlProcessedStep == IInv /\ TomlProcessed => IInv'
  <1> SUFFICES ASSUME IInv, TomlProcessed PROVE IInv'
    OBVIOUS
  <1>1. /\ IsNetwork(network') /\ network'.nodes = network.nodes
        /\ \A n \in Known(network) : Lists(network, n) => Lists(network', n)
    BY ClearedFacts DEF IInv, TypeOK, TomlProcessed
  <1>2. TypeOK'
    BY <1>1 DEF IInv, TypeOK, TomlProcessed, database, IsNetwork
  <1>3. Current'
    BY <1>1 DEF IInv, Current, TomlProcessed, database, Known, Lists, OrgOf
  <1>4. QED
    BY <1>2, <1>3 DEF IInv

LEMMA SaveFailsStep == IInv /\ SaveFails => IInv'
  <1> SUFFICES ASSUME IInv, SaveFails PROVE IInv'
    OBVIOUS
  <1>1. /\ network' = [nodes |-> network'.nodes, organizations |-> network.organizations]
        /\ network'.organizations = network.organizations
        /\ network'.nodes = [n \in Known(saved) |-> network.nodes[n]]
    BY DEF SaveFails, IInv, TypeOK, IsNetwork
  <1>2. IsNetwork(network')
    BY <1>1 DEF IInv, TypeOK, IsNetwork, Current, Known
  <1>3. domainOf' \in [OrgId -> Domain \cup {None}]
    BY StoredType DEF SaveFails, IInv, Tracked
  <1>4. \A n \in Known(saved) : OrgOf(network, n)' = OrgOf(network, n)
                               /\ (Lists(network, n) => Lists(network, n)')
    BY <1>1 DEF OrgOf, Lists
  <1>5. TypeOK'
    BY <1>2, <1>3, OverType DEF IInv, TypeOK, SaveFails, IsNetwork
  <1>6. Current'
    BY <1>1, <1>4 DEF IInv, Current, SaveFails, Known, Lists, OrgOf
  <1>7. QED
    BY <1>5, <1>6 DEF IInv

LEMMA RestartStep == IInv /\ Restart => IInv'
  <1> SUFFICES ASSUME IInv, Restart PROVE IInv'
    OBVIOUS
  <1>1. /\ IsNetwork(network') /\ network'.nodes = saved.nodes
        /\ \A n \in Known(saved) : Lists(saved, n) => Lists(network', n)
    BY RereadFacts DEF IInv, TypeOK, Restart
  <1>2. TypeOK'
    BY <1>1, OverType DEF IInv, TypeOK, Restart, database, IsNetwork
  <1>3. Current'
    BY <1>1 DEF IInv, Current, Restart, database, Known, Lists, OrgOf
  <1>4. QED
    BY <1>2, <1>3 DEF IInv

LEMMA SaveStep == IInv /\ Save => IInv'
  <1> SUFFICES ASSUME IInv, Save PROVE IInv'
    OBVIOUS
  <1>1. PICK ignored \in SUBSET (Known(network) \cap Known(saved)),
             kept \in (SUBSET Known(network)) \ {{}}, versionless \in SUBSET MayLackVersion :
          /\ saved' = [nodes |-> [n \in kept |-> IF n \in ignored THEN saved.nodes[n]
                                                 ELSE NodeSaved(n, versionless)],
                       organizations |-> [o \in Tracked(network) |-> network.organizations[o]]]
          /\ unsaved' = {n \in kept \cap Known(saved) :
               IF n \in ignored
               THEN n \in unsaved
                    \/ saved.nodes[n].organizationId # network.nodes[n].organizationId
               ELSE n \in unsaved
                    /\ saved.nodes[n].organizationId = network.nodes[n].organizationId}
    BY DEF Save
  <1>2. Tracked(network) \subseteq DOMAIN network.organizations
    BY DEF Tracked
  <1>3. ASSUME NEW n \in kept
         PROVE  /\ NodeSaved(n, versionless) \in NodeData
                /\ NodeSaved(n, versionless).organizationId = network.nodes[n].organizationId
    <2>1. network.nodes[n] \in NodeData
      BY DEF IInv, TypeOK, IsNetwork, Known
    <2>2. QED
      BY <2>1 DEF NodeSaved, NodeData
  <1>4. ASSUME NEW n \in kept
         PROVE  (IF n \in ignored THEN saved.nodes[n] ELSE NodeSaved(n, versionless)) \in NodeData
    BY <1>3 DEF IInv, TypeOK, IsNetwork, Known
  <1>5. IsNetwork(saved')
    <2>1. kept \subseteq Node
      BY DEF IInv, TypeOK, IsNetwork, Known
    <2>2. /\ Tracked(network) \subseteq OrgId
          /\ \A o \in Tracked(network) : network.organizations[o] \in OrgData
      BY <1>2 DEF IInv, TypeOK, IsNetwork
    <2>3. QED
      BY <1>1, <1>4, <2>1, <2>2 DEF IsNetwork
  <1>6. domainOf' \in [OrgId -> Domain \cup {None}]
    BY <1>2, StoredType DEF Save, IInv
  <1>7. Known(saved') = kept /\ unsaved' \subseteq kept
    BY <1>1 DEF Known
  <1>8. ASSUME NEW n \in kept, n \notin unsaved'
        PROVE  Lists(saved', n)
    <2>1. OrgOf(saved', n) = OrgOf(network, n)
      BY <1>1, <1>8, <1>3 DEF OrgOf, Known
    <2>2. Lists(network, n)
      BY <1>1, <1>8 DEF IInv, Current, OrgOf
    <2>3. ASSUME OrgOf(network, n) # None
          PROVE  /\ OrgOf(network, n) \in Tracked(network)
                 /\ n \in network.organizations[OrgOf(network, n)].validators
      BY <2>2, <2>3 DEF Lists, Tracked
    <2>4. QED
      BY <1>1, <2>1, <2>3 DEF Lists
  <1>9. network' = Reread(saved', domainOf')
    BY DEF Save
  <1>10. /\ IsNetwork(network') /\ network'.nodes = saved'.nodes
        /\ \A n \in Known(saved') : Lists(saved', n) => Lists(network', n)
    BY <1>5, <1>6, <1>9, RereadFacts
  <1>11. TypeOK'
    <2>1. unsaved' \subseteq Node
      BY <1>5, <1>7 DEF IsNetwork, Known
    <2>2. QED
      BY <1>5, <1>6, <1>10, <2>1, OverType DEF IInv, TypeOK, Save, IsNetwork
  <1>12. Current'
    BY <1>7, <1>8, <1>10 DEF Current, Known, Lists, OrgOf
  <1>13. QED
    BY <1>11, <1>12 DEF IInv

LEMMA NextIInv == IInv /\ [Next]_vars => IInv'
  <1> SUFFICES ASSUME IInv, [Next]_vars PROVE IInv'
    OBVIOUS
  <1>1. CASE UNCHANGED vars
    BY <1>1 DEF vars, database, IInv, TypeOK, IsNetwork, Current, Known, Lists, OrgOf
  <1>2. CASE Next
    BY <1>2, CrawlStep, UpdateHomeDomainsStep, FetchTomlObjectsStep, ProcessTomlStep,
       TomlProcessedStep, SaveStep, SaveFailsStep, RestartStep DEF Next
  <1>3. QED
    BY <1>1, <1>2

LEMMA Invariance == Spec => []IInv
  BY InitIInv, NextIInv, PTL DEF Spec

\* Every network the update works on, and every one it saves, is well formed.
THEOREM TypeCorrect == Spec => []TypeOK
  <1>1. IInv => TypeOK
    BY DEF IInv
  <1>2. QED
    BY <1>1, Invariance, PTL

\* The organization a node refers to lists it, unless a save has ignored a change of the node.
THEOREM OwnersListed == Spec => []OwnersListTheirNodes
  <1>1. IInv => OwnersListTheirNodes
    BY DEF IInv, Current, Lists, OrgOf, OwnersListTheirNodes
  <1>2. QED
    BY <1>1, Invariance, PTL
-----------------------------------------------------------------------------
(* The trusted quorum set. *)

LEMMA MajoritiesMeet ==
  ASSUME NEW V, IsFiniteSet(V), NEW S, NEW T,
         MajorityOf(Cardinality(V)) <= Cardinality(V \cap S),
         MajorityOf(Cardinality(V)) <= Cardinality(V \cap T)
  PROVE  S \cap T # {}
  <1>1. Cardinality(V) \in Nat /\ Cardinality(V \cap S) \in Nat /\ Cardinality(V \cap T) \in Nat
    BY FS_CardinalityType, FS_Intersection
  <1>2. Cardinality(V \cap S) + Cardinality(V \cap T) > Cardinality(V)
    BY <1>1 DEF MajorityOf
  <1>3. (V \cap S) \cap (V \cap T) # {}
    BY <1>2, FS_MajoritiesIntersect
  <1>4. QED
    BY <1>3

\* A quorum set of validators and organizations of which more than half are needed, and
\* more than half of each organization.
LEMMA QuorumsMeet ==
  ASSUME NEW V, IsFiniteSet(V), NEW I, IsFiniteSet(I), NEW S, NEW T,
         \A i \in I : IsFiniteSet(i.validators)
                     /\ i.threshold = MajorityOf(Cardinality(i.validators)),
         Satisfies(S, [validators |-> V, inner |-> I,
                       threshold |-> MajorityOf(Cardinality(V) + Cardinality(I))]),
         Satisfies(T, [validators |-> V, inner |-> I,
                       threshold |-> MajorityOf(Cardinality(V) + Cardinality(I))])
  PROVE  S \cap T # {}
  <1> DEFINE Sat(X) == {i \in I : i.threshold <= Cardinality(i.validators \cap X)}
  <1>1. MajorityOf(Cardinality(V) + Cardinality(I)) <= Cardinality(V \cap S) + Cardinality(Sat(S))
    BY DEF Satisfies
  <1>2. MajorityOf(Cardinality(V) + Cardinality(I)) <= Cardinality(V \cap T) + Cardinality(Sat(T))
    BY DEF Satisfies
  <1>3. /\ Cardinality(V) \in Nat /\ Cardinality(V \cap S) \in Nat /\ Cardinality(V \cap T) \in Nat
    BY FS_CardinalityType, FS_Intersection
  <1>4. /\ Cardinality(I) \in Nat /\ Cardinality(Sat(S)) \in Nat /\ Cardinality(Sat(T)) \in Nat
        /\ Sat(S) \subseteq I /\ Sat(T) \subseteq I
    <2>1. Sat(S) \subseteq I /\ Sat(T) \subseteq I
      OBVIOUS
    <2>2. IsFiniteSet(Sat(S)) /\ IsFiniteSet(Sat(T))
      BY <2>1, FS_Subset
    <2>3. QED
      BY <2>1, <2>2, FS_CardinalityType
  <1>5. CASE Cardinality(V \cap S) + Cardinality(V \cap T) > Cardinality(V)
    <2>1. (V \cap S) \cap (V \cap T) # {}
      BY <1>5, FS_MajoritiesIntersect
    <2>2. QED
      BY <2>1
  <1>6. CASE ~(Cardinality(V \cap S) + Cardinality(V \cap T) > Cardinality(V))
    <2>1. Cardinality(Sat(S)) + Cardinality(Sat(T)) > Cardinality(I)
      <3> HIDE DEF Sat
      <3>1. QED
        BY <1>1, <1>2, <1>3, <1>4, <1>6 DEF MajorityOf
    <2>2. Sat(S) \cap Sat(T) # {}
      BY <1>4, <2>1, FS_MajoritiesIntersect
    <2>3. PICK i \in I : i.threshold <= Cardinality(i.validators \cap S)
                        /\ i.threshold <= Cardinality(i.validators \cap T)
      BY <2>2
    <2>4. QED
      BY <2>3, MajoritiesMeet
  <1>7. QED
    BY <1>5, <1>6

\* The values of a function on a finite set are finitely many.
LEMMA FiniteImage ==
  ASSUME NEW S, IsFiniteSet(S), NEW f
  PROVE  IsFiniteSet({f[x] : x \in S})
  <1> DEFINE g == [x \in S |-> f[x]]
  <1> DEFINE T == {f[x] : x \in S}
  <1>1. g \in Surjection(S, T)
    BY DEF Surjection
  <1> HIDE DEF g, T
  <1>2. IsFiniteSet(T)
    BY <1>1, FS_Surjection
  <1>3. QED
    BY <1>2 DEF T

\* Any two sets of nodes that satisfy the trusted quorum set of a crawl have a node in common.
THEOREM TrustedQuorums == Spec => []TrustedQuorumsIntersect
  <1>1. IInv => TrustedQuorumsIntersect
    <2> SUFFICES ASSUME IInv, NEW top \in SUBSET Node, NEW S \in SUBSET Node, NEW T \in SUBSET Node,
                        Satisfies(S, TopTierNodesToQuorumSet(network, top)),
                        Satisfies(T, TopTierNodesToQuorumSet(network, top))
                 PROVE  S \cap T # {}
      BY DEF TrustedQuorumsIntersect
    <2> DEFINE member == {n \in top \cap Known(network) : network.nodes[n].organizationId # None}
    <2> DEFINE Of(o) == {n \in member : network.nodes[n].organizationId = o}
    <2> DEFINE orgs == OrganizationsOf(network, top)
    <2> DEFINE V == top \ member
    <2> DEFINE I == {InnerQSet(Of(o)) : o \in orgs}
    <2>1. IsFiniteSet(top) /\ IsFiniteSet(V)
      BY OrganizationsAssumption, FS_Subset
    <2>2. \A o : IsFiniteSet(Of(o))
      BY <2>1, FS_Subset
    <2>3. IsFiniteSet(I)
      <3> DEFINE ownerOf == [n \in top \cap Known(network) |-> network.nodes[n].organizationId]
      <3> DEFINE owner == {ownerOf[n] : n \in top \cap Known(network)}
      <3> DEFINE inner == [o \in orgs |-> InnerQSet(Of(o))]
      <3>1. IsFiniteSet(top \cap Known(network))
        BY <2>1, FS_Subset
      <3>2. orgs \subseteq owner
        BY DEF OrganizationsOf
      <3>3. I = {inner[o] : o \in orgs}
        OBVIOUS
      <3> HIDE DEF ownerOf, inner, I
      <3>4. IsFiniteSet(owner)
        BY <3>1, FiniteImage
      <3> HIDE DEF owner, orgs
      <3>5. IsFiniteSet(orgs)
        BY <3>2, <3>4, FS_Subset
      <3>6. QED
        BY <3>3, <3>5, FiniteImage
    <2>4. ASSUME NEW i \in I
          PROVE  /\ IsFiniteSet(i.validators)
                 /\ i.threshold = MajorityOf(Cardinality(i.validators))
      <3>1. PICK o \in orgs : i = InnerQSet(Of(o))
        OBVIOUS
      <3>2. IsFiniteSet(Of(o))
        BY <2>2
      <3> HIDE DEF Of
      <3>3. QED
        BY <3>1, <3>2 DEF InnerQSet
    <2>5. TopTierNodesToQuorumSet(network, top) =
            [validators |-> V, inner |-> I,
             threshold |-> MajorityOf(Cardinality(V) + Cardinality(I))]
      BY DEF TopTierNodesToQuorumSet
    <2> HIDE DEF V, I
    <2>6. QED
      BY <2>1, <2>3, <2>4, <2>5, QuorumsMeet
  <1>2. QED
    BY <1>1, Invariance, PTL
-----------------------------------------------------------------------------
(* What a file does, field by field. *)

\* The validators of o, which may not exist yet.
Validators(N, o) == IF o \in DOMAIN N.organizations THEN N.organizations[o].validators ELSE {}

LEMMA SameNetwork ==
  ASSUME NEW M, NEW N, IsNetwork(M), IsNetwork(N), Known(M) = Known(N),
         DOMAIN M.organizations = DOMAIN N.organizations,
         \A n \in Known(N) : /\ M.nodes[n].homeDomain = N.nodes[n].homeDomain
                             /\ OrgOf(M, n) = OrgOf(N, n),
         \A o \in DOMAIN N.organizations :
           /\ M.organizations[o].homeDomain = N.organizations[o].homeDomain
           /\ Validators(M, o) = Validators(N, o)
  PROVE  M = N
  <1>1. \A n \in Known(N) : M.nodes[n] = N.nodes[n]
    BY DEF IsNetwork, NodeData, Known, OrgOf
  <1>2. \A o \in DOMAIN N.organizations : M.organizations[o] = N.organizations[o]
    BY DEF IsNetwork, OrgData, Validators
  <1>3. M.nodes = N.nodes
    BY <1>1 DEF IsNetwork, Known
  <1>4. M.organizations = N.organizations
    BY <1>2 DEF IsNetwork
  <1>5. QED
    BY <1>3, <1>4 DEF IsNetwork

LEMMA WithOrganizationFields ==
  ASSUME NEW N, IsNetwork(N), NEW id \in OrgId, NEW toml \in Toml
  PROVE  LET M == WithOrganization(N, id, toml) IN
         /\ \A o : Validators(M, o) = Validators(N, o)
         /\ \A o \in DOMAIN M.organizations :
              M.organizations[o].homeDomain =
                IF o = id THEN toml.domain ELSE N.organizations[o].homeDomain
  <1> DEFINE M == WithOrganization(N, id, toml)
  <1> DEFINE D == DOMAIN N.organizations
  <1>1. M.organizations = [o \in D \cup {id} |->
          IF o # id THEN N.organizations[o]
          ELSE [homeDomain |-> toml.domain,
                validators |-> IF id \in D THEN N.organizations[id].validators ELSE {}]]
    BY DEF WithOrganization, IsNetwork
  <1> HIDE DEF M
  <1>2. \A o : Validators(M, o) = Validators(N, o)
    BY <1>1 DEF Validators
  <1>3. \A o \in DOMAIN M.organizations :
          M.organizations[o].homeDomain =
            IF o = id THEN toml.domain ELSE N.organizations[o].homeDomain
    BY <1>1
  <1>4. QED
    BY <1>2, <1>3 DEF M

\* What M is after a file with validators has changed N.
NodesChanged(M, N, id, toml) ==
  \A n \in Known(N) :
    /\ M.nodes[n].homeDomain = N.nodes[n].homeDomain
    /\ OrgOf(M, n) = IF n \in Claimed(N, toml) THEN id
                     ELSE IF n \in Validators(N, id) THEN None ELSE OrgOf(N, n)
OrganizationsChanged(M, N, S, id, toml) ==
  \A o \in DOMAIN N.organizations :
    /\ M.organizations[o].homeDomain = N.organizations[o].homeDomain
    /\ Validators(M, o) = IF o = id THEN Detected(N, toml)
                          ELSE Validators(N, o) \ SwitchedFrom(N, S, o, id, toml)

LEMMA WithValidatorsFields ==
  ASSUME NEW N, IsNetwork(N), NEW S, NEW id \in DOMAIN N.organizations, NEW toml \in Toml,
         NEW M, M = WithValidators(N, S, id, toml)
  PROVE  NodesChanged(M, N, id, toml) /\ OrganizationsChanged(M, N, S, id, toml)
  <1>1. \A n \in Known(N) : n \in Removed(N, id, toml) \/ n \in Claimed(N, toml)
                              <=> n \in Validators(N, id) \/ n \in Claimed(N, toml)
    BY DEF Removed, Detected, Validators
  <1>2. \A n \in Known(N) : N.nodes[n] \in NodeData
    BY DEF IsNetwork, Known
  <1>3. \A n \in Known(N) :
          M.nodes[n] = IF n \in Claimed(N, toml) THEN [N.nodes[n] EXCEPT !.organizationId = id]
                       ELSE IF n \in Removed(N, id, toml)
                       THEN [N.nodes[n] EXCEPT !.organizationId = None]
                       ELSE N.nodes[n]
    BY DEF WithValidators
  <1>4. /\ DOMAIN M.organizations = DOMAIN N.organizations
        /\ \A o \in DOMAIN N.organizations :
             M.organizations[o] = [N.organizations[o] EXCEPT !.validators =
               IF o = id THEN Detected(N, toml) ELSE @ \ SwitchedFrom(N, S, o, id, toml)]
    BY DEF WithValidators
  <1>5. \A o \in DOMAIN N.organizations : N.organizations[o] \in OrgData
    BY DEF IsNetwork
  <1>6. ASSUME NEW n \in Known(N)
        PROVE  /\ M.nodes[n].homeDomain = N.nodes[n].homeDomain
               /\ OrgOf(M, n) = IF n \in Claimed(N, toml) THEN id
                                ELSE IF n \in Validators(N, id) THEN None ELSE OrgOf(N, n)
    BY <1>1, <1>2, <1>3 DEF NodeData, OrgOf
  <1>7. ASSUME NEW o \in DOMAIN N.organizations
        PROVE  /\ M.organizations[o].homeDomain = N.organizations[o].homeDomain
               /\ Validators(M, o) = IF o = id THEN Detected(N, toml)
                                     ELSE Validators(N, o) \ SwitchedFrom(N, S, o, id, toml)
    BY <1>4, <1>5 DEF OrgData, Validators
  <1>8. QED
    BY <1>6, <1>7 DEF NodesChanged, OrganizationsChanged

\* What M is after a file has changed N.
Effect(M, N, S, id, toml) ==
  /\ IsNetwork(M) /\ Known(M) = Known(N)
  /\ DOMAIN M.organizations = DOMAIN N.organizations \cup {id}
  /\ \A n \in Known(N) :
       /\ M.nodes[n].homeDomain = N.nodes[n].homeDomain
       /\ OrgOf(M, n) = IF ~toml.lists THEN OrgOf(N, n)
                        ELSE IF n \in Claimed(N, toml) THEN id
                        ELSE IF n \in Validators(N, id) THEN None ELSE OrgOf(N, n)
  /\ \A o \in DOMAIN M.organizations :
       /\ M.organizations[o].homeDomain =
            IF o = id THEN toml.domain ELSE N.organizations[o].homeDomain
       /\ Validators(M, o) = IF ~toml.lists THEN Validators(N, o)
                             ELSE IF o = id THEN Detected(N, toml)
                             ELSE Validators(N, o) \ SwitchedFrom(N, S, o, id, toml)

LEMMA ProcessedFields ==
  ASSUME NEW N, IsNetwork(N), NEW S, NEW id \in OrgId, NEW toml \in Toml
  PROVE  Effect(Processed(N, S, id, toml), N, S, id, toml)
  <1> DEFINE W == WithOrganization(N, id, toml)
  <1> DEFINE V == WithValidators(W, S, id, toml)
  <1>1. /\ IsNetwork(W) /\ W.nodes = N.nodes
        /\ DOMAIN W.organizations = DOMAIN N.organizations \cup {id}
    BY WithOrganizationType
  <1>2. /\ \A o : Validators(W, o) = Validators(N, o)
        /\ \A o \in DOMAIN W.organizations :
             W.organizations[o].homeDomain =
               IF o = id THEN toml.domain ELSE N.organizations[o].homeDomain
    BY WithOrganizationFields
  <1> HIDE DEF W
  <1>3. /\ Known(W) = Known(N) /\ Claimed(W, toml) = Claimed(N, toml)
        /\ Detected(W, toml) = Detected(N, toml)
        /\ \A n : OrgOf(W, n) = OrgOf(N, n)
        /\ \A o : SwitchedFrom(W, S, o, id, toml) = SwitchedFrom(N, S, o, id, toml)
    BY <1>1 DEF Known, Claimed, Detected, OrgOf, SwitchedFrom
  <1>4. IsNetwork(V) /\ Known(V) = Known(W) /\ DOMAIN V.organizations = DOMAIN W.organizations
    BY <1>1, WithValidatorsType
  <1>5. NodesChanged(V, W, id, toml) /\ OrganizationsChanged(V, W, S, id, toml)
    <2>1. V = WithValidators(W, S, id, toml) /\ id \in DOMAIN W.organizations
      BY <1>1
    <2> HIDE DEF V
    <2>2. QED
      BY <1>1, <2>1, WithValidatorsFields
  <1> HIDE DEF V
  <1>6. Processed(N, S, id, toml) = IF toml.lists THEN V ELSE W
    BY DEF Processed, V, W
  <1>7. CASE toml.lists
    BY <1>1, <1>2, <1>3, <1>4, <1>5, <1>6, <1>7 DEF Effect, NodesChanged, OrganizationsChanged
  <1>8. CASE ~toml.lists
    BY <1>1, <1>2, <1>3, <1>6, <1>8 DEF Effect
  <1>9. QED
    BY <1>7, <1>8

LEMMA ClearedFields ==
  ASSUME NEW N, IsNetwork(N)
  PROVE  LET M == Cleared(N) IN
         /\ IsNetwork(M) /\ M.nodes = N.nodes
         /\ DOMAIN M.organizations = DOMAIN N.organizations
         /\ \A o \in DOMAIN N.organizations :
              /\ M.organizations[o].homeDomain = N.organizations[o].homeDomain
              /\ Validators(M, o) = IF o \in ReferredTo(N) THEN Validators(N, o) ELSE {}
  <1> DEFINE M == Cleared(N)
  <1>1. IsNetwork(M) /\ M.nodes = N.nodes
    BY ClearedFacts
  <1>2. M.organizations = [o \in DOMAIN N.organizations |->
          IF o \in ReferredTo(N) THEN N.organizations[o]
          ELSE [N.organizations[o] EXCEPT !.validators = {}]]
    BY DEF Cleared, IsNetwork
  <1>3. \A o \in DOMAIN N.organizations : N.organizations[o] \in OrgData
    BY DEF IsNetwork
  <1> HIDE DEF M
  <1>4. \A o \in DOMAIN N.organizations :
          /\ M.organizations[o].homeDomain = N.organizations[o].homeDomain
          /\ Validators(M, o) = IF o \in ReferredTo(N) THEN Validators(N, o) ELSE {}
    BY <1>2, <1>3 DEF OrgData, Validators
  <1>5. QED
    BY <1>1, <1>2, <1>4 DEF M
-----------------------------------------------------------------------------
(* Two files. *)

\* What P is after two files have changed N, in whichever order.
Both(P, N, S, i, t, j, u) ==
  /\ IsNetwork(P) /\ Known(P) = Known(N)
  /\ DOMAIN P.organizations = DOMAIN N.organizations \cup {i, j}
  /\ \A n \in Known(N) :
       /\ P.nodes[n].homeDomain = N.nodes[n].homeDomain
       /\ OrgOf(P, n) = IF t.lists /\ n \in Claimed(N, t) THEN i
                        ELSE IF u.lists /\ n \in Claimed(N, u) THEN j
                        ELSE IF \/ t.lists /\ n \in Validators(N, i)
                                \/ u.lists /\ n \in Validators(N, j)
                        THEN None ELSE OrgOf(N, n)
  /\ \A o \in DOMAIN P.organizations :
       /\ P.organizations[o].homeDomain = IF o = i THEN t.domain ELSE IF o = j THEN u.domain
                                          ELSE N.organizations[o].homeDomain
       /\ Validators(P, o) =
            IF o = i /\ t.lists THEN Detected(N, t) ELSE IF o = j /\ u.lists THEN Detected(N, u)
            ELSE {n \in Validators(N, o) : ~(t.lists /\ n \in SwitchedFrom(N, S, o, i, t))
                                          /\ ~(u.lists /\ n \in SwitchedFrom(N, S, o, j, u))}

\* A node that the second file claims and the organization of the first one lists refers
\* to that organization, which was there at the start, and so was taken off its list.
LEMMA TwoFiles ==
  ASSUME NEW N, IsNetwork(N), NEW S, NEW t \in Toml, NEW u \in Toml,
         NEW i \in OrgId, NEW j \in OrgId, i # j, t.domain # u.domain,
         i \in DOMAIN N.organizations => i \in DOMAIN S,
         j \in DOMAIN N.organizations => j \in DOMAIN S,
         ~Contested(N, i, u), ~Contested(N, j, t),
         NEW M, Effect(M, N, S, i, t), NEW P, Effect(P, M, S, j, u)
  PROVE  Both(P, N, S, i, t, j, u)
  <1> DEFINE A == Claimed(N, t)
  <1> DEFINE B == Claimed(N, u)
  <1>1. A \cap B = {} /\ A \subseteq Known(N) /\ B \subseteq Known(N)
    BY DEF Claimed
  <1>2. Known(M) = Known(N) /\ \A n \in Known(N) : M.nodes[n].homeDomain = N.nodes[n].homeDomain
    BY DEF Effect
  <1>3. Claimed(M, u) = B /\ Detected(M, u) = Detected(N, u)
    BY <1>2 DEF Claimed, Detected
  <1>4. /\ \A n \in A : n \in Validators(N, j) => OrgOf(N, n) = j /\ j \in DOMAIN S
        /\ \A n \in B : n \in Validators(N, i) => OrgOf(N, n) = i
    BY DEF Contested, Validators, OrgOf
  <1>5. \A n \in Known(N) : n \in Detected(N, t) <=> n \in A
    BY DEF Detected, Claimed
  <1>6. \A o : \A n : n \in SwitchedFrom(N, S, o, i, t) <=>
          o # i /\ o \in DOMAIN S /\ n \in A /\ OrgOf(N, n) = o
    BY DEF SwitchedFrom, OrgOf
  <1>7. \A o : \A n : n \in SwitchedFrom(N, S, o, j, u) <=>
          o # j /\ o \in DOMAIN S /\ n \in B /\ OrgOf(N, n) = o
    BY DEF SwitchedFrom, OrgOf
  <1>8. \A o : \A n : n \in SwitchedFrom(M, S, o, j, u) <=>
          o # j /\ o \in DOMAIN S /\ n \in B /\ OrgOf(M, n) = o
    BY <1>3 DEF SwitchedFrom, OrgOf
  <1>9. \A n \in Known(N) :
          OrgOf(M, n) = IF ~t.lists THEN OrgOf(N, n)
                        ELSE IF n \in A THEN i
                        ELSE IF n \in Validators(N, i) THEN None ELSE OrgOf(N, n)
    BY DEF Effect
  <1>10. /\ DOMAIN M.organizations = DOMAIN N.organizations \cup {i}
         /\ DOMAIN P.organizations = DOMAIN M.organizations \cup {j}
         /\ \A o \in DOMAIN M.organizations :
              Validators(M, o) = IF ~t.lists THEN Validators(N, o)
                                 ELSE IF o = i THEN Detected(N, t)
                                 ELSE Validators(N, o) \ SwitchedFrom(N, S, o, i, t)
         /\ \A o \in DOMAIN P.organizations :
              Validators(P, o) = IF ~u.lists THEN Validators(M, o)
                                 ELSE IF o = j THEN Detected(M, u)
                                 ELSE Validators(M, o) \ SwitchedFrom(M, S, o, j, u)
    BY DEF Effect
  <1>11. \A n \in Known(N) :
           /\ P.nodes[n].homeDomain = N.nodes[n].homeDomain
           /\ OrgOf(P, n) = IF ~u.lists THEN OrgOf(M, n)
                            ELSE IF n \in B THEN j
                            ELSE IF n \in Validators(M, j) THEN None ELSE OrgOf(M, n)
    BY <1>2, <1>3 DEF Effect
  <1>12. None \notin OrgId
    BY OrganizationsAssumption
  <1> HIDE DEF A, B
  \* Outside the organizations there are no lists.
  <1>13. \A o : o \notin DOMAIN N.organizations => Validators(N, o) = {}
    BY DEF Validators
  <1>14. \A o : o \notin DOMAIN M.organizations => Validators(M, o) = {}
    BY DEF Validators
  <1>15. ASSUME NEW n \in Known(N)
         PROVE  OrgOf(P, n) = IF t.lists /\ n \in A THEN i
                              ELSE IF u.lists /\ n \in B THEN j
                              ELSE IF \/ t.lists /\ n \in Validators(N, i)
                                      \/ u.lists /\ n \in Validators(N, j)
                              THEN None ELSE OrgOf(N, n)
    <2>1. t.lists /\ n \in A => n \notin Validators(M, j)
      BY <1>4, <1>6, <1>10, <1>14
    <2>2. ~(t.lists /\ n \in A) => (n \in Validators(M, j) <=> n \in Validators(N, j))
      BY <1>6, <1>10, <1>13, <1>14
    <2>3. CASE t.lists /\ n \in A
      BY <1>1, <1>9, <1>11, <2>1, <2>3
    <2>4. CASE ~(t.lists /\ n \in A) /\ u.lists /\ n \in B
      BY <1>11, <2>4
    <2>5. CASE ~(t.lists /\ n \in A) /\ ~(u.lists /\ n \in B)
      BY <1>9, <1>11, <2>2, <2>5
    <2>6. QED
      BY <2>3, <2>4, <2>5
  <1>16. ASSUME NEW o \in DOMAIN P.organizations
         PROVE  Validators(P, o) =
                  IF o = i /\ t.lists THEN Detected(N, t)
                  ELSE IF o = j /\ u.lists THEN Detected(N, u)
                  ELSE {n \in Validators(N, o) :
                          /\ ~(t.lists /\ n \in SwitchedFrom(N, S, o, i, t))
                          /\ ~(u.lists /\ n \in SwitchedFrom(N, S, o, j, u))}
    <2>1. CASE o = i /\ t.lists
      <3>1. o \in DOMAIN M.organizations /\ Validators(M, o) = Detected(N, t)
        BY <1>10, <2>1
      <3>2. \A n \in Detected(N, t) : n \notin SwitchedFrom(M, S, o, j, u)
        BY <1>1, <1>5, <1>8
      <3>3. QED
        BY <1>10, <2>1, <3>1, <3>2
    <2>2. CASE o = j /\ u.lists
      BY <1>3, <1>10, <2>2
    <2>3. CASE ~(o = i /\ t.lists) /\ ~(o = j /\ u.lists)
      <3>1. \A n : n \in Validators(M, o) <=>
              n \in Validators(N, o) /\ ~(t.lists /\ n \in SwitchedFrom(N, S, o, i, t))
        BY <1>10, <1>13, <1>14, <2>3
      <3>2. \A n : n \in Validators(P, o) <=>
              n \in Validators(M, o) /\ ~(u.lists /\ n \in SwitchedFrom(M, S, o, j, u))
        BY <1>10, <2>3
      <3>3. \A n \in B : o \in OrgId => (OrgOf(M, n) = o <=> OrgOf(N, n) = o)
        BY <1>1, <1>4, <1>9, <1>12, <2>3
      <3>4. o \in OrgId
        BY DEF Effect, IsNetwork
      <3>5. \A n : n \in SwitchedFrom(M, S, o, j, u) <=> n \in SwitchedFrom(N, S, o, j, u)
        BY <1>7, <1>8, <3>3, <3>4
      <3>6. QED
        BY <2>3, <3>1, <3>2, <3>5
    <2>4. QED
      BY <2>1, <2>2, <2>3
  <1>17. \A o \in DOMAIN P.organizations :
           P.organizations[o].homeDomain = IF o = i THEN t.domain ELSE IF o = j THEN u.domain
                                           ELSE N.organizations[o].homeDomain
    BY DEF Effect
  <1>18. IsNetwork(P) /\ Known(P) = Known(N)
    BY <1>2 DEF Effect
  <1>19. QED
    BY <1>10, <1>11, <1>15, <1>16, <1>17, <1>18 DEF Both, A, B

LEMMA BothSame ==
  ASSUME NEW N, NEW S, NEW t \in Toml, NEW u \in Toml, NEW i, NEW j, i # j, t.domain # u.domain,
         NEW P, Both(P, N, S, i, t, j, u), NEW Q, Both(Q, N, S, j, u, i, t)
  PROVE  P = Q
  <1>1. Claimed(N, t) \cap Claimed(N, u) = {}
    BY DEF Claimed
  <1>2. /\ IsNetwork(P) /\ IsNetwork(Q) /\ Known(P) = Known(Q)
        /\ DOMAIN P.organizations = DOMAIN Q.organizations
    BY DEF Both
  <1>3. \A n \in Known(Q) : /\ P.nodes[n].homeDomain = Q.nodes[n].homeDomain
                            /\ OrgOf(P, n) = OrgOf(Q, n)
    BY <1>1 DEF Both
  <1>4. \A o \in DOMAIN Q.organizations :
          P.organizations[o].homeDomain = Q.organizations[o].homeDomain
    BY <1>2 DEF Both
  <1>5. \A o \in DOMAIN Q.organizations : Validators(P, o) = Validators(Q, o)
    <2> SUFFICES ASSUME NEW o \in DOMAIN Q.organizations PROVE Validators(P, o) = Validators(Q, o)
      OBVIOUS
    <2>1. {n \in Validators(N, o) : ~(t.lists /\ n \in SwitchedFrom(N, S, o, i, t))
                                   /\ ~(u.lists /\ n \in SwitchedFrom(N, S, o, j, u))}
            = {n \in Validators(N, o) : ~(u.lists /\ n \in SwitchedFrom(N, S, o, j, u))
                                       /\ ~(t.lists /\ n \in SwitchedFrom(N, S, o, i, t))}
      OBVIOUS
    <2>2. o \in DOMAIN P.organizations
      BY <1>2
    <2>3. CASE o = i /\ t.lists
      BY <2>2, <2>3 DEF Both
    <2>4. CASE o = j /\ u.lists
      BY <2>2, <2>4 DEF Both
    <2>5. CASE ~(o = i /\ t.lists) /\ ~(o = j /\ u.lists)
      BY <2>1, <2>2, <2>5 DEF Both
    <2>6. QED
      BY <2>3, <2>4, <2>5
  <1>6. QED
    BY <1>2, <1>3, <1>4, <1>5, SameNetwork

\* The same file again.  Every node it claims has its organization already.
LEMMA SameFileAgain ==
  ASSUME NEW N, IsNetwork(N), NEW S, NEW toml \in Toml, NEW id \in OrgId,
         NEW M, Effect(M, N, S, id, toml)
  PROVE  Cleared(Processed(Cleared(M), Cleared(M).organizations, id, toml)) = Cleared(M)
  <1> DEFINE C == Cleared(M)
  <1> DEFINE P == Processed(C, C.organizations, id, toml)
  <1> DEFINE Q == Cleared(P)
  <1>1. IsNetwork(M) /\ Known(M) = Known(N) /\ id \in DOMAIN M.organizations
    BY DEF Effect
  <1>2. /\ IsNetwork(C) /\ C.nodes = M.nodes /\ DOMAIN C.organizations = DOMAIN M.organizations
        /\ \A o \in DOMAIN M.organizations :
             /\ C.organizations[o].homeDomain = M.organizations[o].homeDomain
             /\ Validators(C, o) = IF o \in ReferredTo(M) THEN Validators(M, o) ELSE {}
    BY <1>1, ClearedFields
  <1> HIDE DEF C
  <1>3. Effect(P, C, C.organizations, id, toml)
    BY <1>2, ProcessedFields
  <1> HIDE DEF P
  <1>4. IsNetwork(P)
    BY <1>3 DEF Effect
  <1>5. /\ IsNetwork(Q) /\ Q.nodes = P.nodes /\ DOMAIN Q.organizations = DOMAIN P.organizations
        /\ \A o \in DOMAIN P.organizations :
             /\ Q.organizations[o].homeDomain = P.organizations[o].homeDomain
             /\ Validators(Q, o) = IF o \in ReferredTo(P) THEN Validators(P, o) ELSE {}
    BY <1>4, ClearedFields
  <1> HIDE DEF Q
  <1>6. /\ Known(C) = Known(M) /\ Known(P) = Known(M) /\ Known(Q) = Known(M)
        /\ \A n : OrgOf(C, n) = OrgOf(M, n) /\ OrgOf(Q, n) = OrgOf(P, n)
        /\ \A n \in Known(M) : M.nodes[n].homeDomain = N.nodes[n].homeDomain
    BY <1>1, <1>2, <1>3, <1>5 DEF Effect, Known, OrgOf
  <1>7. Claimed(C, toml) = Claimed(N, toml) /\ Detected(C, toml) = Detected(N, toml)
    BY <1>1, <1>2, <1>6 DEF Claimed, Detected, Known
  <1>8. toml.lists => /\ Validators(M, id) = Detected(N, toml)
                      /\ \A n \in Claimed(N, toml) : OrgOf(M, n) = id
    <2>1. Claimed(N, toml) \subseteq Known(N)
      BY DEF Claimed
    <2>2. QED
      BY <1>1, <2>1 DEF Effect
  <1>9. \A n \in Known(M) : OrgOf(P, n) = OrgOf(M, n)
    <2>1. toml.lists => \A n \in Known(M) : n \in Validators(C, id) => n \in Claimed(C, toml)
      BY <1>1, <1>2, <1>6, <1>7, <1>8 DEF Detected
    <2>2. QED
      BY <1>3, <1>6, <1>7, <1>8, <2>1 DEF Effect
  <1>10. ReferredTo(P) = ReferredTo(M)
    BY <1>6, <1>9 DEF ReferredTo, OrgOf
  <1>11. DOMAIN P.organizations = DOMAIN M.organizations
    BY <1>1, <1>2, <1>3 DEF Effect
  <1>12. \A n \in Known(C) : Q.nodes[n].homeDomain = C.nodes[n].homeDomain
                             /\ OrgOf(Q, n) = OrgOf(C, n)
    BY <1>3, <1>5, <1>6, <1>9 DEF Effect
  <1>13. ASSUME NEW o \in DOMAIN C.organizations
         PROVE  /\ Q.organizations[o].homeDomain = C.organizations[o].homeDomain
                /\ Validators(Q, o) = Validators(C, o)
    <2>1. Q.organizations[o].homeDomain = C.organizations[o].homeDomain
      <3>1. M.organizations[id].homeDomain = toml.domain
        BY <1>1 DEF Effect
      <3>2. P.organizations[o].homeDomain = IF o = id THEN toml.domain
                                            ELSE C.organizations[o].homeDomain
        BY <1>2, <1>3, <1>11 DEF Effect
      <3>3. QED
        BY <1>2, <1>5, <1>11, <3>1, <3>2
    <2>2. Validators(P, o) = IF ~toml.lists THEN Validators(C, o)
                             ELSE IF o = id THEN Detected(C, toml)
                             ELSE Validators(C, o) \ SwitchedFrom(C, C.organizations, o, id, toml)
      BY <1>2, <1>3, <1>11 DEF Effect
    <2>3. toml.lists /\ o # id => SwitchedFrom(C, C.organizations, o, id, toml) = {}
      BY <1>6, <1>7, <1>8 DEF SwitchedFrom, OrgOf
    <2>4. o \in ReferredTo(M) => Validators(P, o) = Validators(C, o)
      BY <1>2, <1>7, <1>8, <2>2, <2>3
    <2>5. Validators(Q, o) = Validators(C, o)
      <3>1. o \in DOMAIN M.organizations /\ o \in DOMAIN P.organizations
        BY <1>2, <1>11
      <3>2. Validators(Q, o) = IF o \in ReferredTo(M) THEN Validators(P, o) ELSE {}
        BY <1>5, <1>10, <3>1
      <3>3. Validators(C, o) = IF o \in ReferredTo(M) THEN Validators(M, o) ELSE {}
        BY <1>2, <3>1
      <3>4. QED
        BY <2>4, <3>2, <3>3
    <2>6. QED
      BY <2>1, <2>5
  <1>14. Q = C
    BY <1>2, <1>5, <1>6, <1>11, <1>12, <1>13, SameNetwork
  <1>15. QED
    BY <1>14 DEF Q, P, C
-----------------------------------------------------------------------------
(* An organization that is not among those the processing started from has the id of the *)
(* domain of a file that has been processed.                                              *)

NewProcessed ==
  phase = "toml" =>
    /\ DOMAIN start \subseteq DOMAIN network.organizations
    /\ DOMAIN network.organizations \ DOMAIN start \subseteq Domain \ pending

\* What a file that is not processed yet matches was there at the start, or is not there.
LEMMA MatchesOld ==
  ASSUME IInv, NewProcessed, phase = "toml", NEW toml \in Toml, toml.domain \in pending,
         NEW id \in Matches(start, toml)
  PROVE  /\ id \in OrgId /\ (id \in DOMAIN network.organizations => id \in DOMAIN start)
         /\ id \in DOMAIN start \/ id = toml.domain
         /\ toml.domain \in DOMAIN network.organizations => id = toml.domain
  <1>1. toml.domain \in Domain
    BY DEF Toml
  <1>2. id \in DOMAIN start \/ id = toml.domain
    BY DEF Matches
  <1>3. id \in OrgId
    BY <1>1, <1>2 DEF IInv, TypeOK, OrgId
  <1>4. toml.domain \in DOMAIN network.organizations => toml.domain \in DOMAIN start
    BY DEF NewProcessed
  <1>5. toml.domain \in DOMAIN start => id = toml.domain
    BY DEF Matches
  <1>6. QED
    BY <1>2, <1>3, <1>4, <1>5

LEMMA NewProcessedStep == IInv /\ NewProcessed /\ [Next]_vars => NewProcessed'
  <1> SUFFICES ASSUME IInv, NewProcessed, [Next]_vars PROVE NewProcessed'
    OBVIOUS
  <1>1. ASSUME NEW toml \in Toml, ProcessToml(toml) PROVE NewProcessed'
    <2>1. PICK id \in Matches(start, toml) : network' = Processed(network, start, id, toml)
      BY <1>1 DEF ProcessToml
    <2>2. phase = "toml" /\ toml.domain \in pending /\ pending' = pending \ {toml.domain}
          /\ UNCHANGED start
      BY <1>1 DEF ProcessToml
    <2>3. id \in OrgId /\ (id \in DOMAIN start \/ id = toml.domain)
      BY <2>2, MatchesOld
    <2>4. DOMAIN network'.organizations = DOMAIN network.organizations \cup {id}
      <3>1. Effect(Processed(network, start, id, toml), network, start, id, toml)
        BY <2>3, ProcessedFields DEF IInv, TypeOK
      <3>2. QED
        BY <2>1, <3>1 DEF Effect
    <2>5. toml.domain \in Domain
      BY DEF Toml
    <2>6. QED
      BY <2>2, <2>3, <2>4, <2>5 DEF NewProcessed
  <1>2. CASE FetchTomlObjects
    BY <1>2 DEF FetchTomlObjects, NewProcessed
  <1>3. CASE Crawl \/ UpdateHomeDomains \/ TomlProcessed
    BY <1>3 DEF Crawl, UpdateHomeDomains, TomlProcessed, NewProcessed
  <1>4. CASE Save \/ SaveFails \/ Restart
    BY <1>4 DEF Save, SaveFails, Restart, UpdateOver, NewProcessed
  <1>5. CASE UNCHANGED vars
    BY <1>5 DEF vars, NewProcessed
  <1>6. QED
    BY <1>1, <1>2, <1>3, <1>4, <1>5 DEF Next

LEMMA ProcessingInvariance == Spec => [](IInv /\ NewProcessed)
  <1>1. Init => NewProcessed
    BY DEF Init, NewProcessed
  <1>2. QED
    BY <1>1, InitIInv, NextIInv, NewProcessedStep, PTL DEF Spec

\* Files arrive in any order.  The order of two does not matter, unless they match the same
\* organization or one claims a node that the organization of the other has listed since
\* before it was known (TomlService.updateOrganizationsAndNodes).
THEOREM AnyOrder == Spec => []OrderIrrelevant
  <1>1. IInv /\ NewProcessed => OrderIrrelevant
    <2> SUFFICES ASSUME IInv, NewProcessed, phase = "toml",
                        NEW t \in Toml, t.domain \in pending,
                        NEW u \in Toml, u.domain \in pending, t.domain # u.domain,
                        NEW i \in Matches(start, t), NEW j \in Matches(start, u),
                        i # j, ~Contested(network, i, u), ~Contested(network, j, t)
                 PROVE  Processed(Processed(network, start, i, t), start, j, u)
                          = Processed(Processed(network, start, j, u), start, i, t)
      BY DEF OrderIrrelevant
    <2> DEFINE Mt == Processed(network, start, i, t)
    <2> DEFINE Mu == Processed(network, start, j, u)
    <2>1. /\ i \in OrgId /\ (i \in DOMAIN network.organizations => i \in DOMAIN start)
          /\ j \in OrgId /\ (j \in DOMAIN network.organizations => j \in DOMAIN start)
          /\ IsNetwork(network)
      BY MatchesOld DEF IInv, TypeOK
    <2>2. Effect(Mt, network, start, i, t) /\ Effect(Mu, network, start, j, u)
      BY <2>1, ProcessedFields
    <2> HIDE DEF Mt, Mu
    <2>3. IsNetwork(Mt) /\ IsNetwork(Mu)
      BY <2>2 DEF Effect
    <2> DEFINE P == Processed(Mt, start, j, u)
    <2> DEFINE Q == Processed(Mu, start, i, t)
    <2>4. Effect(P, Mt, start, j, u) /\ Effect(Q, Mu, start, i, t)
      BY <2>1, <2>3, ProcessedFields
    <2> HIDE DEF P, Q
    <2>5. Both(P, network, start, i, t, j, u)
      BY <2>1, <2>2, <2>4, TwoFiles
    <2>6. Both(Q, network, start, j, u, i, t)
      BY <2>1, <2>2, <2>4, TwoFiles
    <2>7. P = Q
      BY <2>5, <2>6, BothSame
    <2>8. QED
      BY <2>7 DEF P, Q, Mt, Mu
  <1>2. QED
    BY <1>1, ProcessingInvariance, PTL

\* A file that has not changed finds its organization again in the next update, and changes
\* nothing (TomlService.updateOrganizationsAndNodes).
THEOREM NothingChanges == Spec => []UnchangedFileChangesNothing
  <1>1. IInv /\ NewProcessed => UnchangedFileChangesNothing
    <2> SUFFICES ASSUME IInv, NewProcessed, phase = "toml",
                        NEW t \in Toml, t.domain \in pending, NEW i \in Matches(start, t)
                 PROVE  LET N == Cleared(Processed(network, start, i, t)) IN
                        /\ i \in Matches(N.organizations, t)
                        /\ Cleared(Processed(N, N.organizations, i, t)) = N
      BY DEF UnchangedFileChangesNothing
    <2> DEFINE M == Processed(network, start, i, t)
    <2> DEFINE N == Cleared(M)
    <2>1. /\ i \in OrgId /\ IsNetwork(network)
          /\ i \in DOMAIN start \/ i = t.domain
          /\ t.domain \in DOMAIN network.organizations => i = t.domain
      BY MatchesOld DEF IInv, TypeOK
    <2>2. Effect(M, network, start, i, t)
      BY <2>1, ProcessedFields
    <2> HIDE DEF M
    <2>3. Cleared(Processed(N, N.organizations, i, t)) = N
      BY <2>1, <2>2, SameFileAgain
    <2>4. /\ DOMAIN N.organizations = DOMAIN network.organizations \cup {i}
          /\ N.organizations[i].homeDomain = t.domain
      BY <2>2, ClearedFields DEF Effect
    <2> HIDE DEF N
    <2>5. i \in Matches(N.organizations, t)
      BY <2>1, <2>4 DEF Matches
    <2>6. QED
      BY <2>3, <2>5 DEF N, M
  <1>2. QED
    BY <1>1, ProcessingInvariance, PTL
================================================================================
