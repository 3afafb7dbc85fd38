----------------------------- MODULE Organizations -----------------------------
(***************************************************************************)
(* Which organization a node belongs to.  An update starts from the        *)
(* Network object of the last completed update, adds the nodes the crawl   *)
(* discovers, asks Horizon for the home domain of every node, fetches the  *)
(* TOML files of these domains and lets each of them, in the order they    *)
(* arrived, change the organizations and the nodes in place.  The result   *)
(* is saved, or kept in memory when the save fails.                        *)
(*                                                                         *)
(* Membership is written down twice: a node has an organizationId and an   *)
(* organization has a list of validators.                                  *)
(***************************************************************************)
EXTENDS Integers, FiniteSets

CONSTANTS
  Node,    \* public keys
  Domain,  \* home domains; the id of an organization is the hash of its domain
  Name,    \* organization names; older organizations have the hash of their name
  None,    \* null or undefined
  MaxUpdates \* bound: the number of updates begun

OrgId == Domain \cup Name

ASSUME OrganizationsAssumption ==
  /\ IsFiniteSet(Node)
  /\ Domain \cap Name = {} /\ None \notin OrgId
  /\ MaxUpdates \in Nat

\* What decides over membership.  The names, links and texts that updateValidator and
\* updateOrganization copy from a file are left out.
NodeData == [homeDomain : Domain \cup {None}, organizationId : OrgId \cup {None}]
OrgData == [homeDomain : Domain \cup {None}, validators : SUBSET Node]
IsNetwork(N) ==
  /\ N = [nodes |-> N.nodes, organizations |-> N.organizations]
  /\ DOMAIN N.nodes \subseteq Node /\ N.nodes \in [DOMAIN N.nodes -> NodeData]
  /\ DOMAIN N.organizations \subseteq OrgId
  /\ N.organizations \in [DOMAIN N.organizations -> OrgData]

\* What updateOrganizationsAndNodes looks at in a file.  The key VALIDATORS may be
\* missing (lists); no file names a node twice.
Toml == {t \in [domain : Domain, name : Name \cup {None}, lists : BOOLEAN,
                validators : SUBSET Node] : ~t.lists => t.validators = {}}

VARIABLES
  updates,  \* the number of updates begun
  phase,    \* what the update does next
  network,  \* the Network object of the update, or the cached one between updates
  saved,    \* nodes and organizations as the last completed update saved them
  domainOf, \* OrganizationIdStorage.homeDomain: one for all snapshots of an organization
  start,    \* the organizations when the first TOML file is processed
  pending,  \* domains whose file has arrived and is not processed
  unsaved   \* history: nodes whose change of organization a save has ignored, until a
            \* save changes it

database == <<saved, domainOf>>
vars == <<updates, phase, network, database, start, pending, unsaved>>

Known(N) == DOMAIN N.nodes
\* getNetwork after a completed update or a restart
Reread(S, domains) ==
  [S EXCEPT !.organizations = [o \in DOMAIN S.organizations |->
                                 [S.organizations[o] EXCEPT !.homeDomain = domains[o]]]]

TypeOK ==
  /\ updates \in 0..MaxUpdates
  /\ phase \in {"idle", "homeDomains", "fetch", "toml", "save"}
  /\ IsNetwork(network) /\ IsNetwork(saved)
  /\ domainOf \in [OrgId -> Domain \cup {None}]
  /\ DOMAIN start \subseteq OrgId /\ start \in [DOMAIN start -> OrgData]
  /\ pending \subseteq Domain
  /\ unsaved \subseteq Node

\* A database with nodes that have no home domain yet, and older organizations whose
\* home domain may be unknown.
Init ==
  /\ updates = 0 /\ phase = "idle" /\ start = [o \in {} |-> None] /\ pending = {} /\ unsaved = {}
  /\ \E seeds \in (SUBSET Node) \ {{}}, older \in SUBSET Name :
     \E owner \in [seeds -> older \cup {None}] :
       saved = [nodes |-> [n \in seeds |-> [homeDomain |-> None, organizationId |-> owner[n]]],
                organizations |-> [o \in older |->
                  [homeDomain |-> None, validators |-> {n \in seeds : owner[n] = o}]]]
  /\ \E domains \in [Name -> Domain \cup {None}] :
       domainOf = [o \in OrgId |-> IF o \in Name THEN domains[o] ELSE None]
  /\ network = Reread(saved, domainOf)
-----------------------------------------------------------------------------
(* UpdateNetwork.updateNetwork: the steps before the TOML files are processed. *)

Unknown == [homeDomain |-> None, organizationId |-> None]

\* Known nodes are kept, reached or not; the crawl may discover others.
Crawl ==
  /\ phase = "idle" /\ Known(network) # {}
  /\ updates < MaxUpdates /\ updates' = updates + 1
  /\ \E discovered \in SUBSET (Node \ Known(network)) :
       network' = [network EXCEPT !.nodes =
         [n \in Known(network) \cup discovered |->
            IF n \in Known(network) THEN network.nodes[n] ELSE Unknown]]
  /\ phase' = "homeDomains"
  /\ UNCHANGED <<database, start, pending, unsaved>>

\* No account, an account without a home domain, a home domain that is no domain name
\* and a request that failed come to the same.
FetchAccount == Domain \cup {None}
\* The cache of an hour may answer with a domain that is no longer the account's.
FetchHomeDomains == [Known(network) -> FetchAccount]

\* A node for which there is no domain is left as it was.
UpdateHomeDomains ==
  /\ phase = "homeDomains" /\ phase' = "fetch"
  /\ \E fetched \in FetchHomeDomains :
       network' = [network EXCEPT !.nodes = [n \in Known(network) |->
         IF fetched[n] = None THEN network.nodes[n]
         ELSE [network.nodes[n] EXCEPT !.homeDomain = fetched[n]]]]
  /\ UNCHANGED <<updates, database, start, pending, unsaved>>

\* Only the domains of active validators are asked, and a file that is missing, too
\* large or no TOML is left out: any of the domains may be.
FetchTomlObjects ==
  /\ phase = "fetch" /\ phase' = "toml"
  /\ pending' \in SUBSET ({network.nodes[n].homeDomain : n \in Known(network)} \ {None})
  /\ start' = network.organizations
  /\ UNCHANGED <<updates, network, database, unsaved>>
-----------------------------------------------------------------------------
(* CrawlerService: the trusted quorum set of a crawl, made from the network it starts from. *)

\* Mutant: half of the members are enough.
Half(n) == n \div 2
MajorityOf(n) == n \div 2 + 1
OrganizationsOf(N, top) == {N.nodes[n].organizationId : n \in top \cap Known(N)} \ {None}
InnerQSet(V) == [validators |-> V, threshold |-> MajorityOf(Cardinality(V))]
\* Trusted nodes that are not known have no organization.
TopTierNodesToQuorumSet(N, top) ==
  LET member == {n \in top \cap Known(N) : N.nodes[n].organizationId # None}
      inner == {InnerQSet({n \in member : N.nodes[n].organizationId = o}) :
                  o \in OrganizationsOf(N, top)}
  IN [validators |-> top \ member, inner |-> inner,
      threshold |-> MajorityOf(Cardinality(top \ member) + Cardinality(inner))]
\* The nodes S satisfy a quorum set.
Satisfies(S, q) ==
  q.threshold <= Cardinality(q.validators \cap S)
                 + Cardinality({i \in q.inner : i.threshold <= Cardinality(i.validators \cap S)})
-----------------------------------------------------------------------------
(* TomlService.updateOrganizationsAndNodes *)

\* Mutant: an organization that is not found by its domain is looked for by the name, given or not.
MatchesAnyName(S, toml) ==
  IF toml.domain \in DOMAIN S THEN {toml.domain} ELSE {toml.name}
\* The ids of the organizations in S that a file may match: by the id of its domain, else
\* by its domain, where the last of several counts, else by the id of its name.
Matches(S, toml) ==
  LET ofDomain == {o \in DOMAIN S : S[o].homeDomain = toml.domain} IN
  IF toml.domain \in DOMAIN S THEN {toml.domain}
  ELSE IF ofDomain # {} THEN ofDomain
  ELSE IF toml.name \in DOMAIN S THEN {toml.name}
  ELSE {toml.domain}

\* Mutants: a node is claimed whatever its home domain is, or only if it is nobody's yet.
ClaimedByAnyone(N, toml) == toml.validators \cap Known(N)
ClaimedIfFree(N, toml) ==
  {n \in toml.validators \cap Known(N) :
     N.nodes[n].homeDomain = toml.domain /\ N.nodes[n].organizationId = None}
\* "you cannot add nodes to your org that you do not own"
Claimed(N, toml) ==
  {n \in toml.validators \cap Known(N) : N.nodes[n].homeDomain = toml.domain}
Detected(N, toml) == Claimed(N, toml) \cup (toml.validators \ Known(N))

\* The nodes that leave organization o for id.  Organizations that are new in this
\* update are not looked for.
SwitchedFrom(N, S, o, id, toml) ==
  IF o = id \/ o \notin DOMAIN S THEN {}
  ELSE {n \in Claimed(N, toml) : N.nodes[n].organizationId = o}
\* Mutant: the nodes that were removed keep their organization.
NoneRemoved(N, id, toml) == {}
Removed(N, id, toml) ==
  (N.organizations[id].validators \ Detected(N, toml)) \cap Known(N)

\* The organization exists and has the domain of the file.
WithOrganization(N, id, toml) ==
  [N EXCEPT !.organizations =
     [o \in DOMAIN N.organizations \cup {id} |->
        IF o # id THEN N.organizations[o]
        ELSE [homeDomain |-> toml.domain,
              validators |-> IF id \in DOMAIN N.organizations
                             THEN N.organizations[id].validators ELSE {}]]]

\* What the file makes of network N, when S are the organizations at the start.
WithValidators(N, S, id, toml) ==
  [nodes |-> [n \in Known(N) |->
     IF n \in Claimed(N, toml) THEN [N.nodes[n] EXCEPT !.organizationId = id]
     ELSE IF n \in Removed(N, id, toml) THEN [N.nodes[n] EXCEPT !.organizationId = None]
     ELSE N.nodes[n]],
   organizations |-> [o \in DOMAIN N.organizations |->
     [N.organizations[o] EXCEPT !.validators =
        IF o = id THEN Detected(N, toml) ELSE @ \ SwitchedFrom(N, S, o, id, toml)]]]
Processed(N, S, id, toml) ==
  LET M == WithOrganization(N, id, toml)
  IN IF toml.lists THEN WithValidators(M, S, id, toml) ELSE M

ProcessToml(toml) ==
  /\ phase = "toml" /\ toml.domain \in pending
  /\ \E id \in Matches(start, toml) : network' = Processed(network, start, id, toml)
  /\ pending' = pending \ {toml.domain}
  /\ UNCHANGED <<updates, phase, database, start, unsaved>>

ReferredTo(N) == {N.nodes[n].organizationId : n \in Known(N)}
\* Organizations no node refers to lose their validators.
Cleared(N) ==
  [N EXCEPT !.organizations = [o \in DOMAIN N.organizations |->
     IF o \in ReferredTo(N) THEN N.organizations[o]
     ELSE [N.organizations[o] EXCEPT !.validators = {}]]]

TomlProcessed ==
  /\ phase = "toml" /\ pending = {} /\ phase' = "save"
  /\ network' = Cleared(network)
  /\ UNCHANGED <<updates, database, start, pending, unsaved>>
-----------------------------------------------------------------------------
(* NetworkWriteRepository.save, as module SnapShotter has it. *)

\* An organization none of whose validators is tracked is archived or not created.
Tracked(N) ==
  {o \in DOMAIN N.organizations : N.organizations[o].validators \cap Known(N) # {}}
\* The home domains of the organizations written so far replace the stored ones.
Stored(N, written) ==
  [o \in OrgId |-> IF o \in written /\ N.organizations[o].homeDomain # None
                   THEN N.organizations[o].homeDomain ELSE domainOf[o]]
UpdateOver ==
  phase' = "idle" /\ start' = [o \in {} |-> None] /\ pending' = {}

\* The details of a node, with its home domain, are held once its version is known.
MayLackVersion ==
  {n \in Known(network) : n \in Known(saved) => saved.nodes[n].homeDomain = None}
NodeSaved(n, versionless) ==
  [network.nodes[n] EXCEPT !.homeDomain = IF n \in versionless THEN None ELSE @]

\* The change of a node whose address keeps changing is ignored as a whole, and the
\* archiver may end snapshots of nodes.  The next update reads the network anew.
Save ==
  /\ phase = "save" /\ UpdateOver
  /\ \E ignored \in SUBSET (Known(network) \cap Known(saved)),
        kept \in (SUBSET Known(network)) \ {{}}, versionless \in SUBSET MayLackVersion :
       /\ saved' = [nodes |-> [n \in kept |-> IF n \in ignored THEN saved.nodes[n]
                                                             ELSE NodeSaved(n, versionless)],
                    organizations |-> [o \in Tracked(network) |-> network.organizations[o]]]
       /\ unsaved' = {n \in kept \cap Known(saved) :
            IF n \in ignored
            THEN n \in unsaved \/ saved.nodes[n].organizationId # network.nodes[n].organizationId
            ELSE n \in unsaved /\ saved.nodes[n].organizationId = network.nodes[n].organizationId}
  /\ domainOf' = Stored(network, Tracked(network))
  /\ network' = Reread(saved', domainOf')
  /\ UNCHANGED updates

\* The cached network keeps what was changed in place, without the nodes that were
\* discovered, and the domains that were stored stay.
SaveFails ==
  /\ phase = "save" /\ UpdateOver
  /\ network' = [network EXCEPT !.nodes = [n \in Known(saved) |-> network.nodes[n]]]
  /\ \E written \in SUBSET Tracked(network) : domainOf' = Stored(network, written)
  /\ UNCHANGED <<updates, saved, unsaved>>

Restart ==
  /\ UpdateOver
  /\ network' = Reread(saved, domainOf)
  /\ UNCHANGED <<updates, database, unsaved>>
-----------------------------------------------------------------------------
Next ==
  \/ Crawl \/ UpdateHomeDomains \/ FetchTomlObjects
  \/ \E toml \in Toml : ProcessToml(toml)
  \/ TomlProcessed
  \/ Save \/ SaveFails \/ Restart

Spec == Init /\ [][Next]_vars
-----------------------------------------------------------------------------
(* Properties. *)

\* Membership is written down twice and both agree in this direction: the organization a
\* node refers to exists and lists the node, save for a node whose own change of
\* organization a save has ignored.  However files, failed saves, restarts and archived nodes alternate.
OwnersListTheirNodes ==
  \A n \in Known(network) \ unsaved :
    LET o == network.nodes[n].organizationId IN
    o # None => o \in DOMAIN network.organizations /\ n \in network.organizations[o].validators

\* Organization id lists a node that refers to another one or to none, and that toml claims.
Contested(N, id, toml) ==
  id \in DOMAIN N.organizations /\
  \E n \in Claimed(N, toml) : n \in N.organizations[id].validators
                              /\ N.nodes[n].organizationId # id

\* Files arrive in any order, ten at a time: the order of two files does not matter,
\* unless they match the same organization or one claims a node that the organization of
\* the other has listed since before it was known.
OrderIrrelevant ==
  phase = "toml" =>
    \A t, u \in {x \in Toml : x.domain \in pending} : t.domain # u.domain =>
      \A i \in Matches(start, t), j \in Matches(start, u) :
        i # j /\ ~Contested(network, i, u) /\ ~Contested(network, j, t) =>
          Processed(Processed(network, start, i, t), start, j, u)
            = Processed(Processed(network, start, j, u), start, i, t)

\* A file that is processed again, with nothing in between, finds its organization again
\* and changes nothing, else every update would end snapshots and create new ones.
UnchangedFileChangesNothing ==
  phase = "toml" =>
    \A t \in {x \in Toml : x.domain \in pending} : \A i \in Matches(start, t) :
      LET N == Cleared(Processed(network, start, i, t)) IN
      /\ i \in Matches(N.organizations, t)
      /\ Cleared(Processed(N, N.organizations, i, t)) = N

\* The crawl never accepts two ledgers: any two sets of nodes that satisfy the trusted quorum
\* set have a node in common, whatever the top tier and its organizations are.
TrustedQuorumsIntersect ==
  phase = "idle" => \A top \in SUBSET Node : \A S, T \in SUBSET Node :
    LET q == TopTierNodesToQuorumSet(network, top) IN
    Satisfies(S, q) /\ Satisfies(T, q) => S \cap T # {}

\* "if validators are removed from toml file we need to update the organization reference in
\* the removed nodes" (TomlService.ts:165), and in no others: a node only loses its
\* organization to the file of that organization.
OnlyOwnFileReleases ==
  [][phase = "toml" /\ phase' = "toml" =>
       \A n \in Known(network) :
         LET o == network.nodes[n].organizationId IN
         o # None /\ network'.nodes[n].organizationId = None =>
           /\ o \in DOMAIN network'.organizations
           /\ network'.organizations[o].homeDomain \in pending \ pending']_vars
================================================================================
