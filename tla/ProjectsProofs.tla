--------------------------- MODULE ProjectsProofs ---------------------------
(***************************************************************************)
(* Projects, for any repositories, accounts and requests in flight: a      *)
(* repository's key finds one project, a request writes to one that it     *)
(* found live, and no project is left out of the default team but by an    *)
(* administrator or a creation cut short.                                  *)
(***************************************************************************)
EXTENDS Projects, TLAPS

\* What a request has found or made at each of its stages.
StageOK ==
    \A a \in Account :
        /\ pc[a] # "idle" => req[a] \in Sent
        /\ pc[a] \in {"authorize", "grant", "regrant", "write"} => target[a] \in Project
        /\ pc[a] = "authorize" =>
             req[a].op = "sync" /\ (req[a].id = None => target[a] \in seen[a])
        /\ pc[a] = "grant" => target[a] \in seen[a]
        /\ pc[a] = "regrant" => req[a].op = "create"

\* A legacy key is stored with the canonical key of its repository.
LegacyWithCanonical ==
    \A p \in Project : keyV1[p] # None => key[p] = DeriveRemoteKey(keyV1[p])

\* remote_key is unique.
KeyIsUnique ==
    \A p, q \in Project : key[p] = key[q] /\ key[p] # None => p = q

\* While a request is served, what it could find now it could find since it began.
SeenCovers ==
    \A a \in Account : pc[a] # "idle" =>
        \A p \in Live : Suits(p, req[a]) => p \in seen[a]

ProjectsInv ==
    /\ TypeOK
    /\ StageOK
    /\ LegacyWithCanonical
    /\ KeyIsUnique
    /\ SeenCovers
    /\ ServedByLive
    /\ NoOrphan

-----------------------------------------------------------------------------
\* The keys that a URL or a request gives a project.
LEMMA KeysOfUrl ==
    ASSUME NEW u \in Url
    PROVE  DeriveRemoteKey(u) \in Key /\ DeriveLegacyRemoteKey(u) \in Key
BY ProjectsAssumption DEF ProjectsAssumption, Url, Key, DeriveRemoteKey, DeriveLegacyRemoteKey

\* What is sent: a request that names an id claims no key, and only a creation
\* stores a legacy key, with the canonical one.
LEMMA SentRequest ==
    ASSUME NEW r \in Sent
    PROVE  /\ r \in Request /\ r # None
           /\ r.id # None => r.key = None /\ r.op # "create"
           /\ r.op \in {"ingest", "undo"} => r.id # None
           /\ r.keyV1 # None => r.key = DeriveRemoteKey(r.keyV1)
BY ProjectsAssumption DEF ProjectsAssumption, Sendable, Request, Claims

THEOREM ProjectsInit == Init => ProjectsInv
BY ProjectsAssumption DEF Init, ProjectsInv, TypeOK, StageOK, LegacyWithCanonical, KeyIsUnique,
   SeenCovers, ServedByLive, NoOrphan, Live, RequestPC

-----------------------------------------------------------------------------
\* The steps of a request that write no row.
Quiet(a) ==
    \/ ResolveId(a) \/ GetProjectByRemoteKey(a) \/ Authorize(a)
    \/ IngestTriples(a) \/ DeleteMemories(a)
    \/ EnsureCreatorProjectAccess(a) \/ Write(a) \/ Lose(a)

LEMMA QuietTyped ==
    ASSUME ProjectsInv, NEW a \in Account, Quiet(a)
    PROVE  TypeOK'
<1> USE ProjectsAssumption DEF ProjectsInv, TypeOK, Live, RequestPC, rowVars, accessVars, Goes, Ends
<1>1. CASE ResolveId(a)
  <2>1. req[a] \in Request /\ req[a].id # None /\ req[a].op \in {"remember", "sync"}
    BY <1>1, SentRequest DEF ResolveId, StageOK, Claims
  <2>2. req[a].id \in Project /\ AfterFound(req[a]) \in RequestPC
    BY <2>1 DEF AfterFound, Request
  <2> QED
    BY <1>1, <2>2 DEF ResolveId
<1>2. CASE GetProjectByRemoteKey(a)
  BY <1>2, SentRequest DEF GetProjectByRemoteKey, StageOK, AfterFound, Matching, Request
<1>3. CASE Authorize(a)
  BY <1>3 DEF Authorize
<1>4. CASE EnsureCreatorProjectAccess(a)
  BY <1>4 DEF EnsureCreatorProjectAccess, StageOK
<1>5. CASE Write(a)
  BY <1>5 DEF Write
<1>6. CASE Lose(a)
  BY <1>6 DEF Lose, StageOK
<1>7. CASE IngestTriples(a) \/ DeleteMemories(a)
  <2>1. req[a] \in Sent /\ req[a].id \in Project \cup {None}
    BY <1>7, SentRequest DEF IngestTriples, DeleteMemories, StageOK, Request
  <2>2. req[a].id # None
    BY <1>7, <2>1, SentRequest DEF IngestTriples, DeleteMemories
  <2> QED
    BY <1>7, <2>1, <2>2 DEF IngestTriples, DeleteMemories
<1> QED
  BY <1>1, <1>2, <1>3, <1>4, <1>5, <1>6, <1>7 DEF Quiet

\* They keep the keys, and find their projects among those seen.
LEMMA QuietStage ==
    ASSUME ProjectsInv, NEW a \in Account, Quiet(a)
    PROVE  StageOK' /\ ServedByLive' /\ SeenCovers'
<1> USE ProjectsAssumption DEF ProjectsInv, TypeOK, Live, rowVars, Goes, Ends, StageOK, ServedByLive, SeenCovers
<1>1. CASE ResolveId(a)
  <2>1. req[a] \in Sent /\ req[a].key = None /\ req[a].op \in {"remember", "sync"}
    BY <1>1, SentRequest DEF ResolveId, Request, Claims
  <2>2. req[a].op = "remember" /\ req[a].id \in Live => req[a].id \in seen[a]
    BY <1>1, <2>1 DEF ResolveId, Suits
  <2> QED
    BY <1>1, <2>1, <2>2 DEF ResolveId, AfterFound, Named, Suits, Matches
<1>2. CASE GetProjectByRemoteKey(a)
  <2>1. req[a] \in Sent /\ req[a].op \in {"remember", "sync", "create"}
    BY <1>2, SentRequest DEF GetProjectByRemoteKey, Request
  <2>2. \A p \in Matching(req[a].key) : p \in seen[a]
    BY <1>2 DEF GetProjectByRemoteKey, Matching, Suits
  <2> QED
    BY <1>2, <2>1, <2>2 DEF GetProjectByRemoteKey, AfterFound, Matching, Suits, Matches
<1>3. CASE Authorize(a)
  <2>1. req[a] \in Sent /\ req[a].op = "sync"
    BY <1>3 DEF Authorize
  <2>2. MaySync(a, target[a]) /\ a \notin Admin => target[a] \in seen[a]
    BY <1>3, <2>1, SentRequest DEF Authorize, MaySync, Suits
  <2> QED
    BY <1>3, <2>1, <2>2 DEF Authorize, MaySync, Suits, Matches
<1>4. CASE EnsureCreatorProjectAccess(a)
  BY <1>4 DEF EnsureCreatorProjectAccess, Suits, Matches
<1>5. CASE Write(a)
  BY <1>5 DEF Write, Suits, Matches
<1>6. CASE Lose(a)
  BY <1>6 DEF Lose, Suits, Matches
<1>7. CASE IngestTriples(a) \/ DeleteMemories(a)
  <2>1. /\ req[a] \in Sent /\ req[a] \in Request /\ req[a].id # None
        /\ req[a].key = None
    BY <1>7, SentRequest DEF IngestTriples, DeleteMemories
  <2>2. req[a].id \in Live => req[a].id \in seen[a]
    BY <1>7, <2>1 DEF IngestTriples, DeleteMemories, Suits
  <2> QED
    BY <1>7, <2>1, <2>2 DEF IngestTriples, DeleteMemories, Request, Suits, Matches
<1> QED
  BY <1>1, <1>2, <1>3, <1>4, <1>5, <1>6, <1>7 DEF Quiet

LEMMA QuietGrants ==
    ASSUME ProjectsInv, NEW a \in Account, Quiet(a)
    PROVE  NoOrphan' /\ LegacyWithCanonical' /\ KeyIsUnique'
<1> USE DEF ProjectsInv, TypeOK, Live, rowVars, accessVars, Goes, Ends, NoOrphan
<1>1. UNCHANGED rowVars
  BY DEF Quiet, ResolveId, GetProjectByRemoteKey, Authorize, IngestTriples, DeleteMemories,
     EnsureCreatorProjectAccess, Write, Lose
<1>2. LegacyWithCanonical' /\ KeyIsUnique'
  BY <1>1 DEF LegacyWithCanonical, KeyIsUnique
<1>3. ASSUME EnsureCreatorProjectAccess(a) PROVE NoOrphan'
  BY <1>3 DEF EnsureCreatorProjectAccess
<1>4. ASSUME Lose(a) PROVE NoOrphan'
  BY <1>4 DEF Lose
<1>5. ASSUME ResolveId(a) \/ GetProjectByRemoteKey(a) \/ Authorize(a) \/ Write(a) PROVE NoOrphan'
  BY <1>5 DEF ResolveId, GetProjectByRemoteKey, Authorize, Write
<1>6. ASSUME IngestTriples(a) \/ DeleteMemories(a) PROVE NoOrphan'
  BY <1>6 DEF IngestTriples, DeleteMemories
<1> QED
  BY <1>2, <1>3, <1>4, <1>5, <1>6 DEF Quiet

-----------------------------------------------------------------------------
LEMMA SendKeeps ==
    ASSUME ProjectsInv, NEW a \in Account, NEW r \in Sent, Send(a, r)
    PROVE  ProjectsInv'
<1> USE ProjectsAssumption DEF ProjectsInv, Live, rowVars, accessVars, Send
<1>1. TypeOK'
  BY SentRequest DEF TypeOK, RequestPC
<1>2. StageOK' /\ ServedByLive'
  BY DEF TypeOK, StageOK, ServedByLive
<1>3. LegacyWithCanonical' /\ KeyIsUnique'
  BY DEF LegacyWithCanonical, KeyIsUnique
<1>4. SeenCovers'
  BY DEF TypeOK, SeenCovers, Suits, Matches
<1>5. NoOrphan'
  BY DEF TypeOK, NoOrphan
<1> QED
  BY <1>1, <1>2, <1>3, <1>4, <1>5

\* A row is written: what is seen afterwards covers what can be found.
LEMMA SeenStillCovers ==
    ASSUME ProjectsInv, UNCHANGED req, Seen,
           \A a \in Account : pc'[a] # "idle" => pc[a] # "idle"
    PROVE  SeenCovers' /\ \A a \in Account : seen[a] \subseteq seen'[a]
BY DEF ProjectsInv, TypeOK, Seen, SeenCovers, Live

LEMMA CreateKeeps ==
    ASSUME ProjectsInv, NEW a \in Account, NEW p \in Project, CreateProject(a, p)
    PROVE  ProjectsInv'
<1> USE ProjectsAssumption DEF ProjectsInv
<1>1. /\ req[a] \in Sent /\ req[a] \in Request /\ status[p] = "none" /\ pc[a] = "create"
      /\ key[p] = None /\ keyV1[p] = None
  BY SentRequest DEF CreateProject, StageOK, TypeOK, Live
<1>2. CASE Taken(p, req[a].key, req[a].slug)
  <2> USE <1>1, <1>2 DEF CreateProject, Ends, Live, rowVars, accessVars
  <2>1. TypeOK'
    BY DEF TypeOK, RequestPC
  <2>2. StageOK' /\ ServedByLive'
    BY DEF TypeOK, StageOK, ServedByLive
  <2>3. LegacyWithCanonical' /\ KeyIsUnique'
    BY DEF LegacyWithCanonical, KeyIsUnique
  <2>4. SeenCovers' /\ NoOrphan'
    BY DEF TypeOK, SeenCovers, Suits, Matches, NoOrphan
  <2> QED
    BY <2>1, <2>2, <2>3, <2>4
<1>3. CASE ~Taken(p, req[a].key, req[a].slug)
  <2> USE <1>1, <1>3 DEF CreateProject, AfterCreate
  <2>1. TypeOK'
    <3>1. req[a].key \in Key \cup {None} /\ req[a].keyV1 \in Key \cup {None} /\ req[a].slug \in Slug
      BY DEF Request
    <3>2. /\ status' \in [Project -> {"none", "live", "deleted"}]
          /\ key' \in [Project -> Key \cup {None}]
          /\ keyV1' \in [Project -> Key \cup {None}]
          /\ slug' \in [Project -> Slug \cup {None}]
          /\ \A q \in Project \ Live' : key'[q] = None /\ keyV1'[q] = None /\ slug'[q] = None
      BY <3>1 DEF TypeOK, Live
    <3>3. seen' \in [Account -> SUBSET Project]
      BY DEF TypeOK, Seen
    <3> QED
      BY <3>2, <3>3 DEF TypeOK, RequestPC, accessVars
  <2>2. SeenCovers' /\ \A b \in Account : seen[b] \subseteq seen'[b]
    BY SeenStillCovers DEF TypeOK
  <2>3. p \in seen'[a]
    BY DEF TypeOK, Seen, Suits, Matches
  <2>4. StageOK' /\ ServedByLive'
    BY <2>2, <2>3 DEF TypeOK, StageOK, ServedByLive
  <2>5. LegacyWithCanonical'
    BY SentRequest DEF TypeOK, LegacyWithCanonical
  <2>6. KeyIsUnique'
    BY DEF TypeOK, KeyIsUnique, Taken
  <2>7. NoOrphan'
    BY DEF TypeOK, NoOrphan, Live, accessVars
  <2> QED
    BY <2>1, <2>2, <2>4, <2>5, <2>6, <2>7
<1> QED
  BY <1>2, <1>3

LEMMA UpdateKeeps ==
    ASSUME ProjectsInv, NEW p \in Project, NEW s \in Slug \cup {slug[p]}, NEW ks \in Links(p),
           UpdateProject(p, s, ks)
    PROVE  ProjectsInv'
<1> USE ProjectsAssumption DEF ProjectsInv, UpdateProject
<1>1. /\ ks[1] \in Key \cup {None} /\ ks[2] \in Key \cup {None}
      /\ ks[2] # None => ks[1] = DeriveRemoteKey(ks[2])
  BY KeysOfUrl DEF Links, Linked, TypeOK, LegacyWithCanonical, DeriveLegacyRemoteKey
<1>2. TypeOK'
  BY <1>1 DEF TypeOK, Live, Seen, Edit, accessVars
<1>3. SeenCovers' /\ \A b \in Account : seen[b] \subseteq seen'[b]
  BY SeenStillCovers
<1>4. StageOK' /\ ServedByLive'
  BY <1>3 DEF StageOK, ServedByLive
<1>5. LegacyWithCanonical'
  BY <1>1 DEF TypeOK, LegacyWithCanonical
<1>6. KeyIsUnique'
  BY DEF TypeOK, KeyIsUnique, Taken
<1>7. NoOrphan'
  BY DEF TypeOK, NoOrphan, Live, accessVars
<1> QED
  BY <1>2, <1>3, <1>4, <1>5, <1>6, <1>7

LEMMA DeleteKeeps ==
    ASSUME ProjectsInv, NEW p \in Project, SoftDeleteProject(p)
    PROVE  ProjectsInv'
<1> USE ProjectsAssumption DEF ProjectsInv, SoftDeleteProject, DeletedKey, requestVars, accessVars
<1>1. TypeOK'
  BY DEF TypeOK, Live, Edit
<1>2. StageOK' /\ ServedByLive'
  BY DEF StageOK, ServedByLive
<1>3. LegacyWithCanonical' /\ KeyIsUnique'
  BY DEF TypeOK, LegacyWithCanonical, KeyIsUnique
<1>4. SeenCovers'
  BY DEF TypeOK, SeenCovers, Suits, Matches, Live
<1>5. NoOrphan'
  BY DEF TypeOK, NoOrphan, Live
<1> QED
  BY <1>1, <1>2, <1>3, <1>4, <1>5

\* Edits of grants and members.
LEMMA AccessKeeps ==
    ASSUME ProjectsInv, NEW a \in Account,
           \/ AddTeamMember(a) \/ RemoveTeamMember(a)
           \/ \E S \in SUBSET Project : SetAccountProjects(a, S)
    PROVE  ProjectsInv'
<1> USE ProjectsAssumption
        DEF ProjectsInv, AddTeamMember, RemoveTeamMember, SetAccountProjects, rowVars, requestVars, Live
<1>1. TypeOK'
  BY DEF TypeOK, Edit
<1>2. StageOK' /\ ServedByLive' /\ LegacyWithCanonical' /\ KeyIsUnique'
  BY DEF StageOK, ServedByLive, LegacyWithCanonical, KeyIsUnique
<1>3. SeenCovers' /\ NoOrphan'
  BY DEF SeenCovers, Suits, Matches, NoOrphan
<1> QED
  BY <1>1, <1>2, <1>3

-----------------------------------------------------------------------------
THEOREM ProjectsStep == ProjectsInv /\ [Next]_vars => ProjectsInv'
<1> SUFFICES ASSUME ProjectsInv, [Next]_vars PROVE ProjectsInv'
  OBVIOUS
<1>1. CASE UNCHANGED vars
  BY <1>1 DEF vars, rowVars, accessVars, requestVars, ProjectsInv, TypeOK, StageOK, LegacyWithCanonical,
     KeyIsUnique, SeenCovers, ServedByLive, NoOrphan, Live, Suits, Matches
<1>2. ASSUME NEW a \in Account, Quiet(a) PROVE ProjectsInv'
  BY <1>2, QuietTyped, QuietStage, QuietGrants DEF ProjectsInv
<1> QED
  BY <1>1, <1>2, SendKeeps, CreateKeeps, UpdateKeeps, DeleteKeeps, AccessKeeps
     DEF Next, Serve, Administer, Quiet

\* The inductive invariant holds of every behaviour.
THEOREM ProjectsInvariant == Spec => []ProjectsInv
BY ProjectsInit, ProjectsStep, PTL DEF Spec

\* Rows, keys, grants and requests keep their types, and a row that is not live
\* keeps no slug and no key.
THEOREM ProjectsTypeCorrect == Spec => []TypeOK
BY ProjectsInvariant, PTL DEF ProjectsInv

\* A repository's key finds at most one project: where the key is the legacy one
\* of a URL, it is that row's canonical key too, and that is unique.
THEOREM KeyFindsOneProject == Spec => []KeyResolvesOnce
<1>1. ProjectsInv => KeyResolvesOnce
  <2> SUFFICES ASSUME ProjectsInv, NEW r \in Repo, NEW p \in Matching(<<r, "v2">>), NEW q \in Matching(<<r, "v2">>)
               PROVE  p = q
    BY DEF KeyResolvesOnce
  <2> DEFINE k == <<r, "v2">>
  <2>1. DeriveRemoteKey(k) = k
    BY DEF DeriveRemoteKey
  <2>2. k \in Key
    BY DEF Key
  <2>3. k # None
    BY <2>2, ProjectsAssumption
  <2> HIDE DEF k
  <2>4. \A t \in Matching(k) : t \in Project /\ key[t] = k
    BY <2>1, <2>3 DEF Matching, Matches, Live, ProjectsInv, LegacyWithCanonical
  <2> QED
    BY <2>3, <2>4 DEF ProjectsInv, KeyIsUnique, k
<1> QED
  BY <1>1, ProjectsInvariant, PTL

\* What a request writes to was live, and had the key it claims, since it began,
\* but for an administrator's sync by id and for triples.
THEOREM WritesToLive == Spec => []ServedByLive
BY ProjectsInvariant, PTL DEF ProjectsInv

\* Only an administrator or a creation cut short leaves a live project out of the
\* default team.
THEOREM ProjectsAreGranted == Spec => []NoOrphan
BY ProjectsInvariant, PTL DEF ProjectsInv
=============================================================================
