------------------------------ MODULE Projects ------------------------------
(***************************************************************************)
(* The projects of an organization, how requests find theirs, and who may  *)
(* reach it.                                                               *)
(*                                                                         *)
(* A repository's project is found by a key derived from the repository's  *)
(* URL.  There are two derivations: clients and projects from before a     *)
(* change of the normalization have the legacy key.  POST /v1/memories     *)
(* creates the project it does not find, as does the dashboard; both grant *)
(* it to the default team in a statement of its own.  Sync only finds      *)
(* projects, and the triples of a knowledge graph and the deletion of a    *)
(* period's memories name theirs by id.  Requests interleave between their *)
(* statements, among one another and with an administrator's edits.        *)
(***************************************************************************)
EXTENDS Naturals, FiniteSets

CONSTANTS
    Project,   \* project ids
    Account,   \* accounts, with at most one request in flight each
    Admin,     \* the accounts whose key has the admin scope
    Repo,      \* repositories
    Ported,    \* those with a URL whose legacy key is not its canonical key
    Slug,
    None,
    Sent,      \* the requests that are sent
    MaxEdits   \* bound: an administrator's edits

Key == (Repo \X {"v2"}) \cup (Ported \X {"v1"})

\* A URL is given by its repository and its legacy key.
Url == Key

DeriveRemoteKey(u) == <<u[1], "v2">>

DeriveLegacyRemoteKey(u) == u

\* "undo" deletes the memories of a period.
Request == [op : {"remember", "sync", "create", "ingest", "undo"}, id : Project \cup {None},
            key : Key \cup {None}, keyV1 : Key \cup {None}, slug : Slug]

Claims(r) == r.op \in {"remember", "sync"}

\* By id, by claim, or a creation: of a URL, of a key, or of no repository.
Sendable ==
    {r \in Request :
        \/ Claims(r) /\ (r.id = None) # (r.key = None) /\ r.keyV1 = None
        \/ r.op \in {"ingest", "undo"} /\ r.id # None /\ r.key = None /\ r.keyV1 = None
        \/ r.op = "create" /\ r.id = None /\
             (r.keyV1 = None \/ r.key = DeriveRemoteKey(r.keyV1))}

ASSUME ProjectsAssumption ==
    /\ Admin \subseteq Account /\ Ported \subseteq Repo
    /\ None \notin Project \cup Slug \cup Key \cup Request
    /\ Sent \subseteq Sendable
    /\ MaxEdits \in Nat

VARIABLES
    status,    \* status[p]: "none" (no row), "live" or "deleted"
    key,       \* key[p]: remote_key, None where it is one no repository has
    keyV1,     \* keyV1[p]: remote_key_v1, None if NULL
    slug,      \* slug[p], None where it is parked
    grants,    \* the projects granted to the default team
    members,   \* the accounts in the default team
    pc,        \* pc[a]: where a's request is
    req,       \* req[a]: the request in flight, or None
    target,    \* target[a]: the project found or created for it, or None
    seen,      \* history: what a's request could have found since it began
    cut,       \* history: projects whose creation ended before the grant
    taken,     \* history: projects an administrator took from the team
    edits

rowVars == <<status, key, keyV1, slug>>
accessVars == <<grants, members>>
requestVars == <<pc, req, target>>
vars == <<rowVars, accessVars, requestVars, seen, cut, taken, edits>>

\* "regrant": the dashboard's creation found the project.
RequestPC == {"idle", "resolve", "authorize", "create", "grant", "regrant", "write"}

Live == {p \in Project : status[p] = "live"}

TypeOK ==
    /\ status \in [Project -> {"none", "live", "deleted"}]
    /\ key \in [Project -> Key \cup {None}]
    /\ keyV1 \in [Project -> Key \cup {None}]
    /\ slug \in [Project -> Slug \cup {None}]
    /\ \A p \in Project \ Live : key[p] = None /\ keyV1[p] = None /\ slug[p] = None
    /\ grants \subseteq Project
    /\ members \subseteq Account
    /\ pc \in [Account -> RequestPC]
    /\ req \in [Account -> Request \cup {None}]
    /\ target \in [Account -> Project \cup {None}]
    /\ seen \in [Account -> SUBSET Project]
    /\ cut \subseteq Project
    /\ taken \subseteq Project
    /\ edits \in 0..MaxEdits

\* Accounts join the default team as they are created.
Init ==
    /\ status = [p \in Project |-> "none"]
    /\ key = [p \in Project |-> None]
    /\ keyV1 = [p \in Project |-> None]
    /\ slug = [p \in Project |-> None]
    /\ grants = {}
    /\ members = Account
    /\ pc = [a \in Account |-> "idle"]
    /\ req = [a \in Account |-> None]
    /\ target = [a \in Account |-> None]
    /\ seen = [a \in Account |-> {}]
    /\ cut = {}
    /\ taken = {}
    /\ edits = 0

Edit == edits < MaxEdits /\ edits' = edits + 1

\* p is found by k.
Matches(p, k) == key[p] = k \/ keyV1[p] = k

\* What the request r may be about: any project, if it names no key.
Suits(p, r) == r.key = None \/ Matches(p, r.key)

\* A row has changed.
Seen == seen' = [a \in Account |-> seen[a] \cup
                   {p \in Project : pc[a] # "idle" /\ status'[p] = "live" /\ Suits(p, req[a])'}]

-----------------------------------------------------------------------------
(* Requests.                                                               *)

Send(a, r) ==
    /\ pc[a] = "idle"
    /\ r.op \in {"create", "undo"} => a \in Admin
    /\ pc' = [pc EXCEPT ![a] = "resolve"]
    /\ req' = [req EXCEPT ![a] = r]
    /\ seen' = [seen EXCEPT ![a] = {p \in Live : Suits(p, r)}]
    /\ UNCHANGED <<rowVars, accessVars, target, cut, taken, edits>>

Goes(a, step, p) ==
    /\ pc' = [pc EXCEPT ![a] = step]
    /\ target' = [target EXCEPT ![a] = p]
    /\ UNCHANGED <<req, seen>>

\* a is answered, or its request is given up.
Ends(a) ==
    /\ pc' = [pc EXCEPT ![a] = "idle"]
    /\ req' = [req EXCEPT ![a] = None]
    /\ target' = [target EXCEPT ![a] = None]
    /\ seen' = [seen EXCEPT ![a] = {}]

\* The projects an id may name: sync reaches deleted ones.
Named(r) == IF r.op = "sync" THEN {p \in Project : status[p] # "none"} ELSE Live

AfterFound(r) ==
    CASE r.op = "remember" -> "write"
      [] r.op = "sync" -> "authorize"
      [] r.op = "create" -> "regrant"

ResolveId(a) ==
    /\ pc[a] = "resolve"
    /\ Claims(req[a]) /\ req[a].id # None
    /\ \/ req[a].id \in Named(req[a]) /\ Goes(a, AfterFound(req[a]), req[a].id)
       \/ req[a].id \notin Named(req[a]) /\ Ends(a)
    /\ UNCHANGED <<rowVars, accessVars, cut, taken, edits>>

Matching(k) == {p \in Live : k # None /\ Matches(p, k)}

GetProjectByRemoteKey(a) ==
    /\ pc[a] = "resolve"
    /\ req[a].id = None
    /\ \/ \E p \in Matching(req[a].key) : Goes(a, AfterFound(req[a]), p)
       \/ Matching(req[a].key) = {} /\ req[a].op # "sync" /\ Goes(a, "create", None)
       \/ Matching(req[a].key) = {} /\ req[a].op = "sync" /\ Ends(a)
    /\ UNCHANGED <<rowVars, accessVars, cut, taken, edits>>

HasProjectAccess(a, p) == a \in members /\ p \in grants

\* The projects listed for a.  (The fault asks for the grant only.)
MaySyncGranted(a, p) == a \in Admin \/ HasProjectAccess(a, p)

MaySync(a, p) == a \in Admin \/ (HasProjectAccess(a, p) /\ p \in Live)

Authorize(a) ==
    /\ pc[a] = "authorize"
    /\ \/ MaySync(a, target[a]) /\ Goes(a, "write", target[a])
       \/ ~MaySync(a, target[a]) /\ Ends(a)
    /\ UNCHANGED <<rowVars, accessVars, cut, taken, edits>>

CheckAccess(a, p) == a \in Admin \/ HasProjectAccess(a, p)

\* The project is not looked up: it is a row for the foreign key of the triples.
IngestTriples(a) ==
    LET p == req[a].id IN
    /\ pc[a] = "resolve" /\ req[a].op = "ingest"
    /\ \/ CheckAccess(a, p) /\ status[p] # "none" /\ Goes(a, "write", p)
       \/ ~(CheckAccess(a, p) /\ status[p] # "none") /\ Ends(a)
    /\ UNCHANGED <<rowVars, accessVars, cut, taken, edits>>

DeleteMemories(a) ==
    LET p == req[a].id IN
    /\ pc[a] = "resolve" /\ req[a].op = "undo"
    /\ \/ p \in Live /\ Goes(a, "write", p)
       \/ p \notin Live /\ Ends(a)
    /\ UNCHANGED <<rowVars, accessVars, cut, taken, edits>>

\* Slug and remote_key are unique, over deleted rows too; remote_key_v1 is not.
Taken(p, k, s) == \E q \in Project \ {p} : slug[q] = s \/ (k # None /\ key[q] = k)

\* A claim is granted what it creates.  (The fault leaves that to the dashboard.)
AfterCreateUngranted(r) == IF r.op = "create" THEN "grant" ELSE "write"

AfterCreate(r) == "grant"

\* p is a new id.
CreateProject(a, p) ==
    /\ pc[a] = "create"
    /\ status[p] = "none"
    /\ \/ /\ ~Taken(p, req[a].key, req[a].slug)
          /\ status' = [status EXCEPT ![p] = "live"]
          /\ key' = [key EXCEPT ![p] = req[a].key]
          /\ keyV1' = [keyV1 EXCEPT ![p] = req[a].keyV1]
          /\ slug' = [slug EXCEPT ![p] = req[a].slug]
          /\ pc' = [pc EXCEPT ![a] = AfterCreate(req[a])]
          /\ target' = [target EXCEPT ![a] = p]
          /\ UNCHANGED req
          /\ Seen
       \/ Taken(p, req[a].key, req[a].slug) /\ Ends(a) /\ UNCHANGED rowVars
    /\ UNCHANGED <<accessVars, cut, taken, edits>>

EnsureCreatorProjectAccess(a) ==
    /\ pc[a] \in {"grant", "regrant"}
    /\ members' = members \cup {a}
    /\ grants' = grants \cup {target[a]}
    /\ cut' = cut \ {target[a]}
    /\ taken' = taken \ {target[a]}
    /\ \/ req[a].op = "remember" /\ Goes(a, "write", target[a])
       \/ req[a].op = "create" /\ Ends(a)
    /\ UNCHANGED <<rowVars, edits>>

\* Memories are written, as SyncEngine and MemoryWrites have it, or triples.
Write(a) ==
    /\ pc[a] = "write"
    /\ Ends(a)
    /\ UNCHANGED <<rowVars, accessVars, cut, taken, edits>>

\* The process dies, or a statement fails.
Lose(a) ==
    /\ pc[a] # "idle"
    /\ Ends(a)
    /\ cut' = IF pc[a] = "grant" THEN cut \cup {target[a]} ELSE cut
    /\ UNCHANGED <<rowVars, accessVars, taken, edits>>

-----------------------------------------------------------------------------
(* An administrator's edits, each one transaction.                         *)

\* The keys of a project linked to the URL u.  (The fault keeps the legacy key.)
LinkedKeepsLegacy(p, u) == <<DeriveRemoteKey(u), keyV1[p]>>

Linked(p, u) == <<DeriveRemoteKey(u), DeriveLegacyRemoteKey(u)>>

\* Clearing the URL parks the keys.
Links(p) == {<<key[p], keyV1[p]>>, <<None, None>>} \cup {Linked(p, u) : u \in Url}

UpdateProject(p, s, ks) ==
    /\ Edit
    /\ p \in Live
    /\ ~Taken(p, ks[1], s)
    /\ slug' = [slug EXCEPT ![p] = s]
    /\ key' = [key EXCEPT ![p] = ks[1]]
    /\ keyV1' = [keyV1 EXCEPT ![p] = ks[2]]
    /\ UNCHANGED <<status, req>>
    /\ Seen
    /\ UNCHANGED <<accessVars, pc, target, cut, taken>>

\* What becomes of a deleted project's key.
DeletedKeyStays(p) == key[p]

DeletedKey(p) == None

\* The grants of a deleted project stay.
SoftDeleteProject(p) ==
    /\ Edit
    /\ p \in Live
    /\ status' = [status EXCEPT ![p] = "deleted"]
    /\ key' = [key EXCEPT ![p] = DeletedKey(p)]
    /\ keyV1' = [keyV1 EXCEPT ![p] = None]
    /\ slug' = [slug EXCEPT ![p] = None]
    /\ UNCHANGED <<accessVars, requestVars, seen, cut, taken>>

\* Sets the default team's grants, whoever the account is.
SetAccountProjects(a, S) ==
    /\ Edit
    /\ members' = members \cup {a}
    /\ grants' = S \cap Live
    /\ taken' = (taken \ (S \cap Live)) \cup (grants \ (S \cap Live))
    /\ cut' = cut \ (S \cap Live)
    /\ UNCHANGED <<rowVars, requestVars, seen>>

AddTeamMember(a) ==
    /\ Edit
    /\ members' = members \cup {a}
    /\ UNCHANGED <<rowVars, grants, requestVars, seen, cut, taken>>

RemoveTeamMember(a) ==
    /\ Edit
    /\ a \in members
    /\ members' = members \ {a}
    /\ UNCHANGED <<rowVars, grants, requestVars, seen, cut, taken>>

-----------------------------------------------------------------------------
Serve(a) ==
    \/ ResolveId(a) \/ GetProjectByRemoteKey(a) \/ Authorize(a)
    \/ IngestTriples(a) \/ DeleteMemories(a)
    \/ (\E p \in Project : CreateProject(a, p)) \/ EnsureCreatorProjectAccess(a) \/ Write(a) \/ Lose(a)

Administer ==
    \/ \E p \in Project :
          \/ SoftDeleteProject(p)
          \/ \E s \in Slug \cup {slug[p]}, ks \in Links(p) : UpdateProject(p, s, ks)
    \/ \E a \in Account :
          \/ AddTeamMember(a) \/ RemoveTeamMember(a)
          \/ \E S \in SUBSET Project : SetAccountProjects(a, S)

Next ==
    \/ \E a \in Account : Serve(a) \/ \E r \in Sent : Send(a, r)
    \/ Administer

Spec == Init /\ [][Next]_vars

-----------------------------------------------------------------------------
\* The key of a repository is never that of two live projects, so that a memory
\* cannot land in either: not by two requests that create the project at once,
\* nor by links that are changed, cleared or taken over from a deleted project.
\* This is of the key that clients derive now: two projects can be found by one
\* legacy key, a claim's and the dashboard's.
KeyResolvesOnce ==
    \A r \in Repo : \A p, q \in Matching(<<r, "v2">>) : p = q

\* A request writes to a project that was live, and had the key it claims, at some
\* moment since it began, though the project may be deleted, linked to another
\* repository or taken over meanwhile.  Only an administrator's sync by id, and
\* triples, can be written to a project deleted before.
ServedByLive ==
    \A a \in Account : pc[a] = "write" =>
        \/ target[a] \in seen[a]
        \/ a \in Admin /\ req[a].op = "sync" /\ req[a].id # None
        \/ req[a].op = "ingest"

\* A live project that the default team does not have is being created, or its
\* creation was cut before the grant, or an administrator has set grants without it.
NoOrphan ==
    \A p \in Live :
        \/ p \in grants \cup cut \cup taken
        \/ \E a \in Account : pc[a] = "grant" /\ target[a] = p
=============================================================================
