------------------------------ MODULE Accounts ------------------------------
(***************************************************************************)
(* Organizations, accounts, memberships, invites and API keys.             *)
(*                                                                         *)
(* Every way to get in (first-run onboarding, registration, the -bootstrap *)
(* command, an invite, an administrator's POST /v1/accounts, a login) and  *)
(* an account's removal is a request handler that makes several statements *)
(* on the database with no transaction around them.  Handlers interleave   *)
(* between their statements, and each may end after any of them: an error, *)
(* a crash, a client that went away.  An account is never deleted and its  *)
(* email never changes, so its email stands for it, as an organization's   *)
(* slug does for the organization.  The projects onboarding may create are *)
(* in Projects.                                                            *)
(***************************************************************************)
EXTENDS Naturals, FiniteSets

CONSTANTS
    Org,      \* organization slugs
    Email,
    Role,     \* membership roles and key scopes
    KeyId,
    Invite,   \* invite ids
    Request,  \* handlers that may run at once
    None,
    MaxBegun, \* bound: the handlers of several statements that begin
    MaxEdits  \* bound: the rows an administrator makes or changes

ASSUME AccountsAssumption ==
    /\ {"admin", "member"} \subseteq Role
    /\ None \notin Org \cup Email \cup Role \cup Invite
    /\ IsFiniteSet(KeyId) /\ IsFiniteSet(Request)
    /\ MaxBegun \in Nat /\ MaxEdits \in Nat

VARIABLES
    orgs,      \* the organizations that exist
    password,  \* password[e]: "none" (no account), "null" or "set"
    role,      \* role[o][e]: org_members.role, None if no row
    team,      \* <<o, e>>: e is in the default team of o
    keys,      \* keys[k]: the API key's row
    invites,   \* invites[i]: the invite's row
    req,       \* req[r]: the handler's locals and its next statement
    cut,       \* history: accounts and organizations a handler left unfinished
    lapsed,    \* history: accounts a login of which could not revoke
    begun,
    edits

tables == <<orgs, password, role, team, keys, invites>>
history == <<cut, lapsed>>
vars == <<tables, req, history, begun, edits>>

Kind == {"onboard", "register", "bootstrap", "accept", "create", "login", "delete"}

\* A handler's next statement.
Statement == {"idle", "count", "lookup", "org", "invite", "ensure", "read", "account",
              "password", "member", "team", "revoke", "key", "mark", "keys", "leave"}

Locals == [kind : Kind, at : Statement, org : Org \cup {None}, email : Email \cup {None},
           role : Role \cup {None}, invite : Invite \cup {None}, pass : BOOLEAN]

\* How a key was made: by an administrator, a login, or as one joined.
KeyRow == [org : Org, account : Email, scope : Role, by : {"admin", "session", "joining"},
           invite : Invite \cup {None}, live : BOOLEAN]

InviteRow == [org : Org, email : Email, role : Role,
              state : {"open", "expired", "accepted", "deleted"}]

ASSUME NoneIsNoRow == None \notin KeyRow \cup InviteRow

TypeOK ==
    /\ orgs \subseteq Org
    /\ password \in [Email -> {"none", "null", "set"}]
    /\ role \in [Org -> [Email -> Role \cup {None}]]
    /\ team \subseteq Org \X Email
    /\ keys \in [KeyId -> KeyRow \cup {None}]
    /\ invites \in [Invite -> InviteRow \cup {None}]
    /\ req \in [Request -> Locals]
    /\ cut \subseteq Org \cup Email
    /\ lapsed \subseteq Email
    /\ begun \in 0..MaxBegun
    /\ edits \in 0..MaxEdits

Idle == [kind |-> "login", at |-> "idle", org |-> None, email |-> None,
         role |-> None, invite |-> None, pass |-> FALSE]

Init ==
    /\ orgs = {}
    /\ password = [e \in Email |-> "none"]
    /\ role = [o \in Org |-> [e \in Email |-> None]]
    /\ team = {}
    /\ keys = [k \in KeyId |-> None]
    /\ invites = [i \in Invite |-> None]
    /\ req = [r \in Request |-> Idle]
    /\ cut = {}
    /\ lapsed = {}
    /\ begun = 0
    /\ edits = 0

-----------------------------------------------------------------------------
(* Who may ask. *)

\* The key passes the Auth middleware, as one of o and of its scope.
Auth(k, o, scope) ==
    keys[k] # None /\ keys[k].live /\ keys[k].org = o /\ keys[k].scope = scope

\* An administrator of o asks.
RequireAdmin(o) == \E k \in KeyId : Auth(k, o, "admin")

Exists(e) == password[e] # "none"

\* A row with a NULL password_hash cannot be scanned.
Readable(e) == password[e] = "set"

-----------------------------------------------------------------------------
(* Handlers begin. *)

Start(r, q) == req[r].at = "idle" /\ req' = [req EXCEPT ![r] = q]

Founding(kind, first, o, e) ==
    [Idle EXCEPT !.kind = kind, !.at = first, !.org = o, !.email = e, !.role = "admin"]

\* POST /v1/onboarding/complete
Onboard(r) == \E o \in Org, e \in Email : Start(r, Founding("onboard", "count", o, e))

\* POST /v1/auth/register
Register(r) == \E o \in Org, e \in Email : Start(r, Founding("register", "lookup", o, e))

\* anchored-oss -bootstrap
Bootstrap(r) == \E o \in Org, e \in Email : Start(r, Founding("bootstrap", "org", o, e))

\* POST /v1/invites/accept/{token}
Accept(r) ==
    \E i \in Invite :
        /\ invites[i] # None
        /\ Start(r, [Idle EXCEPT !.kind = "accept", !.at = "invite", !.invite = i])

\* POST /v1/accounts, with or without a password
Create(r) ==
    \E o \in orgs, e \in Email, p \in BOOLEAN :
        /\ RequireAdmin(o)
        /\ Start(r, [Idle EXCEPT !.kind = "create", !.at = "ensure", !.org = o,
                                 !.email = e, !.role = "member", !.pass = p])

\* POST /v1/auth/login, with the right password
Login(r) ==
    \E e \in Email : Start(r, [Idle EXCEPT !.kind = "login", !.at = "read", !.email = e,
                                           !.role = "admin"])

\* DELETE /v1/accounts/{id}
Delete(r) ==
    \E e \in Email :
        /\ Exists(e)
        /\ \E o \in orgs : RequireAdmin(o)
        /\ Start(r, [Idle EXCEPT !.kind = "delete", !.at = "keys", !.email = e])

Begin(r) ==
    /\ \/ Onboard(r) \/ Register(r) \/ Bootstrap(r) \/ Accept(r)
       \/ Create(r) \/ Login(r) \/ Delete(r)
    /\ begun < MaxBegun /\ begun' = begun + 1
    /\ UNCHANGED <<tables, history, edits>>

-----------------------------------------------------------------------------
(* Their statements. *)

At(r, statement) == req[r].at = statement

Goto(r, statement) == req' = [req EXCEPT ![r].at = statement]

\* The locals are dropped with the handler.
Done(r) == req' = [req EXCEPT ![r] = Idle]

\* What a handler that ends here leaves behind: an organization without
\* members, or an account that is no member.
Unfinished(q) ==
    CASE q.at = "account" -> IF q.kind = "accept" THEN {} ELSE {q.org}
      [] q.at \in {"password", "member"} -> {q.org, q.email}
      [] OTHER -> {}

Fail(r) ==
    /\ cut' = cut \cup Unfinished(req[r])
    /\ Done(r)

CountOrganizations(r) ==
    /\ At(r, "count")
    /\ IF orgs = {} THEN Goto(r, "org") ELSE Done(r)
    /\ UNCHANGED <<tables, history, begun, edits>>

GetAccountByEmail(r) ==
    /\ At(r, "lookup")
    /\ IF Exists(req[r].email) THEN Done(r) ELSE Goto(r, "org")
    /\ UNCHANGED <<tables, history, begun, edits>>

\* The slug is UNIQUE.
CreateOrganization(r) ==
    /\ At(r, "org")
    /\ IF req[r].org \in orgs
       THEN Done(r) /\ UNCHANGED orgs
       ELSE Goto(r, "account") /\ orgs' = orgs \cup {req[r].org}
    /\ UNCHANGED <<password, role, team, keys, invites, history, begun, edits>>

\* (The fault does not take over the invite's role.)
GetInviteWithoutRole(r) ==
    /\ At(r, "invite")
    /\ LET i == invites[req[r].invite] IN
       /\ i.state = "open"
       /\ req' = [req EXCEPT ![r] = [@ EXCEPT !.at = "account", !.org = i.org,
                                              !.email = i.email]]
    /\ UNCHANGED <<tables, history, begun, edits>>

GetInviteByTokenHash(r) ==
    /\ At(r, "invite")
    /\ LET i == invites[req[r].invite] IN
       IF i.state = "open"
       THEN req' = [req EXCEPT ![r] = [@ EXCEPT !.at = "account", !.org = i.org,
                                                !.email = i.email, !.role = i.role]]
       ELSE Done(r)
    /\ UNCHANGED <<tables, history, begun, edits>>

\* (The fault gives the key before the membership.)
CreateAccountAndKey(r) ==
    /\ At(r, "account")
    /\ ~Exists(req[r].email)
    /\ password' = [password EXCEPT ![req[r].email] = "set"]
    /\ Goto(r, "key")
    /\ UNCHANGED <<orgs, role, team, keys, invites, history, begun, edits>>

\* The email is UNIQUE.
CreateAccount(r) ==
    /\ At(r, "account")
    /\ IF Exists(req[r].email)
       THEN Fail(r) /\ UNCHANGED password
       ELSE /\ password' = [password EXCEPT ![req[r].email] = "set"]
            /\ Goto(r, "member")
            /\ UNCHANGED cut
    /\ UNCHANGED <<orgs, role, team, keys, invites, lapsed, begun, edits>>

\* Only an account created by this call gets a password and a membership;
\* one without a password cannot be read and the request fails.
GetOrCreateAccountByEmail(r) ==
    /\ At(r, "ensure")
    /\ IF Exists(req[r].email)
       THEN Done(r) /\ UNCHANGED password
       ELSE /\ password' = [password EXCEPT ![req[r].email] = "null"]
            /\ Goto(r, IF req[r].pass THEN "password" ELSE "member")
    /\ UNCHANGED <<orgs, role, team, keys, invites, history, begun, edits>>

\* (The fault makes a member only of an account without a password.)
SetAccountPasswordLast(r) ==
    /\ At(r, "password")
    /\ password' = [password EXCEPT ![req[r].email] = "set"]
    /\ Done(r)
    /\ UNCHANGED <<orgs, role, team, keys, invites, history, begun, edits>>

SetAccountPassword(r) ==
    /\ At(r, "password")
    /\ password' = [password EXCEPT ![req[r].email] = "set"]
    /\ Goto(r, "member")
    /\ UNCHANGED <<orgs, role, team, keys, invites, history, begun, edits>>

AddOrgMember(r) ==
    /\ At(r, "member")
    /\ role' = [role EXCEPT ![req[r].org][req[r].email] = req[r].role]
    /\ Goto(r, "team")
    /\ UNCHANGED <<orgs, password, team, keys, invites, history, begun, edits>>

EnsureDefaultTeamMembership(r) ==
    /\ At(r, "team")
    /\ team' = team \cup {<<req[r].org, req[r].email>>}
    /\ IF req[r].kind = "create" THEN Done(r) ELSE Goto(r, "key")
    /\ UNCHANGED <<orgs, password, role, keys, invites, history, begun, edits>>

\* (The fault does not need the membership.)
ReadAccountOfAny(r) ==
    /\ At(r, "read")
    /\ Readable(req[r].email)
    /\ \E o \in orgs : req' = [req EXCEPT ![r].at = "revoke", ![r].org = o]
    /\ UNCHANGED <<tables, history, begun, edits>>

\* A login needs an account with a password and a membership.
ReadAccount(r) ==
    /\ At(r, "read")
    /\ LET e == req[r].email IN
       \/ /\ Readable(e)
          /\ \E o \in Org :
                /\ role[o][e] # None
                /\ req' = [req EXCEPT ![r].at = "revoke", ![r].org = o]
       \/ /\ ~Readable(e) \/ \A o \in Org : role[o][e] = None
          /\ Done(r)
    /\ UNCHANGED <<tables, history, begun, edits>>

IsSession(k, e) ==
    keys[k] # None /\ keys[k].by = "session" /\ keys[k].account = e /\ keys[k].live

Revoked(S) == [k \in KeyId |-> IF k \in S THEN [keys[k] EXCEPT !.live = FALSE] ELSE keys[k]]

\* (The fault leaves the earlier sessions.)
RevokeSessionKeysNot(r) ==
    /\ At(r, "revoke")
    /\ Goto(r, "key")
    /\ UNCHANGED <<tables, history, begun, edits>>

\* A revocation that fails is logged and the login goes on.
RevokeSessionKeys(r) ==
    /\ At(r, "revoke")
    /\ \/ keys' = Revoked({k \in KeyId : IsSession(k, req[r].email)}) /\ UNCHANGED lapsed
       \/ lapsed' = lapsed \cup {req[r].email} /\ UNCHANGED keys
    /\ Goto(r, "key")
    /\ UNCHANGED <<orgs, password, role, team, invites, cut, begun, edits>>

CreateAPIKey(r) ==
    /\ At(r, "key")
    /\ \E k \in KeyId :
        /\ keys[k] = None
        /\ keys' = [keys EXCEPT ![k] =
             [org |-> req[r].org, account |-> req[r].email, scope |-> req[r].role,
              by |-> IF req[r].kind = "login" THEN "session" ELSE "joining",
              invite |-> req[r].invite, live |-> TRUE]]
    /\ IF req[r].kind = "accept" THEN Goto(r, "mark") ELSE Done(r)
    /\ UNCHANGED <<orgs, password, role, team, invites, history, begun, edits>>

\* By id: nothing if the invite was deleted.
MarkInviteAccepted(r) ==
    /\ At(r, "mark")
    /\ LET i == req[r].invite IN
       invites' = IF invites[i].state = "deleted" THEN invites
                  ELSE [invites EXCEPT ![i].state = "accepted"]
    /\ Done(r)
    /\ UNCHANGED <<orgs, password, role, team, keys, history, begun, edits>>

\* The first statement of SoftDeleteAccount.
RevokeAccountKeys(r) ==
    /\ At(r, "keys")
    /\ keys' = Revoked({k \in KeyId : keys[k] # None /\ keys[k].account = req[r].email})
    /\ Goto(r, "leave")
    /\ UNCHANGED <<orgs, password, role, team, invites, history, begun, edits>>

\* The second: out of every team.
LeaveTeams(r) ==
    /\ At(r, "leave")
    /\ team' = {m \in team : m[2] # req[r].email}
    /\ Done(r)
    /\ UNCHANGED <<orgs, password, role, keys, invites, history, begun, edits>>

\* The handler ends before its next statement.
Cut(r) ==
    /\ ~At(r, "idle")
    /\ Fail(r)
    /\ UNCHANGED <<tables, lapsed, begun, edits>>

Step(r) ==
    \/ CountOrganizations(r) \/ GetAccountByEmail(r) \/ CreateOrganization(r)
    \/ GetInviteByTokenHash(r) \/ CreateAccount(r) \/ GetOrCreateAccountByEmail(r)
    \/ SetAccountPassword(r) \/ AddOrgMember(r) \/ EnsureDefaultTeamMembership(r)
    \/ ReadAccount(r) \/ RevokeSessionKeys(r) \/ CreateAPIKey(r)
    \/ MarkInviteAccepted(r) \/ RevokeAccountKeys(r) \/ LeaveTeams(r)

-----------------------------------------------------------------------------
(* Handlers of one statement, and time. *)

CreateInvite ==
    /\ \E i \in Invite, o \in orgs, e \in Email, s \in Role :
        /\ invites[i] = None
        /\ RequireAdmin(o)
        /\ invites' = [invites EXCEPT ![i] =
             [org |-> o, email |-> e, role |-> s, state |-> "open"]]
    /\ UNCHANGED <<orgs, password, role, team, keys, req, history, begun>>

\* Any invite, by id.
DeleteInvite ==
    /\ \E i \in Invite, o \in orgs :
        /\ RequireAdmin(o)
        /\ invites[i] # None
        /\ invites' = [invites EXCEPT ![i].state = "deleted"]
    /\ UNCHANGED <<orgs, password, role, team, keys, req, history, begun, edits>>

InviteExpires ==
    /\ \E i \in Invite :
        /\ invites[i] # None /\ invites[i].state = "open"
        /\ invites' = [invites EXCEPT ![i].state = "expired"]
    /\ UNCHANGED <<orgs, password, role, team, keys, req, history, begun, edits>>

\* POST /v1/api-keys: for any account
IssueAPIKey ==
    /\ \E k \in KeyId, o \in orgs, e \in Email, s \in Role :
        /\ RequireAdmin(o)
        /\ keys[k] = None /\ Exists(e)
        /\ keys' = [keys EXCEPT ![k] = [org |-> o, account |-> e, scope |-> s,
                                        by |-> "admin", invite |-> None, live |-> TRUE]]
    /\ UNCHANGED <<orgs, password, role, team, invites, req, history, begun>>

\* By an administrator, or at its expiry.
RevokeAPIKey ==
    /\ \E k \in KeyId :
        /\ keys[k] # None
        /\ (\E o \in orgs : RequireAdmin(o)) \/ keys[k].by = "admin"
        /\ keys' = Revoked({k})
    /\ UNCHANGED <<orgs, password, role, team, invites, req, history, begun, edits>>

\* PATCH /v1/accounts/{id}: the role in every organization.
UpdateAccount ==
    /\ \E e \in Email, s \in Role :
        /\ \E o \in orgs : RequireAdmin(o)
        /\ role' = [o \in Org |-> [role[o] EXCEPT ![e] = IF @ = None THEN None ELSE s]]
    /\ UNCHANGED <<orgs, password, team, keys, invites, req, history, begun>>

Administer ==
    /\ CreateInvite \/ IssueAPIKey \/ UpdateAccount
    /\ edits < MaxEdits /\ edits' = edits + 1

Next ==
    \/ \E r \in Request : Begin(r) \/ Step(r) \/ Cut(r)
    \/ Administer
    \/ DeleteInvite \/ RevokeAPIKey \/ InviteExpires

Spec == Init /\ [][Next]_vars

-----------------------------------------------------------------------------
(* Properties. *)

Joined(o, e) == Exists(e) /\ role[o][e] # None

(* A key one gets by joining or by logging in is for a member of its
   organization, wherever handlers were cut off: CreateAPIKey comes after
   AddOrgMember, and a login reads the membership first. *)
KeysAreOfMembers ==
    \A k \in KeyId :
        keys[k] # None /\ keys[k].by # "admin" => Joined(keys[k].org, keys[k].account)

(* An invite lets one account in, once, however many accept it at a time and
   whenever it expires or is deleted meanwhile; and one marked accepted has
   let its account in. *)
InviteTakenOnce ==
    \A i \in Invite :
        /\ \A k, l \in KeyId : (keys[k] # None /\ keys[l] # None /\ keys[k].invite = i
                                  /\ keys[l].invite = i) => k = l
        /\ invites[i] # None /\ invites[i].state = "accepted" =>
             Joined(invites[i].org, invites[i].email)

(* No account is without an organization and no organization without a
   member, unless the handler that was creating it is still at it or was cut
   off: nothing in the server repairs what a cut leaves. *)
NobodyStranded ==
    /\ \A e \in Email :
        Exists(e) => \/ \E o \in Org : role[o][e] # None
                     \/ e \in cut
                     \/ \E r \in Request : req[r].email = e /\ req[r].at \in {"password", "member"}
    /\ \A o \in orgs :
        \/ \E e \in Email : role[o][e] # None
        \/ o \in cut
        \/ \E r \in Request : req[r].org = o /\ req[r].at \in {"account", "member"}

Sessions(e) == {k \in KeyId : IsSession(k, e)}

LoggingIn(e) ==
    {r \in Request : req[r].at = "key" /\ req[r].kind = "login" /\ req[r].email = e}

(* A login ends the account's earlier sessions.  Logins that overlap may each
   leave one, so an account has no more live sessions than logins can run at
   once, unless a revocation failed. *)
SessionsBounded ==
    \A e \in Email \ lapsed :
        Cardinality(Sessions(e)) + Cardinality(LoggingIn(e)) <= Cardinality(Request)

=============================================================================
