--------------------------- MODULE AccountsProofs ---------------------------
(***************************************************************************)
(* Accounts, for any organizations, accounts, invites and keys and any     *)
(* number of handlers at once: keys are of members, an invite is taken     *)
(* once, what is left stranded was cut off, and sessions are bounded by    *)
(* the logins that can overlap.                                            *)
(***************************************************************************)
EXTENDS Accounts, FiniteSetTheorems, TLAPS

Founders == {"onboard", "register", "bootstrap"}

\* The locals a handler has when it comes to each of its statements.
LocalsOK ==
    \A r \in Request : LET q == req[r] IN
        /\ q.at = "idle" => q = Idle
        /\ q.at \in {"count", "lookup", "org"} => q.kind \in Founders
        /\ q.at \in {"ensure", "password"} => q.kind = "create"
        /\ q.at \in {"account", "member", "team"} => q.kind \in Founders \cup {"accept",
             "create"}
        /\ q.at = "account" => q.kind # "create"
        /\ q.at \in {"read", "revoke"} => q.kind = "login"
        /\ q.at \in {"keys", "leave"} => q.kind = "delete"
        /\ q.at = "key" => q.kind \in Founders \cup {"accept", "login"}
        /\ q.at \in {"invite", "mark"} => q.kind = "accept"
        /\ q.invite # None <=> q.kind = "accept"
        /\ q.at \notin {"idle", "invite"} => q.email \in Email
        /\ q.at \in {"count", "lookup", "org", "account", "ensure", "password", "member",
                     "team", "revoke", "key", "mark"} => q.org \in Org /\ q.role \in Role
        /\ q.at = "read" => q.role \in Role

\* What the tables hold when a handler comes to a statement.
StageOK ==
    \A r \in Request : LET q == req[r] IN
        /\ q.at \in {"password", "member"} => Exists(q.email)
        /\ q.at \in {"team", "key", "mark", "revoke"} => Joined(q.org, q.email)
        /\ q.kind = "accept" => invites[q.invite] # None
        /\ q.kind = "accept" /\ q.at # "invite" =>
             q.org = invites[q.invite].org /\ q.email = invites[q.invite].email

\* r has created the account of i.
Taking(r, i) ==
    req[r].kind = "accept" /\ req[r].invite = i /\ req[r].at \in {"member", "team", "key",
         "mark"}

\* An invite in the hands of one handler, or with its one key.
OneTaker ==
    \A i \in Invite :
        /\ \A r, s \in Request : Taking(r, i) /\ Taking(s, i) => r = s
        /\ \A k \in KeyId : keys[k] # None /\ keys[k].invite = i =>
             /\ invites[i] # None /\ Exists(invites[i].email)
             /\ \A r \in Request : Taking(r, i) => req[r].at = "mark"

HasMember(o) == \E e \in Email : role[o][e] # None

\* Only members make keys and invites for an organization.
OrgsAreOfMembers ==
    /\ \A k \in KeyId : keys[k] # None => HasMember(keys[k].org)
    /\ \A i \in Invite : invites[i] # None => HasMember(invites[i].org)

AccountsInv ==
    /\ TypeOK
    /\ LocalsOK
    /\ StageOK
    /\ KeysAreOfMembers
    /\ OneTaker
    /\ InviteTakenOnce
    /\ OrgsAreOfMembers
    /\ NobodyStranded

-----------------------------------------------------------------------------
THEOREM AccountsInit == Init => AccountsInv
BY AccountsAssumption DEF AccountsAssumption, Init, AccountsInv, TypeOK, LocalsOK, StageOK,
   KeysAreOfMembers, OneTaker, InviteTakenOnce, OrgsAreOfMembers, NobodyStranded,
   Idle, Locals, Kind, Statement, KeyRow, InviteRow, Taking, Exists

-----------------------------------------------------------------------------
(* The locals of a handler, kept by its steps. *)

LEMMA IdleIsLocals ==
    /\ Idle \in Locals /\ Idle.at = "idle" /\ Idle.kind = "login" /\ Idle.invite = None
    /\ Idle.email = None
BY DEF Idle, Locals, Kind, Statement

LEMMA LocalsFields ==
    ASSUME TypeOK, NEW r \in Request
    PROVE  /\ req[r].kind \in Kind /\ req[r].at \in Statement /\ req[r].org \in Org \cup {None}
           /\ req[r].email \in Email \cup {None} /\ req[r].role \in Role \cup {None}
           /\ req[r].invite \in Invite \cup {None} /\ req[r].pass \in BOOLEAN
BY DEF TypeOK, Locals

LEMMA GotoKeeps ==
    ASSUME TypeOK, NEW r \in Request, NEW s \in Statement, Goto(r, s)
    PROVE  /\ req' \in [Request -> Locals]
           /\ \A x \in Request \ {r} : req'[x] = req[x]
           /\ req'[r].at = s
           /\ req'[r].kind = req[r].kind /\ req'[r].org = req[r].org
           /\ req'[r].email = req[r].email /\ req'[r].role = req[r].role
           /\ req'[r].invite = req[r].invite
BY DEF TypeOK, Locals, Goto

LEMMA DoneEnds ==
    ASSUME TypeOK, NEW r \in Request, Done(r)
    PROVE  /\ req' \in [Request -> Locals]
           /\ \A x \in Request \ {r} : req'[x] = req[x]
           /\ req'[r] = Idle
BY IdleIsLocals DEF TypeOK, Done

\* A handler that begins.
LEMMA BeginLocals ==
    ASSUME TypeOK, NEW r \in Request, Begin(r)
    PROVE  /\ req' \in [Request -> Locals]
           /\ \A x \in Request \ {r} : req'[x] = req[x]
           /\ req[r].at = "idle"
           /\ LET q == req'[r] IN
              \/ /\ q.kind \in Founders /\ q.at \in {"count", "lookup",
                   "org"} /\ q.invite = None
                 /\ q.org \in Org /\ q.email \in Email /\ q.role \in Role
              \/ /\ q.kind = "accept" /\ q.at = "invite" /\ q.invite \in Invite
                 /\ invites[q.invite] # None
              \/ /\ q.kind = "create" /\ q.at = "ensure" /\ q.invite = None
                 /\ q.org \in Org /\ q.email \in Email /\ q.role \in Role
              \/ /\ q.kind = "login" /\ q.at = "read" /\ q.invite = None
                 /\ q.email \in Email /\ q.role \in Role
              \/ /\ q.kind = "delete" /\ q.at = "keys" /\ q.invite = None /\ q.email \in Email
<1> USE AccountsAssumption DEF AccountsAssumption
<1> DEFINE Starts(q) ==
      \/ /\ q.kind \in Founders /\ q.at \in {"count", "lookup", "org"} /\ q.invite = None
         /\ q.org \in Org /\ q.email \in Email /\ q.role \in Role
      \/ q.kind = "accept" /\ q.at = "invite" /\ q.invite \in Invite /\ invites[q.invite] # None
      \/ /\ q.kind = "create" /\ q.at = "ensure" /\ q.invite = None
         /\ q.org \in Org /\ q.email \in Email /\ q.role \in Role
      \/ q.kind = "login" /\ q.at = "read" /\ q.invite = None /\ q.email \in Email /\ q.role \in Role
      \/ q.kind = "delete" /\ q.at = "keys" /\ q.invite = None /\ q.email \in Email
<1>1. SUFFICES \E q \in Locals : Start(r, q) /\ Starts(q)
  BY DEF TypeOK, Start
<1> USE DEF Idle, Locals, Kind, Statement, Founders
<1>2. CASE Onboard(r) \/ Register(r) \/ Bootstrap(r)
  <2>1. PICK o \in Org, e \in Email, kind \in Founders, at \in {"count", "lookup", "org"} :
          Start(r, Founding(kind, at, o, e))
    BY <1>2 DEF Onboard, Register, Bootstrap
  <2> DEFINE q == Founding(kind, at, o, e)
  <2>2. /\ q \in Locals /\ q.kind = kind /\ q.at = at /\ q.org = o /\ q.email = e
        /\ q.role = "admin" /\ q.invite = None
    BY DEF Founding
  <2>3. Start(r, q)
    BY <2>1
  <2> HIDE DEF q
  <2> QED
    BY <2>2, <2>3
<1>3. CASE Accept(r)
  <2>1. PICK i \in Invite :
          /\ invites[i] # None
          /\ Start(r, [Idle EXCEPT !.kind = "accept", !.at = "invite", !.invite = i])
    BY <1>3 DEF Accept
  <2> DEFINE q == [Idle EXCEPT !.kind = "accept", !.at = "invite", !.invite = i]
  <2>2. q \in Locals /\ q.kind = "accept" /\ q.at = "invite" /\ q.invite = i
    OBVIOUS
  <2>3. Start(r, q)
    BY <2>1
  <2> HIDE DEF q
  <2> QED
    BY <2>1, <2>2, <2>3
<1>4. CASE Create(r)
  <2>1. PICK o \in orgs, e \in Email, p \in BOOLEAN :
          Start(r, [Idle EXCEPT !.kind = "create", !.at = "ensure", !.org = o,
                                !.email = e, !.role = "member", !.pass = p])
    BY <1>4 DEF Create
  <2> DEFINE q == [Idle EXCEPT !.kind = "create", !.at = "ensure", !.org = o,
                               !.email = e, !.role = "member", !.pass = p]
  <2>2. /\ q \in Locals /\ q.kind = "create" /\ q.at = "ensure" /\ q.invite = None
        /\ q.org = o /\ q.email = e /\ q.role = "member"
    BY DEF TypeOK
  <2>3. Start(r, q)
    BY <2>1
  <2> HIDE DEF q
  <2> QED
    BY <2>2, <2>3 DEF TypeOK
<1>5. CASE Login(r)
  <2>1. PICK e \in Email :
          Start(r, [Idle EXCEPT !.kind = "login", !.at = "read", !.email = e, !.role = "admin"])
    BY <1>5 DEF Login
  <2> DEFINE q == [Idle EXCEPT !.kind = "login", !.at = "read", !.email = e, !.role = "admin"]
  <2>2. /\ q \in Locals /\ q.kind = "login" /\ q.at = "read" /\ q.invite = None
        /\ q.email = e /\ q.role = "admin"
    OBVIOUS
  <2>3. Start(r, q)
    BY <2>1
  <2> HIDE DEF q
  <2> QED
    BY <2>2, <2>3
<1>6. CASE Delete(r)
  <2>1. PICK e \in Email :
          Start(r, [Idle EXCEPT !.kind = "delete", !.at = "keys", !.email = e])
    BY <1>6 DEF Delete
  <2> DEFINE q == [Idle EXCEPT !.kind = "delete", !.at = "keys", !.email = e]
  <2>2. q \in Locals /\ q.kind = "delete" /\ q.at = "keys" /\ q.invite = None /\ q.email = e
    OBVIOUS
  <2>3. Start(r, q)
    BY <2>1
  <2> HIDE DEF q
  <2> QED
    BY <2>2, <2>3
<1> QED
  BY <1>2, <1>3, <1>4, <1>5, <1>6 DEF Begin

\* An invite's row in another state, and keys some of which are revoked.
LEMMA RowKeeps ==
    ASSUME TypeOK, NEW i \in Invite, invites[i] # None,
           NEW s \in {"open", "expired", "accepted", "deleted"},
           invites' = [invites EXCEPT ![i].state = s]
    PROVE  /\ invites' \in [Invite -> InviteRow \cup {None}]
           /\ \A j \in Invite :
                /\ invites'[j] = None <=> invites[j] = None
                /\ invites[j] # None =>
                     /\ invites'[j].org = invites[j].org /\ invites'[j].email = invites[j].email
                     /\ j # i => invites'[j].state = invites[j].state
                     /\ j = i => invites'[j].state = s
<1>1. None \notin InviteRow
  BY NoneIsNoRow
<1> DEFINE x == [invites[i] EXCEPT !.state = s]
<1>2. x \in InviteRow /\ x.org = invites[i].org /\ x.email = invites[i].email /\ x.state = s
  BY DEF TypeOK, InviteRow
<1>3. invites' = [invites EXCEPT ![i] = x]
  OBVIOUS
<1> HIDE DEF x
<1> QED
  BY <1>1, <1>2, <1>3 DEF TypeOK

LEMMA RevokedKeeps ==
    ASSUME TypeOK, NEW S, \A k \in S : keys[k] # None
    PROVE  /\ Revoked(S) \in [KeyId -> KeyRow \cup {None}]
           /\ \A k \in KeyId : LET l == Revoked(S)[k] IN
                /\ l = None <=> keys[k] = None
                /\ keys[k] # None =>
                     /\ l.org = keys[k].org /\ l.account = keys[k].account /\ l.by = keys[k].by
                     /\ l.invite = keys[k].invite /\ (l.live => keys[k].live)
<1>1. None \notin KeyRow
  BY NoneIsNoRow
<1>2. ASSUME NEW x \in KeyRow
      PROVE  LET l == [x EXCEPT !.live = FALSE] IN
             /\ l \in KeyRow /\ l.org = x.org /\ l.account = x.account /\ l.by = x.by
             /\ l.invite = x.invite /\ l.live = FALSE
  BY DEF KeyRow
<1> SUFFICES ASSUME NEW k \in KeyId
             PROVE  LET l == Revoked(S)[k] IN
                    /\ l \in KeyRow \cup {None}
                    /\ l = None <=> keys[k] = None
                    /\ keys[k] # None =>
                         /\ l.org = keys[k].org /\ l.account = keys[k].account
                         /\ l.by = keys[k].by /\ l.invite = keys[k].invite
                         /\ (l.live => keys[k].live)
  BY Zenon DEF Revoked
<1>3. Revoked(S)[k] = IF k \in S THEN [keys[k] EXCEPT !.live = FALSE] ELSE keys[k]
  BY DEF Revoked
<1>4. CASE k \in S /\ keys[k] # None
  BY <1>1, <1>2, <1>3, <1>4 DEF TypeOK
<1>5. CASE k \notin S
  BY <1>1, <1>3, <1>5 DEF TypeOK
<1> QED
  BY <1>4, <1>5

\* The invite is found.
LEMMA InviteLocals ==
    ASSUME TypeOK, LocalsOK, StageOK, NEW r \in Request, GetInviteByTokenHash(r), ~Done(r)
    PROVE  LET q == req'[r]  i == req[r].invite IN
           /\ i \in Invite /\ invites[i] # None
           /\ req' \in [Request -> Locals]
           /\ \A x \in Request \ {r} : req'[x] = req[x]
           /\ q.at = "account" /\ q.kind = "accept" /\ q.invite = i
           /\ q.org = invites[i].org /\ q.email = invites[i].email
           /\ q.org \in Org /\ q.email \in Email /\ q.role \in Role
<1>1. req[r].kind = "accept" /\ req[r].invite \in Invite /\ invites[req[r].invite] \in InviteRow
  BY LocalsFields DEF GetInviteByTokenHash, At, LocalsOK, StageOK, TypeOK
<1> DEFINE i == invites[req[r].invite]
           q == [req[r] EXCEPT !.at = "account", !.org = i.org, !.email = i.email,
                !.role = i.role]
<1>2. req' = [req EXCEPT ![r] = q]
  BY DEF GetInviteByTokenHash
<1>3. i.org \in Org /\ i.email \in Email /\ i.role \in Role
  BY <1>1 DEF InviteRow
<1>4. /\ q \in Locals /\ q.at = "account" /\ q.kind = "accept" /\ q.invite = req[r].invite
      /\ q.org = i.org /\ q.email = i.email /\ q.role = i.role
  BY <1>1, <1>3 DEF TypeOK, Locals, Statement
<1> HIDE DEF q, i
<1>5. req' \in [Request -> Locals] /\ req'[r] = q /\ \A x \in Request \ {r} : req'[x] = req[x]
  BY <1>2, <1>4 DEF TypeOK
<1> QED
  BY <1>1, <1>3, <1>4, <1>5, NoneIsNoRow DEF i

\* The account that logs in is found, with an organization.
LEMMA ReadLocals ==
    ASSUME TypeOK, LocalsOK, NEW r \in Request, ReadAccount(r), ~Done(r)
    PROVE  LET q == req'[r] IN
           /\ req' \in [Request -> Locals]
           /\ \A x \in Request \ {r} : req'[x] = req[x]
           /\ q.at = "revoke" /\ q.kind = "login" /\ q.invite = None
           /\ q.org \in Org /\ q.email = req[r].email /\ q.role = req[r].role
           /\ Joined(q.org, q.email)
<1>1. req[r].kind = "login" /\ req[r].invite = None
  BY LocalsFields DEF ReadAccount, At, LocalsOK
<1>2. PICK o \in Org : /\ Readable(req[r].email) /\ role[o][req[r].email] # None
                       /\ req' = [req EXCEPT ![r].at = "revoke", ![r].org = o]
  BY DEF ReadAccount
<1> DEFINE q == [req[r] EXCEPT !.at = "revoke", !.org = o]
<1>3. req' = [req EXCEPT ![r] = q]
  BY <1>2 DEF TypeOK, Locals
<1>4. /\ q \in Locals /\ q.at = "revoke" /\ q.kind = "login" /\ q.invite = None /\ q.org = o
      /\ q.email = req[r].email /\ q.role = req[r].role
  <2>1. req[r] \in Locals /\ o \in Org
    BY DEF TypeOK
  <2> QED
    BY <1>1, <2>1 DEF Locals, Statement
<1>5. Joined(o, req[r].email)
  BY <1>2 DEF Joined, Readable, Exists
<1> HIDE DEF q
<1> QED
  BY <1>3, <1>4, <1>5 DEF TypeOK

\* Every step keeps the types.
THEOREM TypeStep ==
    ASSUME AccountsInv, [Next]_vars
    PROVE  TypeOK'
<1> USE AccountsAssumption, IdleIsLocals DEF AccountsAssumption, AccountsInv, TypeOK, LocalsOK,
     Statement, Unfinished, tables, history, At, Fail
<1>1. ASSUME NEW r \in Request, Begin(r) PROVE TypeOK'
  BY <1>1, BeginLocals, LocalsFields DEF Begin
<1>2. ASSUME NEW r \in Request, CountOrganizations(r) PROVE TypeOK'
  BY <1>2, GotoKeeps, DoneEnds, LocalsFields DEF CountOrganizations
<1>3. ASSUME NEW r \in Request, GetAccountByEmail(r) PROVE TypeOK'
  BY <1>3, GotoKeeps, DoneEnds, LocalsFields DEF GetAccountByEmail
<1>4. ASSUME NEW r \in Request, CreateOrganization(r) PROVE TypeOK'
  BY <1>4, GotoKeeps, DoneEnds, LocalsFields DEF CreateOrganization
<1>5. ASSUME NEW r \in Request, GetInviteByTokenHash(r) PROVE TypeOK'
  BY <1>5, InviteLocals, DoneEnds, LocalsFields DEF GetInviteByTokenHash
<1>6. ASSUME NEW r \in Request, CreateAccount(r) PROVE TypeOK'
  <2>1. CASE Exists(req[r].email)
    BY <1>6, <2>1, DoneEnds, LocalsFields DEF CreateAccount
  <2>2. CASE ~Exists(req[r].email)
    BY <1>6, <2>2, GotoKeeps, LocalsFields DEF CreateAccount
  <2> QED
    BY <2>1, <2>2
<1>7. ASSUME NEW r \in Request, GetOrCreateAccountByEmail(r) PROVE TypeOK'
  BY <1>7, GotoKeeps, DoneEnds, LocalsFields DEF GetOrCreateAccountByEmail
<1>8. ASSUME NEW r \in Request, SetAccountPassword(r) PROVE TypeOK'
  BY <1>8, GotoKeeps, DoneEnds, LocalsFields DEF SetAccountPassword
<1>9. ASSUME NEW r \in Request, AddOrgMember(r) PROVE TypeOK'
  <2>1. req[r].org \in Org /\ req[r].email \in Email /\ req[r].role \in Role
    BY <1>9 DEF AddOrgMember
  <2> QED
    BY <1>9, <2>1, GotoKeeps DEF AddOrgMember
<1>10. ASSUME NEW r \in Request, EnsureDefaultTeamMembership(r) PROVE TypeOK'
  BY <1>10, GotoKeeps, DoneEnds, LocalsFields DEF EnsureDefaultTeamMembership
<1>11. ASSUME NEW r \in Request, ReadAccount(r) PROVE TypeOK'
  BY <1>11, ReadLocals, DoneEnds, LocalsFields DEF ReadAccount
<1>12. ASSUME NEW r \in Request, RevokeSessionKeys(r) PROVE TypeOK'
  <2>1. req[r].email \in Email
    BY <1>12 DEF RevokeSessionKeys
  <2>2. keys' \in [KeyId -> KeyRow \cup {None}]
    BY <1>12, RevokedKeeps DEF RevokeSessionKeys, IsSession
  <2>3. lapsed' \subseteq Email
    BY <1>12, <2>1 DEF RevokeSessionKeys
  <2> QED
    BY <1>12, <2>2, <2>3, GotoKeeps DEF RevokeSessionKeys
<1>13. ASSUME NEW r \in Request, CreateAPIKey(r) PROVE TypeOK'
  <2>1. req[r].org \in Org /\ req[r].email \in Email /\ req[r].role \in Role
    BY <1>13 DEF CreateAPIKey
  <2>2. keys' \in [KeyId -> KeyRow \cup {None}]
    BY <1>13, <2>1, LocalsFields DEF CreateAPIKey, KeyRow
  <2> QED
    BY <1>13, <2>2, GotoKeeps, DoneEnds DEF CreateAPIKey
<1>14. ASSUME NEW r \in Request, MarkInviteAccepted(r) PROVE TypeOK'
  <2>1. req[r].invite \in Invite /\ invites[req[r].invite] \in InviteRow
    BY <1>14, LocalsFields DEF MarkInviteAccepted, StageOK
  <2>2. invites' \in [Invite -> InviteRow \cup {None}]
    <3>1. CASE invites[req[r].invite].state = "deleted"
      BY <1>14, <3>1 DEF MarkInviteAccepted
    <3>2. CASE invites[req[r].invite].state # "deleted"
      BY <1>14, <2>1, <3>2, RowKeeps, NoneIsNoRow DEF MarkInviteAccepted
    <3> QED
      BY <3>1, <3>2
  <2> QED
    BY <1>14, <2>2, DoneEnds DEF MarkInviteAccepted
<1>15. ASSUME NEW r \in Request, RevokeAccountKeys(r) PROVE TypeOK'
  BY <1>15, GotoKeeps, DoneEnds, LocalsFields, RevokedKeeps DEF RevokeAccountKeys
<1>16. ASSUME NEW r \in Request, LeaveTeams(r) PROVE TypeOK'
  BY <1>16, GotoKeeps, DoneEnds, LocalsFields DEF LeaveTeams
<1>17. ASSUME NEW r \in Request, Cut(r) PROVE TypeOK'
  BY <1>17, GotoKeeps, DoneEnds, LocalsFields DEF Cut
<1>18. ASSUME Administer, CreateInvite PROVE TypeOK'
  BY <1>18, LocalsFields DEF Administer, CreateInvite, InviteRow
<1>19. ASSUME Administer, IssueAPIKey PROVE TypeOK'
  BY <1>19, LocalsFields DEF Administer, IssueAPIKey, KeyRow
<1>20. ASSUME Administer, UpdateAccount PROVE TypeOK'
  BY <1>20, LocalsFields DEF Administer, UpdateAccount
<1>21. ASSUME DeleteInvite PROVE TypeOK'
  BY <1>21, LocalsFields, RowKeeps DEF DeleteInvite
<1>22. ASSUME RevokeAPIKey PROVE TypeOK'
  BY <1>22, LocalsFields, RevokedKeeps DEF RevokeAPIKey
<1>23. ASSUME InviteExpires PROVE TypeOK'
  BY <1>23, LocalsFields, RowKeeps DEF InviteExpires
<1>24. CASE UNCHANGED vars
  BY <1>24 DEF vars
<1> QED
  BY <1>1, <1>2, <1>3, <1>4, <1>5, <1>6, <1>7, <1>8, <1>9, <1>10, <1>11, <1>12, <1>13, <1>14,
       <1>15, <1>16, <1>17, <1>18, <1>19, <1>20, <1>21, <1>22, <1>23, <1>24 DEF Next, Step,
            Administer

\* Every step leaves each handler with the locals of its next statement.
THEOREM LocalsStep ==
    ASSUME AccountsInv, [Next]_vars
    PROVE  LocalsOK'
<1> USE AccountsAssumption, IdleIsLocals DEF AccountsAssumption, AccountsInv, TypeOK, LocalsOK,
     Statement, Founders, tables, history, At, Fail
<1>1. ASSUME NEW r \in Request, Begin(r) PROVE LocalsOK'
  BY <1>1, BeginLocals, LocalsFields DEF Begin
<1>2. ASSUME NEW r \in Request, CountOrganizations(r) PROVE LocalsOK'
  BY <1>2, GotoKeeps, DoneEnds, LocalsFields DEF CountOrganizations
<1>3. ASSUME NEW r \in Request, GetAccountByEmail(r) PROVE LocalsOK'
  BY <1>3, GotoKeeps, DoneEnds, LocalsFields DEF GetAccountByEmail
<1>4. ASSUME NEW r \in Request, CreateOrganization(r) PROVE LocalsOK'
  BY <1>4, GotoKeeps, DoneEnds, LocalsFields DEF CreateOrganization
<1>5. ASSUME NEW r \in Request, GetInviteByTokenHash(r) PROVE LocalsOK'
  <2>1. CASE Done(r)
    BY <1>5, <2>1, DoneEnds, LocalsFields DEF GetInviteByTokenHash
  <2>2. CASE ~Done(r)
    <3>1. /\ \A x \in Request \ {r} : req'[x] = req[x]
          /\ req'[r].at = "account" /\ req'[r].kind = "accept" /\ req'[r].invite \in Invite
          /\ invites[req'[r].invite] # None
          /\ req'[r].org = invites[req'[r].invite].org /\ req'[r].email = invites[req'[r].invite].email
          /\ req'[r].org \in Org /\ req'[r].email \in Email /\ req'[r].role \in Role
      BY <1>5, <2>2, InviteLocals DEF StageOK
    <3> QED
      BY <1>5, <3>1, LocalsFields DEF GetInviteByTokenHash
  <2> QED
    BY <2>1, <2>2
<1>6. ASSUME NEW r \in Request, CreateAccount(r) PROVE LocalsOK'
  BY <1>6, GotoKeeps, DoneEnds, LocalsFields DEF CreateAccount
<1>7. ASSUME NEW r \in Request, GetOrCreateAccountByEmail(r) PROVE LocalsOK'
  BY <1>7, GotoKeeps, DoneEnds, LocalsFields DEF GetOrCreateAccountByEmail
<1>8. ASSUME NEW r \in Request, SetAccountPassword(r) PROVE LocalsOK'
  BY <1>8, GotoKeeps, DoneEnds, LocalsFields DEF SetAccountPassword
<1>9. ASSUME NEW r \in Request, AddOrgMember(r) PROVE LocalsOK'
  BY <1>9, GotoKeeps, DoneEnds, LocalsFields DEF AddOrgMember
<1>10. ASSUME NEW r \in Request, EnsureDefaultTeamMembership(r) PROVE LocalsOK'
  BY <1>10, GotoKeeps, DoneEnds, LocalsFields DEF EnsureDefaultTeamMembership
<1>11. ASSUME NEW r \in Request, ReadAccount(r) PROVE LocalsOK'
  BY <1>11, ReadLocals, DoneEnds, LocalsFields DEF ReadAccount
<1>12. ASSUME NEW r \in Request, RevokeSessionKeys(r) PROVE LocalsOK'
  BY <1>12, GotoKeeps, DoneEnds, LocalsFields DEF RevokeSessionKeys
<1>13. ASSUME NEW r \in Request, CreateAPIKey(r) PROVE LocalsOK'
  BY <1>13, GotoKeeps, DoneEnds, LocalsFields DEF CreateAPIKey
<1>14. ASSUME NEW r \in Request, MarkInviteAccepted(r) PROVE LocalsOK'
  BY <1>14, GotoKeeps, DoneEnds, LocalsFields DEF MarkInviteAccepted
<1>15. ASSUME NEW r \in Request, RevokeAccountKeys(r) PROVE LocalsOK'
  BY <1>15, GotoKeeps, DoneEnds, LocalsFields DEF RevokeAccountKeys
<1>16. ASSUME NEW r \in Request, LeaveTeams(r) PROVE LocalsOK'
  BY <1>16, GotoKeeps, DoneEnds, LocalsFields DEF LeaveTeams
<1>17. ASSUME NEW r \in Request, Cut(r) PROVE LocalsOK'
  BY <1>17, GotoKeeps, DoneEnds, LocalsFields DEF Cut
<1>18. ASSUME Administer, CreateInvite PROVE LocalsOK'
  BY <1>18, LocalsFields DEF Administer, CreateInvite
<1>19. ASSUME Administer, IssueAPIKey PROVE LocalsOK'
  BY <1>19, LocalsFields DEF Administer, IssueAPIKey
<1>20. ASSUME Administer, UpdateAccount PROVE LocalsOK'
  BY <1>20, LocalsFields DEF Administer, UpdateAccount
<1>21. ASSUME DeleteInvite PROVE LocalsOK'
  BY <1>21, LocalsFields DEF DeleteInvite
<1>22. ASSUME RevokeAPIKey PROVE LocalsOK'
  BY <1>22, LocalsFields DEF RevokeAPIKey
<1>23. ASSUME InviteExpires PROVE LocalsOK'
  BY <1>23, LocalsFields DEF InviteExpires
<1>24. CASE UNCHANGED vars
  BY <1>24 DEF vars
<1> QED
  BY <1>1, <1>2, <1>3, <1>4, <1>5, <1>6, <1>7, <1>8, <1>9, <1>10, <1>11, <1>12, <1>13, <1>14,
       <1>15, <1>16, <1>17, <1>18, <1>19, <1>20, <1>21, <1>22, <1>23, <1>24 DEF Next, Step,
            Administer

\* Every step leaves the tables as the next statements of the handlers need them.
THEOREM StageStep ==
    ASSUME AccountsInv, [Next]_vars
    PROVE  StageOK'
<1> USE AccountsAssumption, IdleIsLocals DEF AccountsAssumption, AccountsInv, TypeOK, LocalsOK,
     StageOK, Statement, Founders, Exists, Joined, Readable, tables, history, At, Fail
<1>1. ASSUME NEW r \in Request, Begin(r) PROVE StageOK'
  BY <1>1, BeginLocals, LocalsFields DEF Begin
<1>2. ASSUME NEW r \in Request, CountOrganizations(r) PROVE StageOK'
  BY <1>2, GotoKeeps, DoneEnds, LocalsFields DEF CountOrganizations
<1>3. ASSUME NEW r \in Request, GetAccountByEmail(r) PROVE StageOK'
  BY <1>3, GotoKeeps, DoneEnds, LocalsFields DEF GetAccountByEmail
<1>4. ASSUME NEW r \in Request, CreateOrganization(r) PROVE StageOK'
  BY <1>4, GotoKeeps, DoneEnds, LocalsFields DEF CreateOrganization
<1>5. ASSUME NEW r \in Request, GetInviteByTokenHash(r) PROVE StageOK'
  <2>1. CASE Done(r)
    BY <1>5, <2>1, DoneEnds, LocalsFields DEF GetInviteByTokenHash
  <2>2. CASE ~Done(r)
    <3>1. /\ \A x \in Request \ {r} : req'[x] = req[x]
          /\ req'[r].at = "account" /\ req'[r].kind = "accept" /\ req'[r].invite \in Invite
          /\ invites[req'[r].invite] # None
          /\ req'[r].org = invites[req'[r].invite].org /\ req'[r].email = invites[req'[r].invite].email
          /\ req'[r].org \in Org /\ req'[r].email \in Email /\ req'[r].role \in Role
      BY <1>5, <2>2, InviteLocals DEF StageOK
    <3> QED
      BY <1>5, <3>1, LocalsFields DEF GetInviteByTokenHash
  <2> QED
    BY <2>1, <2>2
<1>6. ASSUME NEW r \in Request, CreateAccount(r) PROVE StageOK'
  BY <1>6, GotoKeeps, DoneEnds, LocalsFields DEF CreateAccount
<1>7. ASSUME NEW r \in Request, GetOrCreateAccountByEmail(r) PROVE StageOK'
  BY <1>7, GotoKeeps, DoneEnds, LocalsFields DEF GetOrCreateAccountByEmail
<1>8. ASSUME NEW r \in Request, SetAccountPassword(r) PROVE StageOK'
  BY <1>8, GotoKeeps, DoneEnds, LocalsFields DEF SetAccountPassword
<1>9. ASSUME NEW r \in Request, AddOrgMember(r) PROVE StageOK'
  BY <1>9, GotoKeeps, DoneEnds, LocalsFields DEF AddOrgMember
<1>10. ASSUME NEW r \in Request, EnsureDefaultTeamMembership(r) PROVE StageOK'
  BY <1>10, GotoKeeps, DoneEnds, LocalsFields DEF EnsureDefaultTeamMembership
<1>11. ASSUME NEW r \in Request, ReadAccount(r) PROVE StageOK'
  BY <1>11, ReadLocals, DoneEnds, LocalsFields DEF ReadAccount
<1>12. ASSUME NEW r \in Request, RevokeSessionKeys(r) PROVE StageOK'
  BY <1>12, GotoKeeps, DoneEnds, LocalsFields DEF RevokeSessionKeys
<1>13. ASSUME NEW r \in Request, CreateAPIKey(r) PROVE StageOK'
  BY <1>13, GotoKeeps, DoneEnds, LocalsFields DEF CreateAPIKey
<1>14. ASSUME NEW r \in Request, MarkInviteAccepted(r) PROVE StageOK'
  <2>1. req[r].invite \in Invite /\ invites[req[r].invite] # None
    BY <1>14, LocalsFields DEF MarkInviteAccepted
  <2>2. \A j \in Invite :
          /\ invites'[j] = None <=> invites[j] = None
          /\ invites[j] # None =>
               invites'[j].org = invites[j].org /\ invites'[j].email = invites[j].email
    <3>1. CASE invites[req[r].invite].state = "deleted"
      BY <1>14, <3>1 DEF MarkInviteAccepted
    <3>2. CASE invites[req[r].invite].state # "deleted"
      <4>1. invites' = [invites EXCEPT ![req[r].invite].state = "accepted"]
        BY <1>14, <3>2 DEF MarkInviteAccepted
      <4> QED
        BY ONLY <2>1, <4>1, RowKeeps, TypeOK
    <3> QED
      BY <3>1, <3>2
  <2>3. role' = role /\ password' = password /\ Done(r)
    BY <1>14 DEF MarkInviteAccepted
  <2> QED
    BY <2>2, <2>3, DoneEnds, LocalsFields
<1>15. ASSUME NEW r \in Request, RevokeAccountKeys(r) PROVE StageOK'
  BY <1>15, GotoKeeps, DoneEnds, LocalsFields DEF RevokeAccountKeys
<1>16. ASSUME NEW r \in Request, LeaveTeams(r) PROVE StageOK'
  BY <1>16, GotoKeeps, DoneEnds, LocalsFields DEF LeaveTeams
<1>17. ASSUME NEW r \in Request, Cut(r) PROVE StageOK'
  BY <1>17, GotoKeeps, DoneEnds, LocalsFields DEF Cut
<1>18. ASSUME Administer, CreateInvite PROVE StageOK'
  BY <1>18, LocalsFields DEF Administer, CreateInvite
<1>19. ASSUME Administer, IssueAPIKey PROVE StageOK'
  BY <1>19, LocalsFields DEF Administer, IssueAPIKey
<1>20. ASSUME Administer, UpdateAccount PROVE StageOK'
  BY <1>20, LocalsFields DEF Administer, UpdateAccount
<1>21. ASSUME DeleteInvite PROVE StageOK'
  <2>1. PICK i \in Invite : /\ invites[i] # None
                            /\ invites' = [invites EXCEPT ![i].state = "deleted"]
    BY <1>21 DEF DeleteInvite
  <2>2. /\ invites' \in [Invite -> InviteRow \cup {None}]
        /\ \A j \in Invite :
             /\ invites'[j] = None <=> invites[j] = None
             /\ invites[j] # None =>
                  invites'[j].org = invites[j].org /\ invites'[j].email = invites[j].email
    BY ONLY <2>1, RowKeeps, TypeOK
  <2>3. req' = req /\ role' = role /\ password' = password
    BY <1>21 DEF DeleteInvite
  <2> QED
    BY <2>2, <2>3, LocalsFields
<1>22. ASSUME RevokeAPIKey PROVE StageOK'
  BY <1>22, LocalsFields DEF RevokeAPIKey
<1>23. ASSUME InviteExpires PROVE StageOK'
  <2>1. PICK i \in Invite : /\ invites[i] # None
                            /\ invites' = [invites EXCEPT ![i].state = "expired"]
    BY <1>23 DEF InviteExpires
  <2>2. /\ invites' \in [Invite -> InviteRow \cup {None}]
        /\ \A j \in Invite :
             /\ invites'[j] = None <=> invites[j] = None
             /\ invites[j] # None =>
                  invites'[j].org = invites[j].org /\ invites'[j].email = invites[j].email
    BY ONLY <2>1, RowKeeps, TypeOK
  <2>3. req' = req /\ role' = role /\ password' = password
    BY <1>23 DEF InviteExpires
  <2> QED
    BY <2>2, <2>3, LocalsFields
<1>24. CASE UNCHANGED vars
  BY <1>24 DEF vars
<1> QED
  BY <1>1, <1>2, <1>3, <1>4, <1>5, <1>6, <1>7, <1>8, <1>9, <1>10, <1>11, <1>12, <1>13, <1>14,
       <1>15, <1>16, <1>17, <1>18, <1>19, <1>20, <1>21, <1>22, <1>23, <1>24 DEF Next, Step,
            Administer

\* No account and no membership is ever taken away.
LEMMA RolesStay ==
    ASSUME AccountsInv, [Next]_vars
    PROVE  \A o \in Org, e \in Email :
               /\ role[o][e] # None => role'[o][e] # None
               /\ password[e] # "none" => password'[e] # "none"
<1> DEFINE Goal ==
      \A o \in Org, e \in Email :
          /\ role[o][e] # None => role'[o][e] # None
          /\ password[e] # "none" => password'[e] # "none"
<1> USE AccountsAssumption, IdleIsLocals DEF AccountsAssumption, AccountsInv, TypeOK, LocalsOK,
     Statement, Exists, tables, history, At, Fail
<1>1. ASSUME NEW r \in Request, Begin(r) PROVE Goal
  BY <1>1, BeginLocals, LocalsFields DEF Begin
<1>2. ASSUME NEW r \in Request, CountOrganizations(r) PROVE Goal
  BY <1>2, GotoKeeps, DoneEnds, LocalsFields DEF CountOrganizations
<1>3. ASSUME NEW r \in Request, GetAccountByEmail(r) PROVE Goal
  BY <1>3, GotoKeeps, DoneEnds, LocalsFields DEF GetAccountByEmail
<1>4. ASSUME NEW r \in Request, CreateOrganization(r) PROVE Goal
  BY <1>4, GotoKeeps, DoneEnds, LocalsFields DEF CreateOrganization
<1>5. ASSUME NEW r \in Request, GetInviteByTokenHash(r) PROVE Goal
  BY <1>5, InviteLocals, DoneEnds, LocalsFields DEF GetInviteByTokenHash
<1>6. ASSUME NEW r \in Request, CreateAccount(r) PROVE Goal
  BY <1>6, GotoKeeps, DoneEnds, LocalsFields DEF CreateAccount
<1>7. ASSUME NEW r \in Request, GetOrCreateAccountByEmail(r) PROVE Goal
  BY <1>7, GotoKeeps, DoneEnds, LocalsFields DEF GetOrCreateAccountByEmail
<1>8. ASSUME NEW r \in Request, SetAccountPassword(r) PROVE Goal
  BY <1>8, GotoKeeps, DoneEnds, LocalsFields DEF SetAccountPassword
<1>9. ASSUME NEW r \in Request, AddOrgMember(r) PROVE Goal
  BY <1>9, GotoKeeps, DoneEnds, LocalsFields DEF AddOrgMember
<1>10. ASSUME NEW r \in Request, EnsureDefaultTeamMembership(r) PROVE Goal
  BY <1>10, GotoKeeps, DoneEnds, LocalsFields DEF EnsureDefaultTeamMembership
<1>11. ASSUME NEW r \in Request, ReadAccount(r) PROVE Goal
  BY <1>11, ReadLocals, DoneEnds, LocalsFields DEF ReadAccount
<1>12. ASSUME NEW r \in Request, RevokeSessionKeys(r) PROVE Goal
  BY <1>12, GotoKeeps, DoneEnds, LocalsFields DEF RevokeSessionKeys
<1>13. ASSUME NEW r \in Request, CreateAPIKey(r) PROVE Goal
  BY <1>13, GotoKeeps, DoneEnds, LocalsFields DEF CreateAPIKey
<1>14. ASSUME NEW r \in Request, MarkInviteAccepted(r) PROVE Goal
  BY <1>14, GotoKeeps, DoneEnds, LocalsFields DEF MarkInviteAccepted
<1>15. ASSUME NEW r \in Request, RevokeAccountKeys(r) PROVE Goal
  BY <1>15, GotoKeeps, DoneEnds, LocalsFields DEF RevokeAccountKeys
<1>16. ASSUME NEW r \in Request, LeaveTeams(r) PROVE Goal
  BY <1>16, GotoKeeps, DoneEnds, LocalsFields DEF LeaveTeams
<1>17. ASSUME NEW r \in Request, Cut(r) PROVE Goal
  BY <1>17, GotoKeeps, DoneEnds, LocalsFields DEF Cut
<1>18. ASSUME Administer, CreateInvite PROVE Goal
  BY <1>18, LocalsFields DEF Administer, CreateInvite
<1>19. ASSUME Administer, IssueAPIKey PROVE Goal
  BY <1>19, LocalsFields DEF Administer, IssueAPIKey
<1>20. ASSUME Administer, UpdateAccount PROVE Goal
  BY <1>20, LocalsFields DEF Administer, UpdateAccount
<1>21. ASSUME DeleteInvite PROVE Goal
  BY <1>21, LocalsFields DEF DeleteInvite
<1>22. ASSUME RevokeAPIKey PROVE Goal
  BY <1>22, LocalsFields DEF RevokeAPIKey
<1>23. ASSUME InviteExpires PROVE Goal
  BY <1>23, LocalsFields DEF InviteExpires
<1>24. CASE UNCHANGED vars
  BY <1>24 DEF vars
<1> QED
  BY <1>1, <1>2, <1>3, <1>4, <1>5, <1>6, <1>7, <1>8, <1>9, <1>10, <1>11, <1>12, <1>13, <1>14,
       <1>15, <1>16, <1>17, <1>18, <1>19, <1>20, <1>21, <1>22, <1>23, <1>24 DEF Next, Step,
            Administer

\* What a step may do to a key: leave it or revoke it, issue it for an
\* organization an administrator of which asks, or make it for one who joins
\* or logs in.
Kept(k) ==
    /\ keys[k] # None
    /\ keys'[k].org = keys[k].org /\ keys'[k].account = keys[k].account
    /\ keys'[k].by = keys[k].by /\ keys'[k].invite = keys[k].invite
    /\ keys'[k].live => keys[k].live

Issued(k) ==
    /\ keys[k] = None
    /\ keys'[k].by = "admin" /\ keys'[k].invite = None /\ RequireAdmin(keys'[k].org)

Made(k, r) ==
    /\ keys[k] = None /\ req[r].at = "key"
    /\ keys'[k].org = req[r].org /\ keys'[k].account = req[r].email
    /\ keys'[k].invite = req[r].invite
    /\ keys'[k].by = IF req[r].kind = "login" THEN "session" ELSE "joining"
    /\ \A l \in KeyId \ {k} : keys'[l] = keys[l]
    /\ \A x \in Request \ {r} : req'[x] = req[x]
    /\ req'[r].at = IF req[r].kind = "accept" THEN "mark" ELSE "idle" 

\* Keys are kept, issued or made.
LEMMA KeysChange ==
    ASSUME AccountsInv, [Next]_vars
    PROVE  \A k \in KeyId : keys'[k] # None =>
               Kept(k) \/ Issued(k) \/ \E r \in Request : Made(k, r)
<1> DEFINE Goal ==
      \A k \in KeyId : keys'[k] # None =>
          Kept(k) \/ Issued(k) \/ \E r \in Request : Made(k, r)
<1> USE AccountsAssumption, IdleIsLocals DEF AccountsAssumption, AccountsInv, TypeOK, LocalsOK,
     Statement, Kept, tables, history, At, Fail
<1>1. ASSUME NEW r \in Request, Begin(r) PROVE Goal
  BY <1>1, BeginLocals, LocalsFields DEF Begin
<1>2. ASSUME NEW r \in Request, CountOrganizations(r) PROVE Goal
  BY <1>2, GotoKeeps, DoneEnds, LocalsFields DEF CountOrganizations
<1>3. ASSUME NEW r \in Request, GetAccountByEmail(r) PROVE Goal
  BY <1>3, GotoKeeps, DoneEnds, LocalsFields DEF GetAccountByEmail
<1>4. ASSUME NEW r \in Request, CreateOrganization(r) PROVE Goal
  BY <1>4, GotoKeeps, DoneEnds, LocalsFields DEF CreateOrganization
<1>5. ASSUME NEW r \in Request, GetInviteByTokenHash(r) PROVE Goal
  BY <1>5, InviteLocals, DoneEnds, LocalsFields DEF GetInviteByTokenHash
<1>6. ASSUME NEW r \in Request, CreateAccount(r) PROVE Goal
  BY <1>6, GotoKeeps, DoneEnds, LocalsFields DEF CreateAccount
<1>7. ASSUME NEW r \in Request, GetOrCreateAccountByEmail(r) PROVE Goal
  BY <1>7, GotoKeeps, DoneEnds, LocalsFields DEF GetOrCreateAccountByEmail
<1>8. ASSUME NEW r \in Request, SetAccountPassword(r) PROVE Goal
  BY <1>8, GotoKeeps, DoneEnds, LocalsFields DEF SetAccountPassword
<1>9. ASSUME NEW r \in Request, AddOrgMember(r) PROVE Goal
  BY <1>9, GotoKeeps, DoneEnds, LocalsFields DEF AddOrgMember
<1>10. ASSUME NEW r \in Request, EnsureDefaultTeamMembership(r) PROVE Goal
  BY <1>10, GotoKeeps, DoneEnds, LocalsFields DEF EnsureDefaultTeamMembership
<1>11. ASSUME NEW r \in Request, ReadAccount(r) PROVE Goal
  BY <1>11, ReadLocals, DoneEnds, LocalsFields DEF ReadAccount
<1>12. ASSUME NEW r \in Request, RevokeSessionKeys(r) PROVE Goal
  <2>1. CASE keys' = keys
    BY <2>1
  <2>2. CASE keys' = Revoked({k \in KeyId : IsSession(k, req[r].email)})
    BY <2>2, RevokedKeeps DEF IsSession
  <2> QED
    BY <1>12, <2>1, <2>2 DEF RevokeSessionKeys
<1>13. ASSUME NEW r \in Request, CreateAPIKey(r) PROVE Goal
  BY <1>13, GotoKeeps, DoneEnds, LocalsFields DEF CreateAPIKey, Made
<1>14. ASSUME NEW r \in Request, MarkInviteAccepted(r) PROVE Goal
  BY <1>14, GotoKeeps, DoneEnds, LocalsFields DEF MarkInviteAccepted
<1>15. ASSUME NEW r \in Request, RevokeAccountKeys(r) PROVE Goal
  <2>1. keys' = Revoked({k \in KeyId : keys[k] # None /\ keys[k].account = req[r].email})
    BY <1>15 DEF RevokeAccountKeys
  <2> QED
    BY <2>1, RevokedKeeps
<1>16. ASSUME NEW r \in Request, LeaveTeams(r) PROVE Goal
  BY <1>16, GotoKeeps, DoneEnds, LocalsFields DEF LeaveTeams
<1>17. ASSUME NEW r \in Request, Cut(r) PROVE Goal
  BY <1>17, GotoKeeps, DoneEnds, LocalsFields DEF Cut
<1>18. ASSUME Administer, CreateInvite PROVE Goal
  BY <1>18, LocalsFields DEF Administer, CreateInvite
<1>19. ASSUME Administer, IssueAPIKey PROVE Goal
  BY <1>19, LocalsFields DEF Administer, IssueAPIKey, Issued
<1>20. ASSUME Administer, UpdateAccount PROVE Goal
  BY <1>20, LocalsFields DEF Administer, UpdateAccount
<1>21. ASSUME DeleteInvite PROVE Goal
  BY <1>21, LocalsFields DEF DeleteInvite
<1>22. ASSUME RevokeAPIKey PROVE Goal
  <2>1. PICK k \in KeyId : keys[k] # None /\ keys' = Revoked({k})
    BY <1>22 DEF RevokeAPIKey
  <2> QED
    BY <2>1, RevokedKeeps
<1>23. ASSUME InviteExpires PROVE Goal
  BY <1>23, LocalsFields DEF InviteExpires
<1>24. CASE UNCHANGED vars
  BY <1>24 DEF vars
<1> QED
  BY <1>1, <1>2, <1>3, <1>4, <1>5, <1>6, <1>7, <1>8, <1>9, <1>10, <1>11, <1>12, <1>13, <1>14,
       <1>15, <1>16, <1>17, <1>18, <1>19, <1>20, <1>21, <1>22, <1>23, <1>24 DEF Next, Step,
            Administer

\* An invite is kept, and marked only by the handler that is at it; or it is made for an
\* organization an administrator of which asks.
LEMMA InvitesChange ==
    ASSUME AccountsInv, [Next]_vars
    PROVE  \A i \in Invite :
               /\ invites[i] # None => invites'[i] # None
               /\ invites'[i] # None =>
                    \/ /\ invites[i] # None
                       /\ invites'[i].org = invites[i].org /\ invites'[i].email = invites[i].email
                       /\ invites'[i].state = "accepted" =>
                            \/ invites[i].state = "accepted"
                            \/ \E r \in Request : req[r].at = "mark" /\ req[r].invite = i
                    \/ /\ invites[i] = None /\ RequireAdmin(invites'[i].org)
                       /\ invites'[i].state = "open"
<1> DEFINE Goal ==
      \A i \in Invite :
          /\ invites[i] # None => invites'[i] # None
          /\ invites'[i] # None =>
               \/ /\ invites[i] # None
                  /\ invites'[i].org = invites[i].org /\ invites'[i].email = invites[i].email
                  /\ invites'[i].state = "accepted" =>
                       \/ invites[i].state = "accepted"
                       \/ \E r \in Request : req[r].at = "mark" /\ req[r].invite = i
               \/ /\ invites[i] = None /\ RequireAdmin(invites'[i].org)
                  /\ invites'[i].state = "open"
<1> USE AccountsAssumption, IdleIsLocals DEF AccountsAssumption, AccountsInv, TypeOK, LocalsOK,
     StageOK, Statement, tables, history, At, Fail
<1>1. ASSUME NEW r \in Request, Begin(r) PROVE Goal
  BY <1>1, BeginLocals, LocalsFields DEF Begin
<1>2. ASSUME NEW r \in Request, CountOrganizations(r) PROVE Goal
  BY <1>2, GotoKeeps, DoneEnds, LocalsFields DEF CountOrganizations
<1>3. ASSUME NEW r \in Request, GetAccountByEmail(r) PROVE Goal
  BY <1>3, GotoKeeps, DoneEnds, LocalsFields DEF GetAccountByEmail
<1>4. ASSUME NEW r \in Request, CreateOrganization(r) PROVE Goal
  BY <1>4, GotoKeeps, DoneEnds, LocalsFields DEF CreateOrganization
<1>5. ASSUME NEW r \in Request, GetInviteByTokenHash(r) PROVE Goal
  BY <1>5, InviteLocals, DoneEnds, LocalsFields DEF GetInviteByTokenHash
<1>6. ASSUME NEW r \in Request, CreateAccount(r) PROVE Goal
  BY <1>6, GotoKeeps, DoneEnds, LocalsFields DEF CreateAccount
<1>7. ASSUME NEW r \in Request, GetOrCreateAccountByEmail(r) PROVE Goal
  BY <1>7, GotoKeeps, DoneEnds, LocalsFields DEF GetOrCreateAccountByEmail
<1>8. ASSUME NEW r \in Request, SetAccountPassword(r) PROVE Goal
  BY <1>8, GotoKeeps, DoneEnds, LocalsFields DEF SetAccountPassword
<1>9. ASSUME NEW r \in Request, AddOrgMember(r) PROVE Goal
  BY <1>9, GotoKeeps, DoneEnds, LocalsFields DEF AddOrgMember
<1>10. ASSUME NEW r \in Request, EnsureDefaultTeamMembership(r) PROVE Goal
  BY <1>10, GotoKeeps, DoneEnds, LocalsFields DEF EnsureDefaultTeamMembership
<1>11. ASSUME NEW r \in Request, ReadAccount(r) PROVE Goal
  BY <1>11, ReadLocals, DoneEnds, LocalsFields DEF ReadAccount
<1>12. ASSUME NEW r \in Request, RevokeSessionKeys(r) PROVE Goal
  BY <1>12, GotoKeeps, DoneEnds, LocalsFields DEF RevokeSessionKeys
<1>13. ASSUME NEW r \in Request, CreateAPIKey(r) PROVE Goal
  BY <1>13, GotoKeeps, DoneEnds, LocalsFields DEF CreateAPIKey
<1>14. ASSUME NEW r \in Request, MarkInviteAccepted(r) PROVE Goal
  <2>1. req[r].invite \in Invite /\ invites[req[r].invite] # None /\ req[r].at = "mark"
    BY <1>14, LocalsFields DEF MarkInviteAccepted
  <2>2. \A j \in Invite :
          /\ invites'[j] = None <=> invites[j] = None
          /\ invites[j] # None =>
               /\ invites'[j].org = invites[j].org /\ invites'[j].email = invites[j].email
               /\ j # req[r].invite => invites'[j].state = invites[j].state
    <3>1. CASE invites[req[r].invite].state = "deleted"
      BY <1>14, <3>1 DEF MarkInviteAccepted
    <3>2. CASE invites[req[r].invite].state # "deleted"
      <4>1. invites' = [invites EXCEPT ![req[r].invite].state = "accepted"]
        BY <1>14, <3>2 DEF MarkInviteAccepted
      <4> QED
        BY ONLY <2>1, <4>1, RowKeeps, TypeOK
    <3> QED
      BY <3>1, <3>2
  <2> QED
    BY <2>1, <2>2
<1>15. ASSUME NEW r \in Request, RevokeAccountKeys(r) PROVE Goal
  BY <1>15, GotoKeeps, DoneEnds, LocalsFields DEF RevokeAccountKeys
<1>16. ASSUME NEW r \in Request, LeaveTeams(r) PROVE Goal
  BY <1>16, GotoKeeps, DoneEnds, LocalsFields DEF LeaveTeams
<1>17. ASSUME NEW r \in Request, Cut(r) PROVE Goal
  BY <1>17, GotoKeeps, DoneEnds, LocalsFields DEF Cut
<1>18. ASSUME Administer, CreateInvite PROVE Goal
  BY <1>18, LocalsFields DEF Administer, CreateInvite
<1>19. ASSUME Administer, IssueAPIKey PROVE Goal
  BY <1>19, LocalsFields DEF Administer, IssueAPIKey
<1>20. ASSUME Administer, UpdateAccount PROVE Goal
  BY <1>20, LocalsFields DEF Administer, UpdateAccount
<1>21. ASSUME DeleteInvite PROVE Goal
  <2>1. PICK i \in Invite : /\ invites[i] # None
                            /\ invites' = [invites EXCEPT ![i].state = "deleted"]
    BY <1>21 DEF DeleteInvite
  <2>2. \A j \in Invite :
          /\ invites'[j] = None <=> invites[j] = None
          /\ invites[j] # None =>
               /\ invites'[j].org = invites[j].org /\ invites'[j].email = invites[j].email
               /\ invites'[j].state # "accepted" \/ invites'[j].state = invites[j].state
    BY ONLY <2>1, RowKeeps, TypeOK
  <2> QED
    BY <2>2
<1>22. ASSUME RevokeAPIKey PROVE Goal
  BY <1>22, LocalsFields DEF RevokeAPIKey
<1>23. ASSUME InviteExpires PROVE Goal
  <2>1. PICK i \in Invite : /\ invites[i] # None
                            /\ invites' = [invites EXCEPT ![i].state = "expired"]
    BY <1>23 DEF InviteExpires
  <2>2. \A j \in Invite :
          /\ invites'[j] = None <=> invites[j] = None
          /\ invites[j] # None =>
               /\ invites'[j].org = invites[j].org /\ invites'[j].email = invites[j].email
               /\ invites'[j].state # "accepted" \/ invites'[j].state = invites[j].state
    BY ONLY <2>1, RowKeeps, TypeOK
  <2> QED
    BY <2>2
<1>24. CASE UNCHANGED vars
  BY <1>24 DEF vars
<1> QED
  BY <1>1, <1>2, <1>3, <1>4, <1>5, <1>6, <1>7, <1>8, <1>9, <1>10, <1>11, <1>12, <1>13, <1>14,
       <1>15, <1>16, <1>17, <1>18, <1>19, <1>20, <1>21, <1>22, <1>23, <1>24 DEF Next, Step,
            Administer

\* A handler takes an invite by creating its account, alone.
LEMMA TakingChange ==
    ASSUME AccountsInv, [Next]_vars
    PROVE  \A i \in Invite, r \in Request : Taking(r, i)' =>
               \/ Taking(r, i) /\ (req[r].at = "mark" => req'[r].at = "mark")
               \/ /\ req[r].at = "account" /\ req[r].kind = "accept" /\ req[r].invite = i
                  /\ ~Exists(req[r].email)
                  /\ \A x \in Request \ {r} : req'[x] = req[x]
                  /\ keys' = keys
<1> DEFINE Goal ==
      \A i \in Invite, r \in Request : Taking(r, i)' =>
          \/ Taking(r, i) /\ (req[r].at = "mark" => req'[r].at = "mark")
          \/ /\ req[r].at = "account" /\ req[r].kind = "accept" /\ req[r].invite = i
             /\ ~Exists(req[r].email)
             /\ \A x \in Request \ {r} : req'[x] = req[x]
             /\ keys' = keys
<1> USE AccountsAssumption, IdleIsLocals DEF AccountsAssumption, AccountsInv, TypeOK, LocalsOK,
     Statement, Taking, tables, history, At, Fail
<1>1. ASSUME NEW r \in Request, Begin(r) PROVE Goal
  BY <1>1, BeginLocals, LocalsFields DEF Begin
<1>2. ASSUME NEW r \in Request, CountOrganizations(r) PROVE Goal
  BY <1>2, GotoKeeps, DoneEnds, LocalsFields DEF CountOrganizations
<1>3. ASSUME NEW r \in Request, GetAccountByEmail(r) PROVE Goal
  BY <1>3, GotoKeeps, DoneEnds, LocalsFields DEF GetAccountByEmail
<1>4. ASSUME NEW r \in Request, CreateOrganization(r) PROVE Goal
  BY <1>4, GotoKeeps, DoneEnds, LocalsFields DEF CreateOrganization
<1>5. ASSUME NEW r \in Request, GetInviteByTokenHash(r) PROVE Goal
  <2>1. CASE Done(r)
    BY <1>5, <2>1, DoneEnds, LocalsFields DEF GetInviteByTokenHash
  <2>2. CASE ~Done(r)
    <3>1. /\ \A x \in Request \ {r} : req'[x] = req[x]
          /\ req'[r].at = "account" /\ req[r].at = "invite"
      BY <1>5, <2>2, InviteLocals DEF GetInviteByTokenHash
    <3> QED
      BY <1>5, <3>1, LocalsFields DEF GetInviteByTokenHash
  <2> QED
    BY <2>1, <2>2
<1>6. ASSUME NEW r \in Request, CreateAccount(r) PROVE Goal
  BY <1>6, GotoKeeps, DoneEnds, LocalsFields DEF CreateAccount
<1>7. ASSUME NEW r \in Request, GetOrCreateAccountByEmail(r) PROVE Goal
  BY <1>7, GotoKeeps, DoneEnds, LocalsFields DEF GetOrCreateAccountByEmail
<1>8. ASSUME NEW r \in Request, SetAccountPassword(r) PROVE Goal
  BY <1>8, GotoKeeps, DoneEnds, LocalsFields DEF SetAccountPassword
<1>9. ASSUME NEW r \in Request, AddOrgMember(r) PROVE Goal
  BY <1>9, GotoKeeps, DoneEnds, LocalsFields DEF AddOrgMember
<1>10. ASSUME NEW r \in Request, EnsureDefaultTeamMembership(r) PROVE Goal
  BY <1>10, GotoKeeps, DoneEnds, LocalsFields DEF EnsureDefaultTeamMembership
<1>11. ASSUME NEW r \in Request, ReadAccount(r) PROVE Goal
  BY <1>11, ReadLocals, DoneEnds, LocalsFields DEF ReadAccount
<1>12. ASSUME NEW r \in Request, RevokeSessionKeys(r) PROVE Goal
  BY <1>12, GotoKeeps, DoneEnds, LocalsFields DEF RevokeSessionKeys
<1>13. ASSUME NEW r \in Request, CreateAPIKey(r) PROVE Goal
  BY <1>13, GotoKeeps, DoneEnds, LocalsFields DEF CreateAPIKey
<1>14. ASSUME NEW r \in Request, MarkInviteAccepted(r) PROVE Goal
  BY <1>14, GotoKeeps, DoneEnds, LocalsFields DEF MarkInviteAccepted
<1>15. ASSUME NEW r \in Request, RevokeAccountKeys(r) PROVE Goal
  BY <1>15, GotoKeeps, DoneEnds, LocalsFields DEF RevokeAccountKeys
<1>16. ASSUME NEW r \in Request, LeaveTeams(r) PROVE Goal
  BY <1>16, GotoKeeps, DoneEnds, LocalsFields DEF LeaveTeams
<1>17. ASSUME NEW r \in Request, Cut(r) PROVE Goal
  BY <1>17, GotoKeeps, DoneEnds, LocalsFields DEF Cut
<1>18. ASSUME Administer, CreateInvite PROVE Goal
  BY <1>18, LocalsFields DEF Administer, CreateInvite
<1>19. ASSUME Administer, IssueAPIKey PROVE Goal
  BY <1>19, LocalsFields DEF Administer, IssueAPIKey
<1>20. ASSUME Administer, UpdateAccount PROVE Goal
  BY <1>20, LocalsFields DEF Administer, UpdateAccount
<1>21. ASSUME DeleteInvite PROVE Goal
  BY <1>21, LocalsFields DEF DeleteInvite
<1>22. ASSUME RevokeAPIKey PROVE Goal
  BY <1>22, LocalsFields DEF RevokeAPIKey
<1>23. ASSUME InviteExpires PROVE Goal
  BY <1>23, LocalsFields DEF InviteExpires
<1>24. CASE UNCHANGED vars
  BY <1>24 DEF vars
<1> QED
  BY <1>1, <1>2, <1>3, <1>4, <1>5, <1>6, <1>7, <1>8, <1>9, <1>10, <1>11, <1>12, <1>13, <1>14,
       <1>15, <1>16, <1>17, <1>18, <1>19, <1>20, <1>21, <1>22, <1>23, <1>24 DEF Next, Step,
            Administer

\* An account or an organization that appears is in the hands of a handler.
LEMMA NewChange ==
    ASSUME AccountsInv, [Next]_vars
    PROVE  /\ cut \subseteq cut'
           /\ \A e \in Email : password'[e] # "none" =>
                \/ password[e] # "none"
                \/ \E r \in Request : req'[r].email = e /\ req'[r].at \in {"password", "member"}
           /\ \A o \in orgs' :
                o \in orgs \/ \E r \in Request : req'[r].org = o /\ req'[r].at = "account"
<1> DEFINE Goal ==
      /\ cut \subseteq cut'
      /\ \A e \in Email : password'[e] # "none" =>
           \/ password[e] # "none"
           \/ \E r \in Request : req'[r].email = e /\ req'[r].at \in {"password", "member"}
      /\ \A o \in orgs' :
           o \in orgs \/ \E r \in Request : req'[r].org = o /\ req'[r].at = "account"
<1> USE AccountsAssumption, IdleIsLocals DEF AccountsAssumption, AccountsInv, TypeOK, LocalsOK,
     StageOK, Statement, Founders, Unfinished, Exists, tables, history, At, Fail
<1>1. ASSUME NEW r \in Request, Begin(r) PROVE Goal
  BY <1>1, BeginLocals, LocalsFields DEF Begin
<1>2. ASSUME NEW r \in Request, CountOrganizations(r) PROVE Goal
  BY <1>2, GotoKeeps, DoneEnds, LocalsFields DEF CountOrganizations
<1>3. ASSUME NEW r \in Request, GetAccountByEmail(r) PROVE Goal
  BY <1>3, GotoKeeps, DoneEnds, LocalsFields DEF GetAccountByEmail
<1>4. ASSUME NEW r \in Request, CreateOrganization(r) PROVE Goal
  BY <1>4, GotoKeeps, DoneEnds, LocalsFields DEF CreateOrganization
<1>5. ASSUME NEW r \in Request, GetInviteByTokenHash(r) PROVE Goal
  <2>1. CASE Done(r)
    BY <1>5, <2>1, DoneEnds, LocalsFields DEF GetInviteByTokenHash
  <2>2. CASE ~Done(r)
    <3>1. /\ \A x \in Request \ {r} : req'[x] = req[x]
          /\ req'[r].at = "account" /\ req[r].at = "invite"
      BY <1>5, <2>2, InviteLocals DEF GetInviteByTokenHash
    <3> QED
      BY <1>5, <3>1, LocalsFields DEF GetInviteByTokenHash
  <2> QED
    BY <2>1, <2>2
<1>6. ASSUME NEW r \in Request, CreateAccount(r) PROVE Goal
  BY <1>6, GotoKeeps, DoneEnds, LocalsFields DEF CreateAccount
<1>7. ASSUME NEW r \in Request, GetOrCreateAccountByEmail(r) PROVE Goal
  BY <1>7, GotoKeeps, DoneEnds, LocalsFields DEF GetOrCreateAccountByEmail
<1>8. ASSUME NEW r \in Request, SetAccountPassword(r) PROVE Goal
  BY <1>8, GotoKeeps, DoneEnds, LocalsFields DEF SetAccountPassword
<1>9. ASSUME NEW r \in Request, AddOrgMember(r) PROVE Goal
  BY <1>9, GotoKeeps, DoneEnds, LocalsFields DEF AddOrgMember
<1>10. ASSUME NEW r \in Request, EnsureDefaultTeamMembership(r) PROVE Goal
  BY <1>10, GotoKeeps, DoneEnds, LocalsFields DEF EnsureDefaultTeamMembership
<1>11. ASSUME NEW r \in Request, ReadAccount(r) PROVE Goal
  BY <1>11, ReadLocals, DoneEnds, LocalsFields DEF ReadAccount
<1>12. ASSUME NEW r \in Request, RevokeSessionKeys(r) PROVE Goal
  BY <1>12, GotoKeeps, DoneEnds, LocalsFields DEF RevokeSessionKeys
<1>13. ASSUME NEW r \in Request, CreateAPIKey(r) PROVE Goal
  BY <1>13, GotoKeeps, DoneEnds, LocalsFields DEF CreateAPIKey
<1>14. ASSUME NEW r \in Request, MarkInviteAccepted(r) PROVE Goal
  BY <1>14, GotoKeeps, DoneEnds, LocalsFields DEF MarkInviteAccepted
<1>15. ASSUME NEW r \in Request, RevokeAccountKeys(r) PROVE Goal
  BY <1>15, GotoKeeps, DoneEnds, LocalsFields DEF RevokeAccountKeys
<1>16. ASSUME NEW r \in Request, LeaveTeams(r) PROVE Goal
  BY <1>16, GotoKeeps, DoneEnds, LocalsFields DEF LeaveTeams
<1>17. ASSUME NEW r \in Request, Cut(r) PROVE Goal
  BY <1>17, GotoKeeps, DoneEnds, LocalsFields DEF Cut
<1>18. ASSUME Administer, CreateInvite PROVE Goal
  BY <1>18, LocalsFields DEF Administer, CreateInvite
<1>19. ASSUME Administer, IssueAPIKey PROVE Goal
  BY <1>19, LocalsFields DEF Administer, IssueAPIKey
<1>20. ASSUME Administer, UpdateAccount PROVE Goal
  BY <1>20, LocalsFields DEF Administer, UpdateAccount
<1>21. ASSUME DeleteInvite PROVE Goal
  BY <1>21, LocalsFields DEF DeleteInvite
<1>22. ASSUME RevokeAPIKey PROVE Goal
  BY <1>22, LocalsFields DEF RevokeAPIKey
<1>23. ASSUME InviteExpires PROVE Goal
  BY <1>23, LocalsFields DEF InviteExpires
<1>24. CASE UNCHANGED vars
  BY <1>24 DEF vars
<1> QED
  BY <1>1, <1>2, <1>3, <1>4, <1>5, <1>6, <1>7, <1>8, <1>9, <1>10, <1>11, <1>12, <1>13, <1>14,
       <1>15, <1>16, <1>17, <1>18, <1>19, <1>20, <1>21, <1>22, <1>23, <1>24 DEF Next, Step,
            Administer

\* A handler that has created an account makes it a member or is cut off.
LEMMA AccountPassedOn ==
    ASSUME AccountsInv, [Next]_vars
    PROVE  \A r \in Request : req[r].at \in {"password", "member"} =>
               \/ req'[r].email = req[r].email /\ req'[r].at \in {"password", "member"}
               \/ req[r].email \in cut'
               \/ \E o \in Org : role'[o][req[r].email] # None
<1> DEFINE Goal ==
      \A r \in Request : req[r].at \in {"password", "member"} =>
          \/ req'[r].email = req[r].email /\ req'[r].at \in {"password", "member"}
          \/ req[r].email \in cut'
          \/ \E o \in Org : role'[o][req[r].email] # None
<1> USE AccountsAssumption, IdleIsLocals DEF AccountsAssumption, AccountsInv, TypeOK, LocalsOK,
     StageOK, Statement, Founders, Unfinished, Exists, tables, history, At, Fail
<1>1. ASSUME NEW r \in Request, Begin(r) PROVE Goal
  BY <1>1, BeginLocals, LocalsFields DEF Begin
<1>2. ASSUME NEW r \in Request, CountOrganizations(r) PROVE Goal
  BY <1>2, GotoKeeps, DoneEnds, LocalsFields DEF CountOrganizations
<1>3. ASSUME NEW r \in Request, GetAccountByEmail(r) PROVE Goal
  BY <1>3, GotoKeeps, DoneEnds, LocalsFields DEF GetAccountByEmail
<1>4. ASSUME NEW r \in Request, CreateOrganization(r) PROVE Goal
  BY <1>4, GotoKeeps, DoneEnds, LocalsFields DEF CreateOrganization
<1>5. ASSUME NEW r \in Request, GetInviteByTokenHash(r) PROVE Goal
  <2>1. CASE Done(r)
    BY <1>5, <2>1, DoneEnds, LocalsFields DEF GetInviteByTokenHash
  <2>2. CASE ~Done(r)
    <3>1. /\ \A x \in Request \ {r} : req'[x] = req[x]
          /\ req'[r].at = "account" /\ req[r].at = "invite"
      BY <1>5, <2>2, InviteLocals DEF GetInviteByTokenHash
    <3> QED
      BY <1>5, <3>1, LocalsFields DEF GetInviteByTokenHash
  <2> QED
    BY <2>1, <2>2
<1>6. ASSUME NEW r \in Request, CreateAccount(r) PROVE Goal
  BY <1>6, GotoKeeps, DoneEnds, LocalsFields DEF CreateAccount
<1>7. ASSUME NEW r \in Request, GetOrCreateAccountByEmail(r) PROVE Goal
  BY <1>7, GotoKeeps, DoneEnds, LocalsFields DEF GetOrCreateAccountByEmail
<1>8. ASSUME NEW r \in Request, SetAccountPassword(r) PROVE Goal
  BY <1>8, GotoKeeps, DoneEnds, LocalsFields DEF SetAccountPassword
<1>9. ASSUME NEW r \in Request, AddOrgMember(r) PROVE Goal
  BY <1>9, GotoKeeps, DoneEnds, LocalsFields DEF AddOrgMember
<1>10. ASSUME NEW r \in Request, EnsureDefaultTeamMembership(r) PROVE Goal
  BY <1>10, GotoKeeps, DoneEnds, LocalsFields DEF EnsureDefaultTeamMembership
<1>11. ASSUME NEW r \in Request, ReadAccount(r) PROVE Goal
  BY <1>11, ReadLocals, DoneEnds, LocalsFields DEF ReadAccount
<1>12. ASSUME NEW r \in Request, RevokeSessionKeys(r) PROVE Goal
  BY <1>12, GotoKeeps, DoneEnds, LocalsFields DEF RevokeSessionKeys
<1>13. ASSUME NEW r \in Request, CreateAPIKey(r) PROVE Goal
  <2>1. /\ \A x \in Request \ {r} : req'[x] = req[x]
        /\ req[r].at = "key"
    BY <1>13, GotoKeeps, DoneEnds DEF CreateAPIKey
  <2> QED
    BY <2>1
<1>14. ASSUME NEW r \in Request, MarkInviteAccepted(r) PROVE Goal
  BY <1>14, GotoKeeps, DoneEnds, LocalsFields DEF MarkInviteAccepted
<1>15. ASSUME NEW r \in Request, RevokeAccountKeys(r) PROVE Goal
  BY <1>15, GotoKeeps, DoneEnds, LocalsFields DEF RevokeAccountKeys
<1>16. ASSUME NEW r \in Request, LeaveTeams(r) PROVE Goal
  BY <1>16, GotoKeeps, DoneEnds, LocalsFields DEF LeaveTeams
<1>17. ASSUME NEW r \in Request, Cut(r) PROVE Goal
  BY <1>17, GotoKeeps, DoneEnds, LocalsFields DEF Cut
<1>18. ASSUME Administer, CreateInvite PROVE Goal
  BY <1>18, LocalsFields DEF Administer, CreateInvite
<1>19. ASSUME Administer, IssueAPIKey PROVE Goal
  BY <1>19, LocalsFields DEF Administer, IssueAPIKey
<1>20. ASSUME Administer, UpdateAccount PROVE Goal
  BY <1>20, LocalsFields DEF Administer, UpdateAccount
<1>21. ASSUME DeleteInvite PROVE Goal
  BY <1>21, LocalsFields DEF DeleteInvite
<1>22. ASSUME RevokeAPIKey PROVE Goal
  BY <1>22, LocalsFields DEF RevokeAPIKey
<1>23. ASSUME InviteExpires PROVE Goal
  BY <1>23, LocalsFields DEF InviteExpires
<1>24. CASE UNCHANGED vars
  BY <1>24 DEF vars
<1> QED
  BY <1>1, <1>2, <1>3, <1>4, <1>5, <1>6, <1>7, <1>8, <1>9, <1>10, <1>11, <1>12, <1>13, <1>14,
       <1>15, <1>16, <1>17, <1>18, <1>19, <1>20, <1>21, <1>22, <1>23, <1>24 DEF Next, Step,
            Administer

\* A handler that has created an organization gives it a member or is cut off.
LEMMA OrganizationPassedOn ==
    ASSUME AccountsInv, [Next]_vars
    PROVE  \A r \in Request : req[r].at \in {"account", "member"} =>
               \/ req'[r].org = req[r].org /\ req'[r].at \in {"account", "member"}
               \/ req[r].org \in cut'
               \/ \E e \in Email : role'[req[r].org][e] # None
<1> DEFINE Goal ==
      \A r \in Request : req[r].at \in {"account", "member"} =>
          \/ req'[r].org = req[r].org /\ req'[r].at \in {"account", "member"}
          \/ req[r].org \in cut'
          \/ \E e \in Email : role'[req[r].org][e] # None
<1> USE AccountsAssumption, IdleIsLocals DEF AccountsAssumption, AccountsInv, TypeOK, LocalsOK,
     StageOK, Statement, Founders, Unfinished, Exists, tables, history, At, Fail
<1>1. ASSUME NEW r \in Request, Begin(r) PROVE Goal
  BY <1>1, BeginLocals, LocalsFields DEF Begin
<1>2. ASSUME NEW r \in Request, CountOrganizations(r) PROVE Goal
  <2>1. /\ \A x \in Request \ {r} : req'[x] = req[x]
        /\ req[r].at = "count"
    BY <1>2, GotoKeeps, DoneEnds DEF CountOrganizations
  <2> QED
    BY <2>1
<1>3. ASSUME NEW r \in Request, GetAccountByEmail(r) PROVE Goal
  <2>1. /\ \A x \in Request \ {r} : req'[x] = req[x]
        /\ req[r].at = "lookup"
    BY <1>3, GotoKeeps, DoneEnds DEF GetAccountByEmail
  <2> QED
    BY <2>1
<1>4. ASSUME NEW r \in Request, CreateOrganization(r) PROVE Goal
  BY <1>4, GotoKeeps, DoneEnds, LocalsFields DEF CreateOrganization
<1>5. ASSUME NEW r \in Request, GetInviteByTokenHash(r) PROVE Goal
  <2>1. CASE Done(r)
    BY <1>5, <2>1, DoneEnds, LocalsFields DEF GetInviteByTokenHash
  <2>2. CASE ~Done(r)
    <3>1. /\ \A x \in Request \ {r} : req'[x] = req[x]
          /\ req'[r].at = "account" /\ req[r].at = "invite"
      BY <1>5, <2>2, InviteLocals DEF GetInviteByTokenHash
    <3> QED
      BY <1>5, <3>1, LocalsFields DEF GetInviteByTokenHash
  <2> QED
    BY <2>1, <2>2
<1>6. ASSUME NEW r \in Request, CreateAccount(r) PROVE Goal
  BY <1>6, GotoKeeps, DoneEnds, LocalsFields DEF CreateAccount, OrgsAreOfMembers, HasMember
<1>7. ASSUME NEW r \in Request, GetOrCreateAccountByEmail(r) PROVE Goal
  BY <1>7, GotoKeeps, DoneEnds, LocalsFields DEF GetOrCreateAccountByEmail
<1>8. ASSUME NEW r \in Request, SetAccountPassword(r) PROVE Goal
  BY <1>8, GotoKeeps, DoneEnds, LocalsFields DEF SetAccountPassword
<1>9. ASSUME NEW r \in Request, AddOrgMember(r) PROVE Goal
  BY <1>9, GotoKeeps, DoneEnds, LocalsFields DEF AddOrgMember
<1>10. ASSUME NEW r \in Request, EnsureDefaultTeamMembership(r) PROVE Goal
  BY <1>10, GotoKeeps, DoneEnds, LocalsFields DEF EnsureDefaultTeamMembership
<1>11. ASSUME NEW r \in Request, ReadAccount(r) PROVE Goal
  BY <1>11, ReadLocals, DoneEnds, LocalsFields DEF ReadAccount
<1>12. ASSUME NEW r \in Request, RevokeSessionKeys(r) PROVE Goal
  BY <1>12, GotoKeeps, DoneEnds, LocalsFields DEF RevokeSessionKeys
<1>13. ASSUME NEW r \in Request, CreateAPIKey(r) PROVE Goal
  <2>1. /\ \A x \in Request \ {r} : req'[x] = req[x]
        /\ req[r].at = "key"
    BY <1>13, GotoKeeps, DoneEnds DEF CreateAPIKey
  <2> QED
    BY <2>1
<1>14. ASSUME NEW r \in Request, MarkInviteAccepted(r) PROVE Goal
  BY <1>14, GotoKeeps, DoneEnds, LocalsFields DEF MarkInviteAccepted
<1>15. ASSUME NEW r \in Request, RevokeAccountKeys(r) PROVE Goal
  BY <1>15, GotoKeeps, DoneEnds, LocalsFields DEF RevokeAccountKeys
<1>16. ASSUME NEW r \in Request, LeaveTeams(r) PROVE Goal
  BY <1>16, GotoKeeps, DoneEnds, LocalsFields DEF LeaveTeams
<1>17. ASSUME NEW r \in Request, Cut(r) PROVE Goal
  BY <1>17, GotoKeeps, DoneEnds, LocalsFields DEF Cut, OrgsAreOfMembers, HasMember
<1>18. ASSUME Administer, CreateInvite PROVE Goal
  BY <1>18, LocalsFields DEF Administer, CreateInvite
<1>19. ASSUME Administer, IssueAPIKey PROVE Goal
  BY <1>19, LocalsFields DEF Administer, IssueAPIKey
<1>20. ASSUME Administer, UpdateAccount PROVE Goal
  BY <1>20, LocalsFields DEF Administer, UpdateAccount
<1>21. ASSUME DeleteInvite PROVE Goal
  BY <1>21, LocalsFields DEF DeleteInvite
<1>22. ASSUME RevokeAPIKey PROVE Goal
  BY <1>22, LocalsFields DEF RevokeAPIKey
<1>23. ASSUME InviteExpires PROVE Goal
  BY <1>23, LocalsFields DEF InviteExpires
<1>24. CASE UNCHANGED vars
  BY <1>24 DEF vars
<1> QED
  BY <1>1, <1>2, <1>3, <1>4, <1>5, <1>6, <1>7, <1>8, <1>9, <1>10, <1>11, <1>12, <1>13, <1>14,
       <1>15, <1>16, <1>17, <1>18, <1>19, <1>20, <1>21, <1>22, <1>23, <1>24 DEF Next, Step,
            Administer

\* Every step leaves nobody stranded.
THEOREM StrandedStep ==
    ASSUME AccountsInv, [Next]_vars
    PROVE  NobodyStranded'
<1>1. ASSUME NEW e \in Email, Exists(e)'
      PROVE  \/ \E o \in Org : role'[o][e] # None
             \/ e \in cut'
             \/ \E r \in Request : req'[r].email = e /\ req'[r].at \in {"password", "member"}
  <2>1. CASE Exists(e)
    <3>1. CASE \E o \in Org : role[o][e] # None
      BY <3>1, RolesStay
    <3>2. CASE e \in cut
      BY <3>2, NewChange
    <3>3. CASE \E r \in Request : req[r].email = e /\ req[r].at \in {"password", "member"}
      BY <3>3, AccountPassedOn
    <3> QED
      BY <2>1, <3>1, <3>2, <3>3 DEF AccountsInv, NobodyStranded
  <2> QED
    BY <1>1, <2>1, NewChange DEF Exists
<1>2. ASSUME NEW o \in orgs'
      PROVE  \/ \E e \in Email : role'[o][e] # None
             \/ o \in cut'
             \/ \E r \in Request : req'[r].org = o /\ req'[r].at \in {"account", "member"}
  <2>1. CASE o \in orgs
    <3>1. CASE \E e \in Email : role[o][e] # None
      BY <2>1, <3>1, RolesStay DEF AccountsInv, TypeOK
    <3>2. CASE o \in cut
      BY <3>2, NewChange
    <3>3. CASE \E r \in Request : req[r].org = o /\ req[r].at \in {"account", "member"}
      BY <3>3, OrganizationPassedOn
    <3> QED
      BY <2>1, <3>1, <3>2, <3>3 DEF AccountsInv, NobodyStranded
  <2> QED
    BY <2>1, NewChange
<1> QED
  BY <1>1, <1>2 DEF NobodyStranded

\* Every step leaves the keys of members, and organizations with a member.
THEOREM KeysStep ==
    ASSUME AccountsInv, [Next]_vars
    PROVE  KeysAreOfMembers' /\ OrgsAreOfMembers'
<1>1. ASSUME NEW k \in KeyId, keys'[k] # None
      PROVE  /\ keys'[k].by # "admin" => Joined(keys[k].org, keys[k].account)'
             /\ HasMember(keys[k].org)'
  <2>0. keys'[k] \in KeyRow
    BY <1>1, TypeStep DEF TypeOK
  <2>1. CASE Kept(k)
    <3>1. /\ keys[k].by # "admin" => Joined(keys[k].org, keys[k].account)
          /\ HasMember(keys[k].org)
      BY <2>1 DEF Kept, AccountsInv, KeysAreOfMembers, OrgsAreOfMembers
    <3> QED
      BY <2>0, <2>1, <3>1, RolesStay, NoneIsNoRow DEF Kept, Joined, HasMember, KeyRow, Exists
  <2>2. CASE Issued(k)
    <3>1. PICK l \in KeyId : Auth(l, keys'[k].org, "admin")
      BY <2>2 DEF Issued, RequireAdmin
    <3>2. HasMember(keys'[k].org)
      BY <3>1 DEF Auth, AccountsInv, OrgsAreOfMembers
    <3> QED
      BY <2>0, <2>2, <3>2, RolesStay, NoneIsNoRow DEF Issued, HasMember, KeyRow
  <2>3. ASSUME NEW r \in Request, Made(k, r)
        PROVE  Joined(keys[k].org, keys[k].account)' /\ HasMember(keys[k].org)'
    <3>1. Joined(keys'[k].org, keys'[k].account)
      BY <2>3 DEF Made, AccountsInv, StageOK
    <3> QED
      BY <2>0, <3>1, RolesStay, NoneIsNoRow DEF Joined, HasMember, KeyRow, Exists
  <2> QED
    BY <1>1, <2>1, <2>2, <2>3, KeysChange
<1>2. ASSUME NEW i \in Invite, invites'[i] # None
      PROVE  HasMember(invites[i].org)'
  <2>0. invites'[i] \in InviteRow
    BY <1>2, TypeStep DEF TypeOK
  <2>1. CASE invites[i] # None /\ invites'[i].org = invites[i].org
    BY <2>0, <2>1, RolesStay DEF AccountsInv, OrgsAreOfMembers, HasMember, InviteRow
  <2>2. CASE RequireAdmin(invites'[i].org)
    <3>1. PICK l \in KeyId : Auth(l, invites'[i].org, "admin")
      BY <2>2 DEF RequireAdmin
    <3> QED
      BY <2>0, <3>1, RolesStay DEF Auth, AccountsInv, OrgsAreOfMembers, HasMember, InviteRow
  <2> QED
    BY <1>2, <2>1, <2>2, InvitesChange
<1> QED
  BY <1>1, <1>2 DEF KeysAreOfMembers, OrgsAreOfMembers

\* A handler that takes an invite has the invite's account.
LEMMA TakingHasAccount ==
    ASSUME LocalsOK, StageOK, TypeOK, NEW i \in Invite, NEW r \in Request, Taking(r, i)
    PROVE  /\ invites[i] # None /\ Exists(invites[i].email)
           /\ req[r].org = invites[i].org /\ req[r].email = invites[i].email
BY DEF Taking, LocalsOK, StageOK, Joined

\* Every step leaves an invite to one handler and then to one key.
THEOREM TakerStep ==
    ASSUME AccountsInv, [Next]_vars
    PROVE  OneTaker' /\ InviteTakenOnce'
<1> USE DEF AccountsInv
<1>1. ASSUME NEW i \in Invite, NEW r \in Request, Taking(r, i)', ~Taking(r, i)
      PROVE  /\ req[r].at = "account" /\ req[r].kind = "accept" /\ req[r].invite = i
             /\ invites[i] # None /\ ~Exists(invites[i].email)
             /\ \A x \in Request \ {r} : req'[x] = req[x]
             /\ keys' = keys
  <2>1. /\ req[r].at = "account" /\ req[r].kind = "accept" /\ req[r].invite = i
        /\ ~Exists(req[r].email) /\ keys' = keys
        /\ \A x \in Request \ {r} : req'[x] = req[x]
    BY <1>1, TakingChange
  <2> QED
    BY <2>1 DEF StageOK
<1>2. ASSUME NEW i \in Invite, NEW r \in Request, NEW s \in Request, Taking(r, i)', Taking(s,
     i)'
      PROVE  r = s
  <2>1. CASE Taking(r, i) /\ Taking(s, i)
    BY <2>1 DEF OneTaker
  <2>2. CASE ~Taking(r, i)
    <3>1. s # r => Taking(s, i)
      BY <1>1, <1>2, <2>2 DEF Taking
    <3> QED
      BY <1>1, <1>2, <2>2, <3>1, TakingHasAccount
  <2>3. CASE ~Taking(s, i)
    <3>1. s # r => Taking(r, i)
      BY <1>1, <1>2, <2>3 DEF Taking
    <3> QED
      BY <1>1, <1>2, <2>3, <3>1, TakingHasAccount
  <2> QED
    BY <2>1, <2>2, <2>3
<1>3. ASSUME NEW i \in Invite, NEW k \in KeyId, keys'[k] # None, keys'[k].invite = i
      PROVE  \/ Kept(k) /\ keys[k].invite = i
             \/ \E r \in Request : Made(k, r) /\ Taking(r, i) /\ req[r].at = "key"
  <2>1. CASE Kept(k)
    BY <1>3, <2>1 DEF Kept
  <2>2. ~Issued(k)
    BY <1>3, AccountsAssumption DEF Issued, AccountsAssumption
  <2>3. ASSUME NEW r \in Request, Made(k, r)
        PROVE  Taking(r, i) /\ req[r].at = "key"
    BY <1>3, <2>3, AccountsAssumption DEF Made, Taking, LocalsOK, AccountsAssumption
  <2> QED
    BY <1>3, <2>1, <2>2, <2>3, KeysChange
<1>4. ASSUME NEW i \in Invite, invites[i] # None, Exists(invites[i].email)
      PROVE  invites'[i] # None /\ Exists(invites[i].email)'
  <2>1. /\ invites[i].email \in Email /\ invites[i].org \in Org
        /\ invites'[i] # None /\ invites'[i].email = invites[i].email
    BY <1>4, InvitesChange DEF TypeOK, InviteRow
  <2> QED
    BY <1>4, <2>1, RolesStay DEF Exists
<1>5. ASSUME NEW i \in Invite, NEW k \in KeyId, keys'[k] # None, keys'[k].invite = i
      PROVE  /\ invites'[i] # None /\ Exists(invites[i].email)'
             /\ \A r \in Request : Taking(r, i)' => req'[r].at = "mark"
  <2>1. CASE Kept(k) /\ keys[k].invite = i
    <3>1. /\ invites[i] # None /\ Exists(invites[i].email)
          /\ \A r \in Request : Taking(r, i) => req[r].at = "mark"
      BY <2>1 DEF Kept, OneTaker
    <3>2. ASSUME NEW r \in Request, Taking(r, i)'
          PROVE  req'[r].at = "mark"
      <4>1. Taking(r, i)
        BY <1>1, <3>1, <3>2
      <4> QED
        BY <3>1, <3>2, <4>1, TakingChange
    <3> QED
      BY <1>4, <3>1, <3>2
  <2>2. ASSUME NEW r \in Request, Made(k, r), Taking(r, i), req[r].at = "key"
        PROVE  /\ invites'[i] # None /\ Exists(invites[i].email)'
               /\ \A s \in Request : Taking(s, i)' => req'[s].at = "mark"
    <3>1. invites[i] # None /\ Exists(invites[i].email)
      BY <2>2, TakingHasAccount
    <3>2. ASSUME NEW s \in Request, Taking(s, i)'
          PROVE  req'[s].at = "mark"
      <4>1. Taking(s, i)
        BY <1>1, <3>1, <3>2
      <4>2. s = r
        BY <2>2, <4>1 DEF OneTaker
      <4> QED
        BY <2>2, <4>2 DEF Made, Taking
    <3> QED
      BY <1>4, <3>1, <3>2
  <2> QED
    BY <1>3, <1>5, <2>1, <2>2
<1>6. ASSUME NEW i \in Invite, NEW k \in KeyId, NEW l \in KeyId,
             keys'[k] # None, keys'[l] # None, keys'[k].invite = i, keys'[l].invite = i
      PROVE  k = l
  <2>1. CASE Kept(k) /\ keys[k].invite = i /\ Kept(l) /\ keys[l].invite = i
    BY <2>1 DEF Kept, InviteTakenOnce
  <2>2. ASSUME NEW r \in Request, NEW x \in KeyId, NEW y \in KeyId,
               Made(x, r), Taking(r, i), req[r].at = "key", keys'[y] # None, keys'[y].invite = i
        PROVE  x = y
    <3>1. SUFFICES ASSUME x # y PROVE FALSE
      OBVIOUS
    <3>2. keys[y] # None /\ keys[y].invite = i
      BY <2>2, <3>1 DEF Made
    <3> QED
      BY <2>2, <3>2 DEF OneTaker
  <2> QED
    BY <1>3, <1>6, <2>1, <2>2
<1>7. ASSUME NEW i \in Invite, invites'[i] # None, invites'[i].state = "accepted"
      PROVE  Joined(invites[i].org, invites[i].email)'
  <2>1. /\ invites[i] # None
        /\ invites'[i].org = invites[i].org /\ invites'[i].email = invites[i].email
        /\ \/ invites[i].state = "accepted"
           \/ \E r \in Request : req[r].at = "mark" /\ req[r].invite = i
    BY <1>7, InvitesChange
  <2>2. Joined(invites[i].org, invites[i].email)
    <3>1. CASE invites[i].state = "accepted"
      BY <2>1, <3>1 DEF InviteTakenOnce
    <3>2. ASSUME NEW r \in Request, req[r].at = "mark", req[r].invite = i
          PROVE  Joined(invites[i].org, invites[i].email)
      BY <3>2 DEF LocalsOK, StageOK
    <3> QED
      BY <2>1, <3>1, <3>2
  <2>3. invites[i].org \in Org /\ invites[i].email \in Email
    BY <2>1 DEF TypeOK, InviteRow
  <2> QED
    BY <2>1, <2>2, <2>3, RolesStay DEF Joined, Exists
<1>8. OneTaker'
  BY <1>2, <1>5 DEF OneTaker
<1> QED
  BY <1>6, <1>7, <1>8 DEF InviteTakenOnce

\* A login is about to get its key when it has ended the sessions before it, or could not.
LEMMA LoggingInChange ==
    ASSUME AccountsInv, [Next]_vars
    PROVE  \A e \in Email : \/ LoggingIn(e)' \subseteq LoggingIn(e)
                                \/ e \in lapsed'
                                \/ Sessions(e)' = {}
<1> DEFINE Goal ==
      \A e \in Email : \/ LoggingIn(e)' \subseteq LoggingIn(e)
                           \/ e \in lapsed'
                           \/ Sessions(e)' = {}
<1> USE AccountsAssumption, IdleIsLocals DEF AccountsAssumption, AccountsInv, TypeOK, LocalsOK,
     Statement, Founders, LoggingIn, tables, history, At, Fail
<1>1. ASSUME NEW r \in Request, Begin(r) PROVE Goal
  BY <1>1, BeginLocals, LocalsFields DEF Begin
<1>2. ASSUME NEW r \in Request, CountOrganizations(r) PROVE Goal
  BY <1>2, GotoKeeps, DoneEnds, LocalsFields DEF CountOrganizations
<1>3. ASSUME NEW r \in Request, GetAccountByEmail(r) PROVE Goal
  BY <1>3, GotoKeeps, DoneEnds, LocalsFields DEF GetAccountByEmail
<1>4. ASSUME NEW r \in Request, CreateOrganization(r) PROVE Goal
  BY <1>4, GotoKeeps, DoneEnds, LocalsFields DEF CreateOrganization
<1>5. ASSUME NEW r \in Request, GetInviteByTokenHash(r) PROVE Goal
  <2>1. CASE Done(r)
    BY <1>5, <2>1, DoneEnds, LocalsFields DEF GetInviteByTokenHash
  <2>2. CASE ~Done(r)
    <3>1. /\ \A x \in Request \ {r} : req'[x] = req[x]
          /\ req'[r].at = "account" /\ req[r].at = "invite"
      BY <1>5, <2>2, InviteLocals DEF GetInviteByTokenHash
    <3> QED
      BY <1>5, <3>1, LocalsFields DEF GetInviteByTokenHash
  <2> QED
    BY <2>1, <2>2
<1>6. ASSUME NEW r \in Request, CreateAccount(r) PROVE Goal
  BY <1>6, GotoKeeps, DoneEnds, LocalsFields DEF CreateAccount
<1>7. ASSUME NEW r \in Request, GetOrCreateAccountByEmail(r) PROVE Goal
  BY <1>7, GotoKeeps, DoneEnds, LocalsFields DEF GetOrCreateAccountByEmail
<1>8. ASSUME NEW r \in Request, SetAccountPassword(r) PROVE Goal
  BY <1>8, GotoKeeps, DoneEnds, LocalsFields DEF SetAccountPassword
<1>9. ASSUME NEW r \in Request, AddOrgMember(r) PROVE Goal
  BY <1>9, GotoKeeps, DoneEnds, LocalsFields DEF AddOrgMember
<1>10. ASSUME NEW r \in Request, EnsureDefaultTeamMembership(r) PROVE Goal
  BY <1>10, GotoKeeps, DoneEnds, LocalsFields DEF EnsureDefaultTeamMembership
<1>11. ASSUME NEW r \in Request, ReadAccount(r) PROVE Goal
  BY <1>11, ReadLocals, DoneEnds, LocalsFields DEF ReadAccount
<1>12. ASSUME NEW r \in Request, RevokeSessionKeys(r) PROVE Goal
  <2>1. \A x \in Request \ {r} : req'[x] = req[x]
    BY <1>12, GotoKeeps DEF RevokeSessionKeys
  <2>2. req'[r].email = req[r].email
    BY <1>12, GotoKeeps DEF RevokeSessionKeys
  <2>3. CASE keys' = Revoked({k \in KeyId : IsSession(k, req[r].email)})
    <3>1. ASSUME NEW k \in KeyId, IsSession(k, req[r].email)'
          PROVE  FALSE
      <4>1. IsSession(k, req[r].email)
        BY <2>2, <2>3, <3>1, RevokedKeeps DEF IsSession
      <4>2. keys'[k] = [keys[k] EXCEPT !.live = FALSE]
        BY <2>3, <4>1 DEF Revoked
      <4>3. keys[k] \in KeyRow
        BY <4>1 DEF IsSession
      <4> QED
        BY <3>1, <4>2, <4>3 DEF IsSession, KeyRow
    <3>2. Sessions(req[r].email)' = {}
      BY <3>1 DEF Sessions
    <3> QED
      BY <2>1, <2>2, <3>2
  <2>4. CASE lapsed' = lapsed \cup {req[r].email}
    BY <2>1, <2>2, <2>4
  <2> QED
    BY <1>12, <2>3, <2>4 DEF RevokeSessionKeys
<1>13. ASSUME NEW r \in Request, CreateAPIKey(r) PROVE Goal
  BY <1>13, GotoKeeps, DoneEnds, LocalsFields DEF CreateAPIKey
<1>14. ASSUME NEW r \in Request, MarkInviteAccepted(r) PROVE Goal
  BY <1>14, GotoKeeps, DoneEnds, LocalsFields DEF MarkInviteAccepted
<1>15. ASSUME NEW r \in Request, RevokeAccountKeys(r) PROVE Goal
  BY <1>15, GotoKeeps, DoneEnds, LocalsFields DEF RevokeAccountKeys
<1>16. ASSUME NEW r \in Request, LeaveTeams(r) PROVE Goal
  BY <1>16, GotoKeeps, DoneEnds, LocalsFields DEF LeaveTeams
<1>17. ASSUME NEW r \in Request, Cut(r) PROVE Goal
  BY <1>17, GotoKeeps, DoneEnds, LocalsFields DEF Cut
<1>18. ASSUME Administer, CreateInvite PROVE Goal
  BY <1>18, LocalsFields DEF Administer, CreateInvite
<1>19. ASSUME Administer, IssueAPIKey PROVE Goal
  BY <1>19, LocalsFields DEF Administer, IssueAPIKey
<1>20. ASSUME Administer, UpdateAccount PROVE Goal
  BY <1>20, LocalsFields DEF Administer, UpdateAccount
<1>21. ASSUME DeleteInvite PROVE Goal
  BY <1>21, LocalsFields DEF DeleteInvite
<1>22. ASSUME RevokeAPIKey PROVE Goal
  BY <1>22, LocalsFields DEF RevokeAPIKey
<1>23. ASSUME InviteExpires PROVE Goal
  BY <1>23, LocalsFields DEF InviteExpires
<1>24. CASE UNCHANGED vars
  BY <1>24 DEF vars
<1> QED
  BY <1>1, <1>2, <1>3, <1>4, <1>5, <1>6, <1>7, <1>8, <1>9, <1>10, <1>11, <1>12, <1>13, <1>14,
       <1>15, <1>16, <1>17, <1>18, <1>19, <1>20, <1>21, <1>22, <1>23, <1>24 DEF Next, Step,
            Administer

\* Every step keeps the sessions of an account and the logins about to get a
\* key within the logins that can run at once.
THEOREM SessionsStep ==
    ASSUME AccountsInv, SessionsBounded, [Next]_vars, lapsed \subseteq lapsed'
    PROVE  SessionsBounded'
<1> USE AccountsAssumption DEF AccountsAssumption
<1>1. ASSUME NEW e \in Email, e \notin lapsed'
      PROVE  Cardinality(Sessions(e)') + Cardinality(LoggingIn(e)') <= Cardinality(Request)
  <2>0. /\ IsFiniteSet(Sessions(e)) /\ IsFiniteSet(Sessions(e)')
        /\ IsFiniteSet(LoggingIn(e)) /\ IsFiniteSet(LoggingIn(e)')
        /\ LoggingIn(e)' \subseteq Request
    BY FS_Subset DEF Sessions, LoggingIn
  <2>1. /\ Cardinality(Sessions(e)) \in Nat /\ Cardinality(Sessions(e)') \in Nat
        /\ Cardinality(LoggingIn(e)) \in Nat /\ Cardinality(LoggingIn(e)') \in Nat
        /\ Cardinality(Request) \in Nat
    BY <2>0, FS_CardinalityType
  <2>2. Cardinality(Sessions(e)) + Cardinality(LoggingIn(e)) <= Cardinality(Request)
    BY <1>1 DEF SessionsBounded
  <2>3. ASSUME NEW k \in KeyId, k \in Sessions(e)', Kept(k)
        PROVE  k \in Sessions(e)
    BY <2>3 DEF Kept, Sessions, IsSession
  <2>4. CASE Sessions(e)' = {}
    <3>1. Cardinality(LoggingIn(e)') <= Cardinality(Request)
      BY <2>0, FS_Subset
    <3>2. Cardinality(Sessions(e)') = 0
      BY <2>4, FS_EmptySet
    <3> QED
      BY <2>1, <3>1, <3>2
  <2>5. CASE LoggingIn(e)' \subseteq LoggingIn(e) /\ Sessions(e)' \subseteq Sessions(e)
    <3>1. /\ Cardinality(LoggingIn(e)') <= Cardinality(LoggingIn(e))
          /\ Cardinality(Sessions(e)') <= Cardinality(Sessions(e))
      BY <2>0, <2>5, FS_Subset
    <3> QED
      BY <2>1, <2>2, <3>1
  <2>6. ASSUME NEW k \in Sessions(e)', NEW r \in Request, Made(k, r)
        PROVE  Cardinality(Sessions(e)') + Cardinality(LoggingIn(e)') <= Cardinality(Request)
    <3>1. r \in LoggingIn(e) /\ r \notin LoggingIn(e)'
      BY <2>6 DEF Made, Sessions, IsSession, LoggingIn
    <3>2. LoggingIn(e)' \subseteq LoggingIn(e) \ {r}
      BY <2>6, <3>1 DEF Made, LoggingIn
    <3>3. Sessions(e)' \subseteq Sessions(e) \cup {k} /\ k \notin Sessions(e)
      BY <2>6 DEF Made, Sessions, IsSession
    <3>4. Cardinality(LoggingIn(e)') <= Cardinality(LoggingIn(e)) - 1
      <4>1. /\ IsFiniteSet(LoggingIn(e) \ {r})
            /\ Cardinality(LoggingIn(e) \ {r}) = Cardinality(LoggingIn(e)) - 1
        BY <2>0, <3>1, FS_RemoveElement
      <4> QED
        BY <3>2, <4>1, FS_Subset
    <3>5. Cardinality(Sessions(e)') <= Cardinality(Sessions(e)) + 1
      <4>1. /\ IsFiniteSet(Sessions(e) \cup {k})
            /\ Cardinality(Sessions(e) \cup {k}) = Cardinality(Sessions(e)) + 1
        BY <2>0, <3>3, FS_AddElement
      <4> QED
        BY <3>3, <4>1, FS_Subset
    <3> QED
      BY <2>1, <2>2, <3>4, <3>5
  <2>7. ASSUME \A k \in Sessions(e)' : k \in Sessions(e)
        PROVE  LoggingIn(e)' \subseteq LoggingIn(e) \/ Sessions(e)' = {}
    BY <1>1, LoggingInChange
  <2>8. ASSUME NEW k \in Sessions(e)', k \notin Sessions(e)
        PROVE  \E r \in Request : Made(k, r)
    BY <2>3, <2>8, KeysChange DEF Sessions, IsSession, Issued
  <2> QED
    BY <2>4, <2>5, <2>6, <2>7, <2>8
<1>2. \A e \in (Email \ lapsed)' : e \in Email /\ e \notin lapsed'
  OBVIOUS
<1> QED
  BY <1>1 DEF SessionsBounded

-----------------------------------------------------------------------------
\* The inductive invariant: what each handler has in hand and what the tables
\* hold for its next statement.
THEOREM AccountsInvariant == Spec => []AccountsInv
<1>1. AccountsInv /\ [Next]_vars => AccountsInv'
  BY TypeStep, LocalsStep, StageStep, KeysStep, TakerStep, StrandedStep DEF AccountsInv
<1> QED
  BY AccountsInit, <1>1, PTL DEF Spec

\* Rows and handlers keep their types.
THEOREM AccountsTypeCorrect == Spec => []TypeOK
BY AccountsInvariant, PTL DEF AccountsInv

\* A key got by joining or logging in is a member's, wherever handlers of the
\* sign-up, invite and login endpoints were cut off.
THEOREM KeysOfMembers == Spec => []KeysAreOfMembers
BY AccountsInvariant, PTL DEF AccountsInv

\* An invite admits one account, once, however many accept it at a time.
THEOREM InviteAdmitsOnce == Spec => []InviteTakenOnce
BY AccountsInvariant, PTL DEF AccountsInv

\* An account without an organization, or an organization without a member, is
\* in the hands of a handler or was left by one that was cut off.
THEOREM NobodyIsStranded == Spec => []NobodyStranded
BY AccountsInvariant, PTL DEF AccountsInv

\* A failed revocation is remembered.
LEMMA LapsedStays ==
    ASSUME AccountsInv, [Next]_vars
    PROVE  lapsed \subseteq lapsed'
BY DEF Next, Begin, Step, CountOrganizations, GetAccountByEmail, CreateOrganization,
   GetInviteByTokenHash, CreateAccount, GetOrCreateAccountByEmail, SetAccountPassword,
   AddOrgMember, EnsureDefaultTeamMembership, ReadAccount, RevokeSessionKeys, CreateAPIKey,
   MarkInviteAccepted, RevokeAccountKeys, LeaveTeams, Cut, Administer, CreateInvite,
   IssueAPIKey, UpdateAccount, DeleteInvite, RevokeAPIKey, InviteExpires, history, vars

\* Logins that overlap leave no more live sessions than can overlap.
THEOREM SessionsAreBounded == Spec => []SessionsBounded
<1>1. Init => SessionsBounded
  <2> SUFFICES ASSUME Init PROVE SessionsBounded
    OBVIOUS
  <2>1. \A e \in Email : Sessions(e) = {} /\ LoggingIn(e) = {}
    BY DEF Init, Sessions, IsSession, LoggingIn, Idle
  <2>2. Cardinality(Request) \in Nat
    BY AccountsAssumption, FS_CardinalityType DEF AccountsAssumption
  <2> QED
    BY <2>1, <2>2, FS_EmptySet DEF SessionsBounded
<1>2. AccountsInv /\ SessionsBounded /\ [Next]_vars => SessionsBounded'
  BY SessionsStep, LapsedStays
<1> QED
  BY <1>1, <1>2, AccountsInvariant, PTL DEF Spec
=============================================================================
