----------------------------- MODULE Privileges -----------------------------
(***************************************************************************)
(* Roles, direct permissions and the access tokens that carry them.        *)
(*                                                                         *)
(* The effective rights of a user are copied into every access token when  *)
(* it is signed, from a row read earlier in the same request.  A change of *)
(* rights saves the new ones and then marks each user concerned: a token   *)
(* signed no later than the mark is refused, so that its holder refreshes  *)
(* it.  The module checks how far that protocol, which spreads over        *)
(* RoleService, UserService, their listeners and the login, keeps the      *)
(* promise "at the response the sessions are up to date", and that nobody  *)
(* but a superuser makes a superuser.                                      *)
(*                                                                         *)
(* A request is interrupted at its awaits only.  Tokens are taken to       *)
(* outlive the run: their expiry, and that of the marks, is the matter of  *)
(* module Sessions.                                                        *)
(***************************************************************************)
EXTENDS Naturals, FiniteSets

CONSTANTS
  Users, Requests,
  Roles, Admin,     \* the roles; the system role "admin"
  Perms, All,       \* the permissions; the permission "*"
  InitialRoles,     \* the roles of each user at the start
  InitialPerms,     \* the permissions of each role at the start
  Wanted,           \* [roles, direct] an administrator may ask for
  WantedPerms,      \* permissions he may ask for a role
  MaxTime           \* bound of the clock

ASSUME PrivilegesAssumption ==
  /\ Admin \in Roles /\ All \in Perms
  /\ InitialRoles \in [Users -> SUBSET Roles]
  /\ InitialPerms \in [Roles -> SUBSET Perms]
  /\ Wanted \subseteq [roles : SUBSET Roles, direct : SUBSET Perms]
  /\ WantedPerms \subseteq SUBSET Perms
  /\ MaxTime \in Nat

VARIABLES
  now,        \* the clock, in the milliseconds of pat and of the marks
  roles,      \* the roles that exist
  granted,    \* role_permissions: the permissions of each of them
  member,     \* user_roles
  direct,     \* user_permissions
  mark,       \* privileges:changed:<userId>; 0: none
  tokens,     \* the access tokens signed
  req,        \* the state of each request
  past        \* history: see Init

tables == <<roles, granted, member, direct>>
vars == <<now, tables, mark, tokens, req, past>>

-----------------------------------------------------------------------------

Grant == [roles : SUBSET Roles, perms : SUBSET Perms]

\* "late" is history: the rights had changed between the read and the signature.
Token == [user : Users, grant : Grant, pat : Nat, late : BOOLEAN]

\* A request serves one call.  new: not received yet; sign: the user was read;
\* findRoles, save: setPrivileges; saveRole, findMembers: setRolePermissions; drop:
\* deleteRole; notify: the users in todo are still to be marked; done: answered.
New == [pc |-> "new"]
Done == [pc |-> "done"]

At(r, pc) == req[r].pc = pc

Goto(r, state) == req' = [req EXCEPT ![r] = state]

\* grantOfUser: the role permissions and the direct ones.
GrantOf(u) ==
  [roles |-> member[u],
   perms |-> direct[u] \cup UNION {granted[x] : x \in member[u]}]

IsSuperGrant(g) == Admin \in g.roles \/ All \in g.perms

Super(u) == IsSuperGrant(GrantOf(u))

\* verdictOf, "privileges-changed"
Accepted(t) == mark[t.user] < t.pat

Acting(super) == past' = [past EXCEPT !.superActed = @ \/ super]

Unmarked(S) == past' = [past EXCEPT !.unmarked = @ \cup S]

\* "past" is history for the properties: whether a superuser asked for a change, and
\* the users whose change of rights nobody is left to notify.
Init ==
  /\ now = 1
  /\ roles = Roles
  /\ granted = InitialPerms
  /\ member = InitialRoles
  /\ direct = [u \in Users |-> {}]
  /\ mark = [u \in Users |-> 0]
  /\ tokens = {}
  /\ req = [r \in Requests |-> New]
  /\ past = [superActed |-> FALSE, unmarked |-> {}]

Tick ==
  /\ now < MaxTime
  /\ now' = now + 1
  /\ UNCHANGED <<tables, mark, tokens, req, past>>

-----------------------------------------------------------------------------
(* Logging in and refreshing *)

\* signIn, verify2FA, updateTokens: the user is read with roles and permissions.
ReadUser(r) ==
  /\ At(r, "new")
  /\ \E u \in Users :
       Goto(r, [pc |-> "sign", user |-> u, grant |-> GrantOf(u)])
  /\ UNCHANGED <<now, tables, mark, tokens, past>>

\* TokenService.issue: the rights read before, the time of now.
Sign(r) ==
  /\ At(r, "sign")
  /\ LET u == req[r].user
         grant == req[r].grant
     IN tokens' = tokens \cup
          {[user |-> u, grant |-> grant, pat |-> now, late |-> grant # GrantOf(u)]}
  /\ Goto(r, Done)
  /\ UNCHANGED <<now, tables, mark, past>>

-----------------------------------------------------------------------------
(* PATCH /user/setPrivileges/{id}.  The actor is another user; what counts  *)
(* is whether his token makes him a superuser.                             *)

\* The user is read; only a superuser may go on with a superuser.
SetPrivileges(r) ==
  /\ At(r, "new")
  /\ \E u \in Users, want \in Wanted, super \in BOOLEAN :
       /\ super \/ ~Super(u)
       /\ Goto(r, [pc |-> "findRoles", user |-> u, want |-> want, super |-> super])
       /\ Acting(super)
  /\ UNCHANGED <<now, tables, mark, tokens>>

\* Slip: the permissions the roles bring are forgotten.
GrantsSuperDirectly(want) == All \in want.direct

GrantsSuper(want) ==
  IsSuperGrant([roles |-> want.roles,
                perms |-> want.direct \cup UNION {granted[x] : x \in want.roles}])

\* findByNames: a role missing, or one too high, ends the request.
FindRoles(r) ==
  /\ At(r, "findRoles")
  /\ LET want == req[r].want IN
     IF want.roles \subseteq roles /\ (req[r].super \/ ~GrantsSuper(want))
     THEN Goto(r, [pc |-> "save", user |-> req[r].user, want |-> want])
     ELSE Goto(r, Done)
  /\ UNCHANGED <<now, tables, mark, tokens, past>>

\* A request that still has users to mark, or none.
Notifying(S) == IF S = {} THEN Done ELSE [pc |-> "notify", todo |-> S]

\* save(user): both relations become what was asked; the foreign key refuses a
\* role deleted meanwhile.  The event is awaited.
SavePrivileges(r) ==
  /\ At(r, "save")
  /\ LET u == req[r].user
         want == req[r].want
     IN IF want.roles \subseteq roles
        THEN /\ member' = [member EXCEPT ![u] = want.roles]
             /\ direct' = [direct EXCEPT ![u] = want.direct]
             /\ Goto(r, Notifying({u}))
        ELSE /\ Goto(r, Done)
             /\ UNCHANGED <<member, direct>>
  /\ UNCHANGED <<now, roles, granted, mark, tokens, past>>

-----------------------------------------------------------------------------
(* RoleService *)

MaySet(super, x, perms) == super \/ (x # Admin /\ All \notin perms)

\* setRolePermissions: the role is read and the actor checked.
SetRolePermissions(r) ==
  /\ At(r, "new")
  /\ \E x \in roles, perms \in WantedPerms, super \in BOOLEAN :
       /\ MaySet(super, x, perms)
       /\ Goto(r, [pc |-> "saveRole", role |-> x, perms |-> perms])
       /\ Acting(super)
  /\ UNCHANGED <<now, tables, mark, tokens>>

\* save(role): the row is inserted again if it was deleted meanwhile.  The event
\* is not awaited: the request is answered, its listener goes on.
SaveRole(r) ==
  /\ At(r, "saveRole")
  /\ roles' = roles \cup {req[r].role}
  /\ granted' = [granted EXCEPT ![req[r].role] = req[r].perms]
  /\ Goto(r, [pc |-> "findMembers", role |-> req[r].role])
  /\ UNCHANGED <<now, member, direct, mark, tokens, past>>

Members(x) == {u \in Users : x \in member[u]}

\* notifyRoleMembersPrivilegesChanged: findByRoleId.
FindMembers(r) ==
  /\ At(r, "findMembers")
  /\ Goto(r, Notifying(Members(req[r].role)))
  /\ UNCHANGED <<now, tables, mark, tokens, past>>

\* deleteRole: not a system role; its members are listed first.
DeleteRole(r) ==
  /\ At(r, "new")
  /\ \E x \in roles \ {Admin} :
       Goto(r, [pc |-> "drop", role |-> x, todo |-> Members(x)])
  /\ UNCHANGED <<now, tables, mark, tokens, past>>

LinksCut(x) == [u \in Users |-> member[u] \ {x}]

\* The DELETE takes the links to users and permissions along.  The event, with
\* the members listed, is awaited.
DropRole(r) ==
  /\ At(r, "drop")
  /\ LET x == req[r].role IN
       /\ roles' = roles \ {x}
       /\ granted' = [granted EXCEPT ![x] = {}]
       /\ member' = LinksCut(x)
       /\ Goto(r, Notifying(req[r].todo))
       /\ Unmarked(Members(x) \ req[r].todo)
  /\ UNCHANGED <<now, direct, mark, tokens>>

-----------------------------------------------------------------------------
(* Marking *)

\* Slip: the mark carries the time at which the change was asked for.
MarkedEarlier(u) == [mark EXCEPT ![u] = now - 1]

Marked(u) == [mark EXCEPT ![u] = now]

\* UserPrivilegesChangedEvent, one user after the other: the listener of the
\* session module marks him.  A failure of the store is only logged.
Notify(r) ==
  /\ At(r, "notify")
  /\ \E u \in req[r].todo :
       /\ Goto(r, Notifying(req[r].todo \ {u}))
       /\ \/ mark' = Marked(u) /\ UNCHANGED past
          \/ Unmarked({u}) /\ UNCHANGED mark
  /\ UNCHANGED <<now, tables, tokens>>

\* The users a request still has to mark for changes it saved.
Owed(r) ==
  CASE At(r, "notify") -> req[r].todo
    [] At(r, "findMembers") -> Members(req[r].role)
    [] OTHER -> {}

\* The replica dies, or a query throws.
Abandon(r) ==
  /\ req[r].pc \notin {"new", "done"}
  /\ Goto(r, Done)
  /\ Unmarked(Owed(r))
  /\ UNCHANGED <<now, tables, mark, tokens>>

-----------------------------------------------------------------------------

Step(r) ==
  \/ ReadUser(r) \/ Sign(r)
  \/ SetPrivileges(r) \/ FindRoles(r) \/ SavePrivileges(r)
  \/ SetRolePermissions(r) \/ SaveRole(r) \/ FindMembers(r)
  \/ DeleteRole(r) \/ DropRole(r)
  \/ Notify(r) \/ Abandon(r)

Next == Tick \/ \E r \in Requests : Step(r)

Spec == Init /\ [][Next]_vars

-----------------------------------------------------------------------------
(* Properties *)

Request ==
  [pc : {"new", "done"}]
    \cup [pc : {"sign"}, user : Users, grant : Grant]
    \cup [pc : {"findRoles"}, user : Users, want : Wanted, super : BOOLEAN]
    \cup [pc : {"save"}, user : Users, want : Wanted]
    \cup [pc : {"saveRole"}, role : Roles, perms : WantedPerms]
    \cup [pc : {"findMembers"}, role : Roles]
    \cup [pc : {"drop"}, role : Roles, todo : SUBSET Users]
    \cup [pc : {"notify"}, todo : (SUBSET Users) \ {{}}]

TypeOK ==
  /\ now \in Nat
  /\ roles \subseteq Roles
  /\ granted \in [Roles -> SUBSET Perms]
  /\ member \in [Users -> SUBSET roles]
  /\ direct \in [Users -> SUBSET Perms]
  /\ mark \in [Users -> Nat]
  /\ tokens \subseteq Token
  /\ req \in [Requests -> Request]
  /\ past \in [superActed : BOOLEAN, unmarked : SUBSET Users]

\* Nobody is still to be marked.
Settled == \A r \in Requests : Owed(r) = {}

Outdated(t) == t.grant # GrantOf(t.user)

\* Once nobody is left to be marked, an accepted token with outdated rights is one
\* whose rights changed while its request was between the read of the user and the
\* signature; lost notifications and members a deletion did not count apart.  Every
\* change has to reach every member of a changed role, whatever else changes
\* meanwhile.
OutdatedWereInFlight ==
  Settled =>
    \A t \in tokens :
      Accepted(t) /\ Outdated(t) /\ t.user \notin past.unmarked => t.late

SuperAtStart(u) ==
  IsSuperGrant([roles |-> InitialRoles[u],
                perms |-> UNION {InitialPerms[x] : x \in InitialRoles[u]}])

\* As long as no superuser changes rights, no sequence of concurrent changes by
\* other administrators makes a superuser: not directly, nor by a role that has or
\* gets the permission "*".
NoSuperuserByOthers ==
  ~past.superActed => \A u \in Users : Super(u) => SuperAtStart(u)
=============================================================================
