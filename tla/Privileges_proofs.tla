---------------------------- MODULE Privileges_proofs ----------------------------
(***************************************************************************)
(* Safety of Privileges for any users, requests, roles, permissions and    *)
(* initial tables.                                                         *)
(***************************************************************************)
EXTENDS Privileges, TLAPS

-----------------------------------------------------------------------------
(* Types *)

\* What a request has at hand at each program point.
LEMMA Shape ==
  ASSUME TypeOK, NEW r \in Requests
  PROVE  /\ At(r, "sign") => req[r].user \in Users /\ req[r].grant \in Grant
         /\ At(r, "findRoles") =>
              req[r].user \in Users /\ req[r].want \in Wanted /\ req[r].super \in BOOLEAN
         /\ At(r, "save") => req[r].user \in Users /\ req[r].want \in Wanted
         /\ At(r, "saveRole") => req[r].role \in Roles /\ req[r].perms \in WantedPerms
         /\ At(r, "findMembers") => req[r].role \in Roles
         /\ At(r, "drop") => req[r].role \in Roles /\ req[r].todo \subseteq Users
         /\ At(r, "notify") => req[r].todo \subseteq Users
  BY DEF TypeOK, Request, At

LEMMA GotoType ==
  ASSUME TypeOK, NEW r \in Requests, NEW state \in Request, Goto(r, state)
  PROVE  req' \in [Requests -> Request]
  BY DEF TypeOK, Goto

LEMMA NotifyingType ==
  ASSUME NEW S \in SUBSET Users
  PROVE  Notifying(S) \in Request /\ Done \in Request
  <1>1. Done \in Request
    BY DEF Done, Request
  <1>2. ASSUME S # {} PROVE [pc |-> "notify", todo |-> S] \in Request
    <2>1. S \in (SUBSET Users) \ {{}}
      BY <1>2
    <2>2. [pc |-> "notify", todo |-> S] \in [pc : {"notify"}, todo : (SUBSET Users) \ {{}}]
      BY <2>1
    <2> QED
      BY <2>2 DEF Request
  <1> QED
    BY <1>1, <1>2 DEF Notifying

LEMMA GrantType ==
  ASSUME TypeOK, NEW u \in Users
  PROVE  GrantOf(u) \in Grant
  <1>1. member[u] \subseteq Roles /\ direct[u] \subseteq Perms
    BY DEF TypeOK
  <1>2. \A x \in member[u] : granted[x] \subseteq Perms
    BY <1>1 DEF TypeOK
  <1>3. UNION {granted[x] : x \in member[u]} \subseteq Perms
    BY <1>2
  <1> QED
    BY <1>1, <1>3 DEF GrantOf, Grant

LEMMA PastType ==
  ASSUME TypeOK
  PROVE  /\ \A super \in BOOLEAN : Acting(super) =>
              past' \in [superActed : BOOLEAN, unmarked : SUBSET Users]
         /\ \A S \in SUBSET Users : Unmarked(S) =>
              past' \in [superActed : BOOLEAN, unmarked : SUBSET Users]
  <1>1. ASSUME NEW super \in BOOLEAN, Acting(super)
        PROVE  past' \in [superActed : BOOLEAN, unmarked : SUBSET Users]
    <2> DEFINE b == past.superActed \/ super
    <2>1. b \in BOOLEAN /\ past' = [past EXCEPT !.superActed = b]
      BY <1>1 DEF Acting
    <2> HIDE DEF b
    <2> QED
      BY <2>1 DEF TypeOK
  <1>2. ASSUME NEW S \in SUBSET Users, Unmarked(S)
        PROVE  past' \in [superActed : BOOLEAN, unmarked : SUBSET Users]
    BY <1>2 DEF TypeOK, Unmarked
  <1> QED
    BY <1>1, <1>2

LEMMA OwedType ==
  ASSUME TypeOK, NEW r \in Requests
  PROVE  Owed(r) \subseteq Users
  BY Shape DEF Owed, Members

LEMMA InitTypeOK == Init => TypeOK
  <1> SUFFICES ASSUME Init PROVE TypeOK
    OBVIOUS
  <1> USE PrivilegesAssumption
  <1>1. req \in [Requests -> Request]
    BY DEF Init, New, Request
  <1>2. member \in [Users -> SUBSET roles] /\ direct \in [Users -> SUBSET Perms]
        /\ granted \in [Roles -> SUBSET Perms] /\ mark \in [Users -> Nat]
    BY DEF Init
  <1>3. past \in [superActed : BOOLEAN, unmarked : SUBSET Users]
    BY DEF Init
  <1> QED
    BY <1>1, <1>2, <1>3 DEF Init, TypeOK

LEMMA TypeStep == TypeOK /\ [Next]_vars => TypeOK'
  <1> SUFFICES ASSUME TypeOK, [Next]_vars PROVE TypeOK'
    OBVIOUS
  <1> USE PrivilegesAssumption
  <1>0. CASE UNCHANGED vars
    BY <1>0 DEF vars, tables, TypeOK
  <1>1. CASE Tick
    BY <1>1 DEF Tick, tables, TypeOK
  <1>2. ASSUME NEW r \in Requests, ReadUser(r) PROVE TypeOK'
    <2>1. PICK u \in Users : Goto(r, [pc |-> "sign", user |-> u, grant |-> GrantOf(u)])
      BY <1>2 DEF ReadUser
    <2>2. [pc |-> "sign", user |-> u, grant |-> GrantOf(u)] \in Request
      BY GrantType DEF Request
    <2> QED
      BY <1>2, <2>1, <2>2, GotoType DEF ReadUser, tables, TypeOK
  <1>3. ASSUME NEW r \in Requests, Sign(r) PROVE TypeOK'
    <2> DEFINE late == req[r].grant # GrantOf(req[r].user)
    <2>1. req[r].user \in Users /\ req[r].grant \in Grant /\ now \in Nat /\ late \in BOOLEAN
      BY <1>3, Shape DEF Sign, TypeOK
    <2>2. tokens' = tokens \cup
            {[user |-> req[r].user, grant |-> req[r].grant, pat |-> now, late |-> late]}
      BY <1>3 DEF Sign
    <2> HIDE DEF late
    <2>3. tokens' \subseteq Token
      BY <2>1, <2>2 DEF Token, TypeOK
    <2> QED
      BY <1>3, <2>3, GotoType, NotifyingType DEF Sign, tables, TypeOK
  <1>4. ASSUME NEW r \in Requests, SetPrivileges(r) PROVE TypeOK'
    <2>1. PICK u \in Users, want \in Wanted, super \in BOOLEAN :
            /\ Goto(r, [pc |-> "findRoles", user |-> u, want |-> want, super |-> super])
            /\ Acting(super)
      BY <1>4 DEF SetPrivileges
    <2>2. [pc |-> "findRoles", user |-> u, want |-> want, super |-> super] \in Request
      BY DEF Request
    <2>3. req' \in [Requests -> Request]
      BY <2>1, <2>2, GotoType
    <2>4. past' \in [superActed : BOOLEAN, unmarked : SUBSET Users]
      BY <2>1, PastType
    <2> QED
      BY <1>4, <2>3, <2>4 DEF SetPrivileges, tables, TypeOK
  <1>5. ASSUME NEW r \in Requests, FindRoles(r) PROVE TypeOK'
    <2>1. [pc |-> "save", user |-> req[r].user, want |-> req[r].want] \in Request
      BY <1>5, Shape DEF FindRoles, Request
    <2> QED
      BY <1>5, <2>1, GotoType, NotifyingType DEF FindRoles, tables, TypeOK
  <1>6. ASSUME NEW r \in Requests, SavePrivileges(r) PROVE TypeOK'
    <2>1. req[r].user \in Users /\ req[r].want.roles \subseteq Roles /\ req[r].want.direct \subseteq Perms
      BY <1>6, Shape DEF SavePrivileges
    <2>2. req' \in [Requests -> Request]
      BY <1>6, <2>1, GotoType, NotifyingType DEF SavePrivileges
    <2> QED
      BY <1>6, <2>1, <2>2 DEF SavePrivileges, TypeOK
  <1>7. ASSUME NEW r \in Requests, SetRolePermissions(r) PROVE TypeOK'
    <2>1. PICK x \in roles, perms \in WantedPerms, super \in BOOLEAN :
            Goto(r, [pc |-> "saveRole", role |-> x, perms |-> perms]) /\ Acting(super)
      BY <1>7 DEF SetRolePermissions
    <2>2. [pc |-> "saveRole", role |-> x, perms |-> perms] \in Request
      BY DEF Request, TypeOK
    <2>3. req' \in [Requests -> Request]
      BY <2>1, <2>2, GotoType
    <2>4. past' \in [superActed : BOOLEAN, unmarked : SUBSET Users]
      BY <2>1, PastType
    <2> QED
      BY <1>7, <2>3, <2>4 DEF SetRolePermissions, tables, TypeOK
  <1>8. ASSUME NEW r \in Requests, SaveRole(r) PROVE TypeOK'
    <2>1. req[r].role \in Roles /\ req[r].perms \subseteq Perms
      BY <1>8, Shape DEF SaveRole
    <2>2. [pc |-> "findMembers", role |-> req[r].role] \in Request
      BY <2>1 DEF Request
    <2>3. req' \in [Requests -> Request]
      BY <1>8, <2>2, GotoType DEF SaveRole
    <2>4. member \in [Users -> SUBSET (roles \cup {req[r].role})]
      BY DEF TypeOK
    <2> QED
      BY <1>8, <2>1, <2>3, <2>4 DEF SaveRole, TypeOK
  <1>9. ASSUME NEW r \in Requests, FindMembers(r) PROVE TypeOK'
    <2>1. Members(req[r].role) \subseteq Users
      BY DEF Members
    <2> QED
      BY <1>9, <2>1, GotoType, NotifyingType DEF FindMembers, tables, TypeOK
  <1>10. ASSUME NEW r \in Requests, DeleteRole(r) PROVE TypeOK'
    <2>1. PICK x \in roles \ {Admin} : Goto(r, [pc |-> "drop", role |-> x, todo |-> Members(x)])
      BY <1>10 DEF DeleteRole
    <2>2. [pc |-> "drop", role |-> x, todo |-> Members(x)] \in Request
      BY DEF Request, Members, TypeOK
    <2> QED
      BY <1>10, <2>1, <2>2, GotoType DEF DeleteRole, tables, TypeOK
  <1>11. ASSUME NEW r \in Requests, DropRole(r) PROVE TypeOK'
    <2> DEFINE x == req[r].role
    <2>1. x \in Roles /\ req[r].todo \subseteq Users
      BY <1>11, Shape DEF DropRole
    <2>2. req' \in [Requests -> Request]
      BY <1>11, <2>1, GotoType, NotifyingType DEF DropRole
    <2>3. past' \in [superActed : BOOLEAN, unmarked : SUBSET Users]
      <3>1. Members(x) \ req[r].todo \in SUBSET Users
        BY DEF Members
      <3>2. Unmarked(Members(x) \ req[r].todo)
        BY <1>11 DEF DropRole
      <3> HIDE DEF x
      <3> QED
        BY <3>1, <3>2, PastType
    <2>4. member' \in [Users -> SUBSET roles']
      BY <1>11 DEF DropRole, LinksCut, TypeOK
    <2> QED
      BY <1>11, <2>1, <2>2, <2>3, <2>4 DEF DropRole, TypeOK
  <1>12. ASSUME NEW r \in Requests, Notify(r) PROVE TypeOK'
    <2>1. PICK u \in req[r].todo : /\ Goto(r, Notifying(req[r].todo \ {u}))
                                   /\ \/ mark' = Marked(u) /\ UNCHANGED past
                                      \/ Unmarked({u}) /\ UNCHANGED mark
      BY <1>12 DEF Notify
    <2>2. req[r].todo \subseteq Users
      BY <1>12, Shape DEF Notify
    <2>3. req' \in [Requests -> Request]
      BY <2>1, <2>2, GotoType, NotifyingType
    <2>4. mark' \in [Users -> Nat] /\ past' \in [superActed : BOOLEAN, unmarked : SUBSET Users]
      BY <2>1, <2>2, PastType DEF Marked, TypeOK
    <2> QED
      BY <1>12, <2>3, <2>4 DEF Notify, tables, TypeOK
  <1>13. ASSUME NEW r \in Requests, Abandon(r) PROVE TypeOK'
    <2>1. past' \in [superActed : BOOLEAN, unmarked : SUBSET Users]
      BY <1>13, OwedType, PastType DEF Abandon
    <2> QED
      BY <1>13, <2>1, GotoType, NotifyingType DEF Abandon, tables, TypeOK
  <1> QED
    BY <1>0, <1>1, <1>2, <1>3, <1>4, <1>5, <1>6, <1>7, <1>8, <1>9, <1>10, <1>11, <1>12, <1>13
       DEF Next, Step

\* Every variable keeps its type.
THEOREM TypeCorrect == Spec => []TypeOK
  BY InitTypeOK, TypeStep, PTL DEF Spec

-----------------------------------------------------------------------------
(* Nobody but a superuser makes a superuser *)

\* What was asked for makes a superuser when the roles grant g.
Gives(want, g) ==
  \/ Admin \in want.roles \/ All \in want.direct
  \/ \E x \in want.roles : All \in g[x]

\* No request of another administrator carries the rights of a superuser.
Harmless ==
  \A r \in Requests :
    /\ At(r, "findRoles") => ~req[r].super
    /\ At(r, "save") => ~Gives(req[r].want, granted)
    /\ At(r, "saveRole") => All \notin req[r].perms

NoneMade == \A u \in Users : Super(u) => SuperAtStart(u)

\* Inductive: until a superuser acts, the pending changes are harmless and no
\* user has become a superuser.
Guarded == ~past.superActed => Harmless /\ NoneMade

LEMMA SuperMeans ==
  ASSUME NEW u
  PROVE  Super(u) <=> \/ Admin \in member[u] \/ All \in direct[u]
                      \/ \E x \in member[u] : All \in granted[x]
  BY DEF Super, IsSuperGrant, GrantOf

LEMMA GrantsSuperMeans ==
  ASSUME NEW want
  PROVE  GrantsSuper(want) <=> Gives(want, granted)
  BY DEF GrantsSuper, IsSuperGrant, Gives

\* A step that adds "*" to no role keeps what is pending harmless.
LEMMA HarmlessKept ==
  ASSUME TypeOK, Harmless, NEW r \in Requests, NEW state, Goto(r, state),
         \A x : All \in granted'[x] => All \in granted[x],
         state.pc = "findRoles" => ~state.super,
         state.pc = "save" => ~Gives(state.want, granted),
         state.pc = "saveRole" => All \notin state.perms
  PROVE  Harmless'
  <1> SUFFICES ASSUME NEW q \in Requests
               PROVE  /\ req'[q].pc = "findRoles" => ~req'[q].super
                      /\ req'[q].pc = "save" => ~Gives(req'[q].want, granted')
                      /\ req'[q].pc = "saveRole" => All \notin req'[q].perms
    BY DEF Harmless, At
  <1>1. req'[r] = state /\ (q # r => req'[q] = req[q])
    BY DEF Goto, TypeOK
  <1>2. \A want : Gives(want, granted') => Gives(want, granted)
    BY DEF Gives
  <1>3. /\ req[q].pc = "findRoles" => ~req[q].super
        /\ req[q].pc = "save" => ~Gives(req[q].want, granted)
        /\ req[q].pc = "saveRole" => All \notin req[q].perms
    BY DEF Harmless, At
  <1>4. CASE q = r
    BY <1>1, <1>2, <1>4
  <1>5. CASE q # r
    BY <1>1, <1>2, <1>3, <1>5
  <1> QED
    BY <1>4, <1>5

\* A step that takes away rights only makes nobody a superuser.
LEMMA NoneMadeKept ==
  ASSUME NoneMade, NEW S \in SUBSET Users,
         \A u \in Users \ S : /\ member'[u] \subseteq member[u] /\ direct'[u] \subseteq direct[u]
                              /\ \A x \in member'[u] : All \in granted'[x] => All \in granted[x],
         \A u \in S : ~Super(u)'
  PROVE  NoneMade'
  <1> SUFFICES ASSUME NEW u \in Users \ S, Super(u)' PROVE Super(u)
    BY DEF NoneMade, SuperAtStart
  <1>1. \/ Admin \in member'[u] \/ All \in direct'[u]
        \/ \E x \in member'[u] : All \in granted'[x]
    BY DEF Super, IsSuperGrant, GrantOf
  <1> QED
    BY <1>1, SuperMeans

LEMMA NoneMadeByLess ==
  ASSUME NoneMade,
         \A u \in Users : /\ member'[u] \subseteq member[u] /\ direct'[u] \subseteq direct[u]
                          /\ \A x \in member'[u] : All \in granted'[x] => All \in granted[x]
  PROVE  NoneMade'
  <1>1. {} \in SUBSET Users /\ Users \ {} = Users
    OBVIOUS
  <1> QED
    BY <1>1, NoneMadeKept

LEMMA GuardedStep == TypeOK /\ Guarded /\ [Next]_vars => Guarded'
  <1> SUFFICES ASSUME TypeOK, Guarded, [Next]_vars, ~past'.superActed
               PROVE  Harmless' /\ NoneMade'
    BY DEF Guarded
  <1> USE PrivilegesAssumption
  <1>a. ASSUME NEW super \in BOOLEAN, Acting(super) PROVE ~super /\ ~past.superActed
    BY <1>a DEF Acting, TypeOK
  <1>b. ASSUME NEW S, Unmarked(S) PROVE ~past.superActed
    BY <1>b DEF Unmarked, TypeOK
  <1>c. ASSUME ~past.superActed PROVE Harmless /\ NoneMade
    BY <1>c DEF Guarded
  <1>d. ASSUME Harmless, NoneMade, UNCHANGED tables, NEW r \in Requests, NEW state, Goto(r, state),
               state.pc \notin {"findRoles", "save", "saveRole"}
        PROVE  Harmless' /\ NoneMade'
    <2>1. Harmless'
      BY <1>d, HarmlessKept DEF tables
    <2>2. NoneMade'
      BY <1>d, NoneMadeByLess DEF tables
    <2> QED
      BY <2>1, <2>2
  <1>e. Done.pc = "done" /\ \A S : Notifying(S).pc \in {"done", "notify"}
    BY DEF Done, Notifying
  <1>0. CASE UNCHANGED vars
    BY <1>0, <1>c DEF vars, tables, Harmless, At, NoneMade, SuperAtStart, Super, GrantOf, IsSuperGrant
  <1>1. CASE Tick
    BY <1>1, <1>c DEF Tick, tables, Harmless, At, NoneMade, SuperAtStart, Super, GrantOf, IsSuperGrant
  <1>2. ASSUME NEW r \in Requests, ReadUser(r) PROVE Harmless' /\ NoneMade'
    <2>1. PICK u \in Users : Goto(r, [pc |-> "sign", user |-> u, grant |-> GrantOf(u)])
      BY <1>2 DEF ReadUser
    <2> QED
      BY <1>2, <2>1, <1>c, <1>d DEF ReadUser
  <1>3. ASSUME NEW r \in Requests, Sign(r) PROVE Harmless' /\ NoneMade'
    BY <1>3, <1>c, <1>d, <1>e DEF Sign
  <1>4. ASSUME NEW r \in Requests, SetPrivileges(r) PROVE Harmless' /\ NoneMade'
    <2>1. PICK u \in Users, want \in Wanted, super \in BOOLEAN :
            /\ Goto(r, [pc |-> "findRoles", user |-> u, want |-> want, super |-> super])
            /\ Acting(super)
      BY <1>4 DEF SetPrivileges
    <2>2. ~super /\ Harmless /\ NoneMade
      BY <2>1, <1>a, <1>c
    <2>3. UNCHANGED tables
      BY <1>4 DEF SetPrivileges
    <2>4. Harmless'
      BY <2>1, <2>2, <2>3, HarmlessKept DEF tables
    <2>5. NoneMade'
      BY <2>2, <2>3, NoneMadeByLess DEF tables
    <2> QED
      BY <2>4, <2>5
  <1>5. ASSUME NEW r \in Requests, FindRoles(r) PROVE Harmless' /\ NoneMade'
    <2> DEFINE want == req[r].want
               state == [pc |-> "save", user |-> req[r].user, want |-> want]
    <2>1. Harmless /\ NoneMade /\ UNCHANGED tables
      BY <1>5, <1>c DEF FindRoles
    <2>2. CASE Goto(r, Done)
      BY <2>1, <2>2, <1>d, <1>e
    <2>3. CASE ~GrantsSuper(want) /\ Goto(r, state)
      <3>1. ~Gives(want, granted)
        BY <2>3, GrantsSuperMeans
      <3>2. state.pc = "save" /\ state.want = want
        OBVIOUS
      <3> HIDE DEF state
      <3>3. Harmless'
        BY <2>1, <2>3, <3>1, <3>2, HarmlessKept DEF tables
      <3>4. NoneMade'
        BY <2>1, NoneMadeByLess DEF tables
      <3> QED
        BY <3>3, <3>4
    <2> QED
      BY <1>5, <2>1, <2>2, <2>3 DEF FindRoles, Harmless
  <1>6. ASSUME NEW r \in Requests, SavePrivileges(r) PROVE Harmless' /\ NoneMade'
    <2> DEFINE u == req[r].user
               want == req[r].want
    <2>1. Harmless /\ NoneMade /\ u \in Users /\ granted' = granted
      BY <1>6, <1>c, Shape DEF SavePrivileges
    <2>2. Harmless'
      BY <1>6, <2>1, <1>e, HarmlessKept DEF SavePrivileges
    <2>3. CASE member' = [member EXCEPT ![u] = want.roles] /\ direct' = [direct EXCEPT ![u] = want.direct]
      <3>1. ~Gives(want, granted)
        BY <1>6, <2>1 DEF SavePrivileges, Harmless
      <3>2. member'[u] = want.roles /\ direct'[u] = want.direct
        BY <2>1, <2>3 DEF TypeOK
      <3>3. \A v \in Users \ {u} : member'[v] = member[v] /\ direct'[v] = direct[v]
        BY <2>3 DEF TypeOK
      <3>4. ASSUME NEW v, v = u PROVE ~Super(v)'
        BY <2>1, <3>1, <3>2, <3>4 DEF Gives, Super, IsSuperGrant, GrantOf
      <3>5. {u} \in SUBSET Users /\ \A v \in {u} : ~Super(v)'
        BY <2>1, <3>4
      <3> HIDE DEF u, want
      <3>6. NoneMade'
        BY <2>1, <3>3, <3>5, NoneMadeKept
      <3> QED
        BY <2>2, <3>6
    <2>4. CASE UNCHANGED <<member, direct>>
      BY <2>1, <2>2, <2>4, NoneMadeByLess
    <2> QED
      BY <1>6, <2>3, <2>4 DEF SavePrivileges
  <1>7. ASSUME NEW r \in Requests, SetRolePermissions(r) PROVE Harmless' /\ NoneMade'
    <2>1. PICK x \in roles, perms \in WantedPerms, super \in BOOLEAN :
            /\ MaySet(super, x, perms) /\ Acting(super)
            /\ Goto(r, [pc |-> "saveRole", role |-> x, perms |-> perms])
      BY <1>7 DEF SetRolePermissions
    <2>2. All \notin perms /\ Harmless /\ NoneMade /\ UNCHANGED tables
      BY <1>7, <2>1, <1>a, <1>c DEF SetRolePermissions, MaySet
    <2>3. Harmless'
      BY <2>1, <2>2, HarmlessKept DEF tables
    <2>4. NoneMade'
      BY <2>2, NoneMadeByLess DEF tables
    <2> QED
      BY <2>3, <2>4
  <1>8. ASSUME NEW r \in Requests, SaveRole(r) PROVE Harmless' /\ NoneMade'
    <2>1. Harmless /\ NoneMade /\ UNCHANGED <<member, direct>>
      BY <1>8, <1>c DEF SaveRole
    <2>2. All \notin req[r].perms
      BY <1>8, <2>1 DEF SaveRole, Harmless
    <2>3. \A x : All \in granted'[x] => All \in granted[x]
      BY <1>8, <2>2, Shape DEF SaveRole, TypeOK
    <2>4. Goto(r, [pc |-> "findMembers", role |-> req[r].role])
      BY <1>8 DEF SaveRole
    <2>5. Harmless'
      BY <2>1, <2>3, <2>4, HarmlessKept
    <2>6. NoneMade'
      BY <2>1, <2>3, NoneMadeByLess
    <2> QED
      BY <2>5, <2>6
  <1>9. ASSUME NEW r \in Requests, FindMembers(r) PROVE Harmless' /\ NoneMade'
    BY <1>9, <1>c, <1>d, <1>e DEF FindMembers
  <1>10. ASSUME NEW r \in Requests, DeleteRole(r) PROVE Harmless' /\ NoneMade'
    <2>1. PICK x \in roles \ {Admin} : Goto(r, [pc |-> "drop", role |-> x, todo |-> Members(x)])
      BY <1>10 DEF DeleteRole
    <2> QED
      BY <1>10, <2>1, <1>c, <1>d DEF DeleteRole
  <1>11. ASSUME NEW r \in Requests, DropRole(r) PROVE Harmless' /\ NoneMade'
    <2> DEFINE x == req[r].role
    <2>1. Unmarked(Members(x) \ req[r].todo)
      BY <1>11 DEF DropRole
    <2>2. Harmless /\ NoneMade
      BY <2>1, <1>b, <1>c
    <2>3. \A y : All \in granted'[y] => All \in granted[y]
      BY <1>11, Shape DEF DropRole, TypeOK
    <2>4. Harmless'
      BY <1>11, <2>2, <2>3, <1>e, HarmlessKept DEF DropRole
    <2>5. \A u \in Users : member'[u] \subseteq member[u] /\ direct'[u] = direct[u]
      BY <1>11 DEF DropRole, LinksCut
    <2>6. NoneMade'
      BY <2>2, <2>3, <2>5, NoneMadeByLess
    <2> QED
      BY <2>4, <2>6
  <1>12. ASSUME NEW r \in Requests, Notify(r) PROVE Harmless' /\ NoneMade'
    <2>1. PICK u \in req[r].todo : /\ Goto(r, Notifying(req[r].todo \ {u}))
                                   /\ \/ UNCHANGED past
                                      \/ Unmarked({u})
      BY <1>12 DEF Notify
    <2>2. Harmless /\ NoneMade
      BY <2>1, <1>b, <1>c
    <2> QED
      BY <1>12, <2>1, <2>2, <1>d, <1>e DEF Notify
  <1>13. ASSUME NEW r \in Requests, Abandon(r) PROVE Harmless' /\ NoneMade'
    BY <1>13, <1>b, <1>c, <1>d, <1>e DEF Abandon
  <1> QED
    BY <1>0, <1>1, <1>2, <1>3, <1>4, <1>5, <1>6, <1>7, <1>8, <1>9, <1>10, <1>11, <1>12, <1>13
       DEF Next, Step

LEMMA InitGuarded == Init => Guarded
  BY PrivilegesAssumption
     DEF Init, New, Guarded, Harmless, At, NoneMade, Super, SuperAtStart, GrantOf, IsSuperGrant

\* No sequence of concurrent changes by administrators who are not superusers makes
\* a superuser.
THEOREM NoSuperuserByOthersHolds == Spec => []NoSuperuserByOthers
  <1>1. Guarded => NoSuperuserByOthers
    BY DEF Guarded, NoneMade, NoSuperuserByOthers
  <1> QED
    BY <1>1, InitTypeOK, TypeStep, InitGuarded, GuardedStep, PTL DEF Spec

-----------------------------------------------------------------------------
(* Who has outdated rights *)

\* Somebody still has to mark the user, or nobody will.
Excused(u) == u \in past.unmarked \/ \E r \in Requests : u \in Owed(r)

\* Inductive: an accepted token with outdated rights, signed from current ones, has
\* a holder who is still to be marked.
Followed ==
  \A t \in tokens :
    /\ t.pat <= now
    /\ Accepted(t) /\ Outdated(t) /\ ~t.late => Excused(t.user)

LEMMA OwedShape ==
  ASSUME NEW r \in Requests
  PROVE  /\ At(r, "notify") => Owed(r) = req[r].todo
         /\ At(r, "findMembers") => Owed(r) = Members(req[r].role)
         /\ ~At(r, "notify") /\ ~At(r, "findMembers") => Owed(r) = {}
         /\ req'[r].pc = "notify" => Owed(r)' = req'[r].todo
         /\ req'[r].pc = "findMembers" => Owed(r)' = {u \in Users : req'[r].role \in member'[u]}
  BY DEF Owed, At, Members

LEMMA NotifyingShape ==
  ASSUME NEW S
  PROVE  /\ S # {} => Notifying(S).pc = "notify" /\ Notifying(S).todo = S
         /\ S = {} => Notifying(S).pc = "done"
  BY DEF Notifying, Done

\* A request that goes on to mark S owes S.
LEMMA GotoNotifying ==
  ASSUME TypeOK, NEW r \in Requests, NEW S, Goto(r, Notifying(S)), NEW u \in S
  PROVE  u \in Owed(r)'
  <1>1. req'[r] = Notifying(S)
    BY DEF Goto, TypeOK
  <1> QED
    BY <1>1, NotifyingShape, OwedShape

\* What the others owe does not change while the members stay.
LEMMA OthersOwe ==
  ASSUME TypeOK, NEW r \in Requests, NEW state, Goto(r, state),
         NEW q \in Requests, q # r, NEW u \in Owed(q),
         \A x : x \in member[u] => x \in member'[u]
  PROVE  u \in Owed(q)'
  <1>1. req'[q] = req[q]
    BY DEF Goto, TypeOK
  <1>2. CASE At(q, "notify")
    BY <1>1, <1>2, OwedShape DEF At
  <1>3. CASE At(q, "findMembers")
    <2>1. u \in Users /\ req[q].role \in member[u]
      BY <1>3, OwedShape DEF Members
    <2> QED
      BY <1>1, <1>3, <2>1, OwedShape DEF At
  <1> QED
    BY <1>2, <1>3, OwedShape

\* A step that signs and marks nothing follows every token as long as each user is
\* excused after it, or keeps his rights and his excuse.
LEMMA FollowedKept ==
  ASSUME TypeOK, Followed, UNCHANGED <<now, mark, tokens>>,
         \A u \in Users : \/ Excused(u)'
                          \/ GrantOf(u)' = GrantOf(u) /\ ~Excused(u)
  PROVE  Followed'
  <1> SUFFICES ASSUME NEW t \in tokens
               PROVE  t.pat <= now /\ (Accepted(t)' /\ Outdated(t)' /\ ~t.late => Excused(t.user)')
    BY DEF Followed
  <1>1. t.user \in Users
    BY DEF TypeOK, Token
  <1>2. Accepted(t)' = Accepted(t)
    BY DEF Accepted
  <1>3. GrantOf(t.user)' = GrantOf(t.user) => (Outdated(t)' <=> Outdated(t))
    BY DEF Outdated
  <1> QED
    BY <1>1, <1>2, <1>3 DEF Followed

\* The same when rights stay and request r, which owes nobody, goes on.
LEMMA FollowedIdle ==
  ASSUME TypeOK, Followed, UNCHANGED <<now, mark, tokens, tables>>,
         past'.unmarked = past.unmarked,
         NEW r \in Requests, NEW state, Goto(r, state), Owed(r) = {}
  PROVE  Followed'
  <1> SUFFICES ASSUME NEW u \in Users
               PROVE  Excused(u)' \/ (GrantOf(u)' = GrantOf(u) /\ ~Excused(u))
    BY FollowedKept
  <1>1. GrantOf(u)' = GrantOf(u)
    BY DEF GrantOf, tables
  <1>2. ASSUME Excused(u) PROVE Excused(u)'
    <2>1. CASE u \in past.unmarked
      BY <2>1 DEF Excused
    <2>2. CASE \E q \in Requests : u \in Owed(q)
      <3>1. PICK q \in Requests : u \in Owed(q)
        BY <2>2
      <3>2. u \in Owed(q)'
        BY <3>1, OthersOwe DEF tables
      <3> QED
        BY <3>2 DEF Excused
    <2> QED
      BY <1>2, <2>1, <2>2 DEF Excused
  <1> QED
    BY <1>1, <1>2

\* An excuse lasts when those request r had to mark are still to be marked, or given up.
LEMMA ExcuseKept ==
  ASSUME TypeOK, NEW r \in Requests, NEW state, Goto(r, state), NEW u, Excused(u),
         past.unmarked \subseteq past'.unmarked,
         \A x : x \in member[u] => x \in member'[u],
         u \in Owed(r) => Excused(u)'
  PROVE  Excused(u)'
  <1>1. CASE u \in past.unmarked
    BY <1>1 DEF Excused
  <1>2. CASE \E q \in Requests : u \in Owed(q)
    <2>1. PICK q \in Requests : u \in Owed(q)
      BY <1>2
    <2>2. CASE q # r
      <3>1. u \in Owed(q)'
        BY <2>1, <2>2, OthersOwe
      <3> QED
        BY <3>1 DEF Excused
    <2> QED
      BY <2>1, <2>2
  <1> QED
    BY <1>1, <1>2 DEF Excused

LEMMA SameRights ==
  ASSUME NEW u, member'[u] = member[u], direct'[u] = direct[u],
         \A x \in member[u] : granted'[x] = granted[x]
  PROVE  GrantOf(u)' = GrantOf(u)
  <1>1. {granted'[x] : x \in member[u]} = {granted[x] : x \in member[u]}
    OBVIOUS
  <1> QED
    BY <1>1 DEF GrantOf

LEMMA SaveFollowed ==
  ASSUME TypeOK, Followed, NEW r \in Requests, SavePrivileges(r)
  PROVE  Followed'
  <1> DEFINE who == req[r].user
             want == req[r].want
  <1>1. Owed(r) = {} /\ who \in Users /\ past' = past
    BY OwedShape, Shape DEF SavePrivileges, At
  <1>2. CASE Goto(r, Done) /\ UNCHANGED <<member, direct>>
    BY <1>1, <1>2, FollowedIdle DEF SavePrivileges, tables
  <1>3. CASE /\ member' = [member EXCEPT ![who] = want.roles]
             /\ direct' = [direct EXCEPT ![who] = want.direct]
             /\ Goto(r, Notifying({who}))
    <2> SUFFICES ASSUME NEW u \in Users
                 PROVE  Excused(u)' \/ (GrantOf(u)' = GrantOf(u) /\ ~Excused(u))
      BY FollowedKept DEF SavePrivileges
    <2>1. CASE u = who
      BY <1>3, <2>1, GotoNotifying DEF Excused
    <2>2. CASE u # who
      <3>1. member'[u] = member[u] /\ direct'[u] = direct[u] /\ granted' = granted
        BY <1>3, <2>2 DEF SavePrivileges, TypeOK
      <3>2. GrantOf(u)' = GrantOf(u)
        BY <3>1, SameRights
      <3>3. Excused(u) => Excused(u)'
        BY <1>1, <1>3, <3>1, ExcuseKept
      <3> QED
        BY <3>2, <3>3
    <2> QED
      BY <2>1, <2>2
  <1> QED
    BY <1>2, <1>3 DEF SavePrivileges

LEMMA SaveRoleFollowed ==
  ASSUME TypeOK, Followed, NEW r \in Requests, SaveRole(r)
  PROVE  Followed'
  <1> DEFINE x == req[r].role
  <1>1. Owed(r) = {} /\ x \in Roles /\ UNCHANGED <<member, direct, past>>
    BY OwedShape, Shape DEF SaveRole, At
  <1>2. Goto(r, [pc |-> "findMembers", role |-> x])
    BY DEF SaveRole
  <1> SUFFICES ASSUME NEW u \in Users
               PROVE  Excused(u)' \/ (GrantOf(u)' = GrantOf(u) /\ ~Excused(u))
    BY FollowedKept DEF SaveRole
  <1>3. CASE x \in member[u]
    <2>1. req'[r] = [pc |-> "findMembers", role |-> x]
      BY <1>2 DEF Goto, TypeOK
    <2>2. u \in Owed(r)'
      BY <1>1, <1>3, <2>1, OwedShape
    <2> QED
      BY <2>2 DEF Excused
  <1>4. CASE x \notin member[u]
    <2>1. \A y \in member[u] : granted'[y] = granted[y]
      BY <1>4 DEF SaveRole, TypeOK
    <2>2. GrantOf(u)' = GrantOf(u)
      BY <1>1, <2>1, SameRights
    <2>3. Excused(u) => Excused(u)'
      BY <1>1, <1>2, ExcuseKept
    <2> QED
      BY <2>2, <2>3
  <1> QED
    BY <1>3, <1>4

LEMMA FindMembersFollowed ==
  ASSUME TypeOK, Followed, NEW r \in Requests, FindMembers(r)
  PROVE  Followed'
  <1>1. Goto(r, Notifying(Members(req[r].role))) /\ Owed(r) = Members(req[r].role)
    BY OwedShape DEF FindMembers
  <1>2. UNCHANGED <<member, direct, granted, past>>
    BY DEF FindMembers, tables
  <1> SUFFICES ASSUME NEW u \in Users
               PROVE  Excused(u)' \/ (GrantOf(u)' = GrantOf(u) /\ ~Excused(u))
    BY FollowedKept DEF FindMembers
  <1>3. GrantOf(u)' = GrantOf(u)
    BY <1>2, SameRights
  <1>4. u \in Owed(r) => Excused(u)'
    BY <1>1, GotoNotifying DEF Excused
  <1>5. Excused(u) => Excused(u)'
    BY <1>1, <1>2, <1>4, ExcuseKept
  <1> QED
    BY <1>3, <1>5

LEMMA DropFollowed ==
  ASSUME TypeOK, Followed, NEW r \in Requests, DropRole(r)
  PROVE  Followed'
  <1> DEFINE x == req[r].role
             left == req[r].todo
  <1>1. Owed(r) = {} /\ Goto(r, Notifying(left)) /\ Unmarked(Members(x) \ left)
    BY OwedShape DEF DropRole, At
  <1>2. past'.unmarked = past.unmarked \cup (Members(x) \ left)
    BY <1>1 DEF Unmarked, TypeOK
  <1> SUFFICES ASSUME NEW u \in Users
               PROVE  Excused(u)' \/ (GrantOf(u)' = GrantOf(u) /\ ~Excused(u))
    BY FollowedKept DEF DropRole
  <1>3. CASE u \in Members(x)
    <2>1. CASE u \in left
      BY <1>1, <2>1, GotoNotifying DEF Excused
    <2>2. CASE u \notin left
      BY <1>2, <1>3, <2>2 DEF Excused
    <2> QED
      BY <2>1, <2>2
  <1>4. CASE u \notin Members(x)
    <2>1. member'[u] = member[u] /\ direct'[u] = direct[u] /\ x \notin member[u]
      BY <1>4 DEF DropRole, LinksCut, Members
    <2>2. \A y \in member[u] : granted'[y] = granted[y]
      BY <2>1 DEF DropRole, TypeOK
    <2>3. GrantOf(u)' = GrantOf(u)
      BY <2>1, <2>2, SameRights
    <2>4. Excused(u) => Excused(u)'
      BY <1>1, <1>2, <2>1, ExcuseKept
    <2> QED
      BY <2>3, <2>4
  <1> QED
    BY <1>3, <1>4

LEMMA NotifyFollowed ==
  ASSUME TypeOK, Followed, NEW r \in Requests, Notify(r)
  PROVE  Followed'
  <1>1. PICK u \in req[r].todo : /\ Goto(r, Notifying(req[r].todo \ {u}))
                                 /\ \/ mark' = Marked(u) /\ UNCHANGED past
                                    \/ Unmarked({u}) /\ UNCHANGED mark
    BY DEF Notify
  <1>2. Owed(r) = req[r].todo /\ u \in Users /\ UNCHANGED <<now, tokens, member, direct, granted>>
    BY OwedShape, Shape DEF Notify, tables
  <1>3. past.unmarked \subseteq past'.unmarked
    BY <1>1 DEF Unmarked, TypeOK
  <1>4. ASSUME NEW v \in Users, v # u, Excused(v) PROVE Excused(v)'
    <2>1. v \in Owed(r) => Excused(v)'
      BY <1>1, <1>2, <1>4, GotoNotifying DEF Excused
    <2> QED
      BY <1>1, <1>2, <1>3, <1>4, <2>1, ExcuseKept
  <1>5. \A v \in Users : GrantOf(v)' = GrantOf(v)
    BY <1>2, SameRights
  <1>6. CASE Unmarked({u}) /\ UNCHANGED mark
    <2>1. Excused(u)'
      BY <1>6 DEF Unmarked, Excused, TypeOK
    <2> QED
      BY <1>2, <1>4, <1>5, <1>6, <2>1, FollowedKept
  <1>7. CASE mark' = Marked(u)
    <2> SUFFICES ASSUME NEW t \in tokens
                 PROVE  t.pat <= now /\ (Accepted(t)' /\ Outdated(t)' /\ ~t.late => Excused(t.user)')
      BY <1>2 DEF Followed
    <2>1. t.user \in Users /\ t.pat \in Nat /\ now \in Nat /\ t.pat <= now
      BY DEF TypeOK, Token, Followed
    <2>2. CASE t.user = u
      <3>1. mark'[t.user] = now
        BY <1>2, <1>7, <2>2 DEF Marked, TypeOK
      <3> QED
        BY <2>1, <3>1 DEF Accepted
    <2>3. CASE t.user # u
      <3>1. mark'[t.user] = mark[t.user]
        BY <1>7, <2>1, <2>3 DEF Marked, TypeOK
      <3>2. (Accepted(t)' <=> Accepted(t)) /\ (Outdated(t)' <=> Outdated(t))
        BY <1>5, <2>1, <3>1 DEF Accepted, Outdated
      <3> QED
        BY <1>4, <2>1, <2>3, <3>2 DEF Followed
    <2> QED
      BY <2>2, <2>3
  <1> QED
    BY <1>1, <1>6, <1>7

LEMMA AbandonFollowed ==
  ASSUME TypeOK, Followed, NEW r \in Requests, Abandon(r)
  PROVE  Followed'
  <1>1. past'.unmarked = past.unmarked \cup Owed(r)
    BY DEF Abandon, Unmarked, TypeOK
  <1>2. Goto(r, Done) /\ UNCHANGED <<member, direct, granted>>
    BY DEF Abandon, tables
  <1> SUFFICES ASSUME NEW u \in Users
               PROVE  Excused(u)' \/ (GrantOf(u)' = GrantOf(u) /\ ~Excused(u))
    BY FollowedKept DEF Abandon
  <1>3. GrantOf(u)' = GrantOf(u)
    BY <1>2, SameRights
  <1>4. u \in Owed(r) => Excused(u)'
    BY <1>1 DEF Excused
  <1>5. Excused(u) => Excused(u)'
    BY <1>1, <1>2, <1>4, ExcuseKept
  <1> QED
    BY <1>3, <1>5

LEMMA SignFollowed ==
  ASSUME TypeOK, Followed, NEW r \in Requests, Sign(r)
  PROVE  Followed'
  <1> DEFINE late == req[r].grant # GrantOf(req[r].user)
             new == [user |-> req[r].user, grant |-> req[r].grant, pat |-> now, late |-> late]
  <1>1. tokens' = tokens \cup {new} /\ UNCHANGED <<now, mark, member, direct, granted, past>>
    BY DEF Sign, tables
  <1>2. now \in Nat /\ Owed(r) = {} /\ Goto(r, Done)
    BY OwedShape DEF Sign, TypeOK, At
  <1>3. \A u : GrantOf(u)' = GrantOf(u)
    BY <1>1, SameRights
  <1>4. \A u : Excused(u) => Excused(u)'
    BY <1>1, <1>2, ExcuseKept
  <1> SUFFICES ASSUME NEW t \in tokens'
               PROVE  t.pat <= now /\ (Accepted(t)' /\ Outdated(t)' /\ ~t.late => Excused(t.user)')
    BY <1>1 DEF Followed
  <1>5. (Accepted(t)' <=> Accepted(t)) /\ (Outdated(t)' <=> Outdated(t))
    BY <1>1, <1>3 DEF Accepted, Outdated
  <1>6. CASE t \in tokens
    BY <1>4, <1>5, <1>6 DEF Followed
  <1>7. CASE t = new
    <2>1. late <=> req[r].grant # GrantOf(req[r].user)
      OBVIOUS
    <2> HIDE DEF late
    <2>2. t.user = req[r].user /\ t.grant = req[r].grant /\ t.pat = now /\ t.late = late
      BY <1>7
    <2>3. Outdated(t) => t.late
      BY <2>1, <2>2 DEF Outdated
    <2> QED
      BY <1>2, <1>5, <2>2, <2>3
  <1> QED
    BY <1>1, <1>6, <1>7

LEMMA FollowedStep == TypeOK /\ Followed /\ [Next]_vars => Followed'
  <1> SUFFICES ASSUME TypeOK, Followed, [Next]_vars PROVE Followed'
    OBVIOUS
  <1>0. ASSUME UNCHANGED <<tables, mark, tokens, req, past>>, now' \in Nat, now <= now' PROVE Followed'
    <2> SUFFICES ASSUME NEW t \in tokens
                 PROVE  t.pat <= now' /\ (Accepted(t)' /\ Outdated(t)' /\ ~t.late => Excused(t.user)')
      BY <1>0 DEF Followed
    <2>1. \A u : GrantOf(u)' = GrantOf(u)
      BY <1>0, SameRights DEF tables
    <2>2. (Accepted(t)' <=> Accepted(t)) /\ (Outdated(t)' <=> Outdated(t))
      BY <1>0, <2>1 DEF Accepted, Outdated
    <2>3. Excused(t.user)' <=> Excused(t.user)
      BY <1>0 DEF tables, Excused, Owed, At, Members
    <2>4. t.pat \in Nat /\ now \in Nat /\ t.pat <= now
      BY DEF TypeOK, Token, Followed
    <2>5. t.pat <= now'
      BY <1>0, <2>4
    <2> QED
      BY <2>2, <2>3, <2>5 DEF Followed
  <1>1. CASE UNCHANGED vars
    BY <1>0, <1>1 DEF vars, TypeOK
  <1>2. CASE Tick
    BY <1>0, <1>2 DEF Tick, TypeOK
  <1>3. ASSUME NEW r \in Requests, ReadUser(r) PROVE Followed'
    BY <1>3, OwedShape, FollowedIdle DEF ReadUser, At
  <1>4. ASSUME NEW r \in Requests, SetPrivileges(r) PROVE Followed'
    <2>1. PICK u \in Users, want \in Wanted, super \in BOOLEAN :
            /\ Goto(r, [pc |-> "findRoles", user |-> u, want |-> want, super |-> super])
            /\ Acting(super)
      BY <1>4 DEF SetPrivileges
    <2>2. past'.unmarked = past.unmarked /\ Owed(r) = {}
      BY <1>4, <2>1, OwedShape DEF SetPrivileges, Acting, TypeOK, At
    <2> QED
      BY <1>4, <2>1, <2>2, FollowedIdle DEF SetPrivileges
  <1>5. ASSUME NEW r \in Requests, FindRoles(r) PROVE Followed'
    BY <1>5, OwedShape, FollowedIdle DEF FindRoles, At
  <1>6. ASSUME NEW r \in Requests, SetRolePermissions(r) PROVE Followed'
    <2>1. PICK x \in roles, perms \in WantedPerms, super \in BOOLEAN :
            Goto(r, [pc |-> "saveRole", role |-> x, perms |-> perms]) /\ Acting(super)
      BY <1>6 DEF SetRolePermissions
    <2>2. past'.unmarked = past.unmarked /\ Owed(r) = {}
      BY <1>6, <2>1, OwedShape DEF SetRolePermissions, Acting, TypeOK, At
    <2> QED
      BY <1>6, <2>1, <2>2, FollowedIdle DEF SetRolePermissions
  <1>7. ASSUME NEW r \in Requests, DeleteRole(r) PROVE Followed'
    BY <1>7, OwedShape, FollowedIdle DEF DeleteRole, At
  <1> QED
    BY <1>1, <1>2, <1>3, <1>4, <1>5, <1>6, <1>7, SignFollowed, SaveFollowed, SaveRoleFollowed,
       FindMembersFollowed, DropFollowed, NotifyFollowed, AbandonFollowed DEF Next, Step

\* Once nobody is left to be marked, an accepted token with outdated rights is one
\* whose rights changed between the read of the user and the signature, or whose
\* holder's notification was lost.
THEOREM OutdatedWereInFlightHolds == Spec => []OutdatedWereInFlight
  <1>1. Init => Followed
    BY DEF Init, Followed
  <1>2. TypeOK /\ Followed => OutdatedWereInFlight
    <2> SUFFICES ASSUME TypeOK, Followed, Settled, NEW t \in tokens, Accepted(t), Outdated(t),
                        t.user \notin past.unmarked, ~t.late
                 PROVE  FALSE
      BY DEF OutdatedWereInFlight, TypeOK, Token
    <2> QED
      BY DEF Followed, Excused, Settled
  <1> QED
    BY <1>1, <1>2, InitTypeOK, TypeStep, FollowedStep, PTL DEF Spec
=============================================================================
