-------------------------------- MODULE Accounts --------------------------------
(***************************************************************************)
(* One user: the role column, the rows of user_roles the authorization      *)
(* service reads (services/authorization_service.py) and the tenant. Six    *)
(* places write them: registration, the administrator portal, invitations,  *)
(* platform-heal and the bootstrap, ensure-admin, and the dependency that   *)
(* gives an administrator without a tenant one (core/dependencies.py).      *)
(*                                                                          *)
(* A request reads the user and commits the columns it changed: one set to  *)
(* the value it was read with is not written.                               *)
(***************************************************************************)
EXTENDS Naturals

CONSTANTS Threads, MaxTenants   \* MaxTenants bounds the tenants made

VARIABLES user,      \* users: [role, tenant]; role "none" for no row, tenant 0 for NULL
          grants,    \* user_roles: names of the roles
          tenants,   \* the number of tenants made; they are numbered
          request,   \* thread -> what it has read of the user, and what it will do
          met,       \* history: two requests about the user overlapped
          moved      \* history: tenants the user was moved away from

accountVars == <<user, grants, tenants, request, met, moved>>

Roles  == {"user", "enterprise_admin"}    \* the other roles rank between these
Admins == {"enterprise_admin", "admin"}   \* ADMIN_ROLES; admin is not seeded: ensure-admin writes it to the column

NoUser == [role |-> "none", tenant |-> 0]
Idle   == [does |-> "nothing", role |-> "none", was |-> NoUser, seen |-> {}]

Account == [role : Roles \union {"none", "admin"}, tenant : 0..MaxTenants]

TypeOK ==
  /\ user \in Account /\ grants \subseteq Roles /\ tenants \in 0..MaxTenants
  /\ request \in [Threads -> [does : {"nothing", "register", "update", "invite", "heal", "provide"},
                              role : Roles \union {"none"}, was : Account, seen : SUBSET Roles]]
  /\ met \in BOOLEAN /\ moved \subseteq 0..MaxTenants

\* The tenant an invitation or an administrator may name is there.
Init ==
  /\ user = NoUser /\ grants = {} /\ tenants = 1 /\ request = [t \in Threads |-> Idle]
  /\ met = FALSE /\ moved = {}

IsAdmin == grants \intersect Admins # {}
Exists  == user.role # "none"

---------------------------------------------------------------------------

\* Who may do what, decided on what the request reads; the administrator portal and an invitation
\* are used by someone else.
Reads(t, does, r) ==
  /\ request[t] = Idle
  /\ CASE does = "register" -> ~Exists /\ r = "user"
       [] does = "update"   -> Exists
       [] does = "invite"   -> TRUE
       [] does = "heal"     -> (~Exists \/ user.role \in Admins) /\ r = "enterprise_admin"
       [] does = "provide"  -> Exists /\ user.tenant = 0 /\ (user.role \in Admins \/ IsAdmin) /\ r = "none"
  /\ request' = [request EXCEPT ![t] = [does |-> does, role |-> r, was |-> user, seen |-> grants]]
  /\ UNCHANGED <<user, grants, tenants, met, moved>>

\* The request ends; if it wrote while another had read, they met.
Ends(t) ==
  /\ request' = [request EXCEPT ![t] = Idle]
  /\ met' = (met \/ \E u \in Threads \ {t} : request[u] # Idle)

Written(old, new, current) == IF new = old THEN current ELSE new

NewTenant == tenants < MaxTenants /\ tenants' = tenants + 1

\* register: the row and its tenant, without a grant. The e-mail address is unique.
Register(t) ==
  /\ request[t].does = "register" /\ ~Exists /\ NewTenant
  /\ user' = [role |-> "user", tenant |-> tenants']
  /\ Ends(t) /\ UNCHANGED <<grants, moved>>

\* update_user: the grants read are deleted and one is added; one another request added is a
\* duplicate key.
Update(t, tenant) ==
  LET was == request[t].was  r == request[t].role IN
  /\ request[t].does = "update" /\ r \notin grants \ request[t].seen
  /\ user' = [role   |-> Written(was.role, r, user.role),
              tenant |-> Written(was.tenant, tenant, user.tenant)]
  /\ grants' = (grants \ request[t].seen) \union {r}
  /\ moved' = IF user'.tenant # user.tenant THEN moved \union {user.tenant} ELSE moved
  /\ Ends(t) /\ UNCHANGED tenants

\* Mutant: a user who has a role already is granted no other.
Invite_First(t) ==
  LET was == request[t].was  r == request[t].role IN
  /\ request[t].does = "invite"
  /\ was.role = "none" => ~Exists
  /\ r \in grants => r \in request[t].seen
  /\ user' = [role |-> Written(was.role, r, user.role), tenant |-> Written(was.tenant, 1, user.tenant)]
  /\ grants' = IF request[t].seen = {} THEN grants \union {r} ELSE grants
  /\ moved' = IF user.tenant \in {0, 1} THEN moved ELSE moved \union {user.tenant}
  /\ Ends(t) /\ UNCHANGED tenants

\* invite_user: a user that exists gets the role, beside those it was granted before.
Invite(t) ==
  LET was == request[t].was  r == request[t].role IN
  /\ request[t].does = "invite"
  /\ was.role = "none" => ~Exists
  /\ r \in grants => r \in request[t].seen
  /\ user' = [role |-> Written(was.role, r, user.role), tenant |-> Written(was.tenant, 1, user.tenant)]
  /\ grants' = grants \union {r}
  /\ moved' = IF user.tenant \in {0, 1} THEN moved ELSE moved \union {user.tenant}
  /\ Ends(t) /\ UNCHANGED tenants

\* platform_heal, and the bootstrap for the administrator it creates or finds: the one grant, the
\* column, and a tenant if there was none.
Heal(t) ==
  LET was == request[t].was IN
  /\ request[t].does = "heal"
  /\ was.role = "none" => ~Exists
  /\ IF was.tenant = 0 THEN NewTenant ELSE UNCHANGED tenants
  /\ user' = [role   |-> Written(was.role, "enterprise_admin", user.role),
              tenant |-> IF was.tenant = 0 THEN tenants' ELSE user.tenant]
  /\ grants' = {"enterprise_admin"}
  /\ Ends(t) /\ UNCHANGED moved

\* ensure_user_has_tenant.
Provide(t) ==
  /\ request[t].does = "provide" /\ NewTenant
  /\ user' = [user EXCEPT !.tenant = tenants']
  /\ Ends(t) /\ UNCHANGED <<grants, moved>>

\* A key that is there by now, a refused download, a crash: all of it is undone.
Fails(t) ==
  /\ request[t] # Idle
  /\ request' = [request EXCEPT ![t] = Idle]
  /\ UNCHANGED <<user, grants, tenants, met, moved>>

\* ensure-admin: the column alone.
EnsureAdmin ==
  /\ user' = [user EXCEPT !.role = "admin"]
  /\ met' = (met \/ \E t \in Threads : request[t] # Idle)
  /\ UNCHANGED <<grants, tenants, request, moved>>

\* set_tenant_context: an administrator works in any tenant.
SetContext(tenant) ==
  /\ Exists /\ IsAdmin
  /\ user' = [user EXCEPT !.tenant = tenant]
  /\ moved' = IF tenant = user.tenant THEN moved ELSE moved \union {user.tenant}
  /\ met' = (met \/ \E t \in Threads : request[t] # Idle)
  /\ UNCHANGED <<grants, tenants, request>>

Next ==
  \/ \E t \in Threads :
       \/ \E does \in {"register", "update", "invite", "heal", "provide"}, r \in Roles \union {"none"} :
            (r = "none" <=> does = "provide") /\ Reads(t, does, r)
       \/ \E tenant \in 0..tenants : (tenant = 0 => request[t].was.tenant = 0) /\ Update(t, tenant)
       \/ Register(t) \/ Invite(t) \/ Heal(t) \/ Provide(t) \/ Fails(t)
  \/ EnsureAdmin
  \/ \E tenant \in 1..tenants : SetContext(tenant)

Spec == Init /\ [][Next]_accountVars

---------------------------------------------------------------------------
(* Properties *)

\* What the portal shows as the user's role is what the authorization service grants: unless two
\* requests met or ensure-admin wrote the column, a user with grants has the one of the column, the
\* portal, platform-heal and the bootstrap leave no other, and no tenant made for the user is left
\* behind without anyone having moved the user.
RoleIsGranted ==
  ~met =>
    /\ grants # {} /\ user.role # "admin" => user.role \in grants
    /\ \A n \in 2..tenants : n = user.tenant \/ n \in moved
\* Why: until two requests meet, what a request has read is still so.
ReadsHold ==
  ~met => /\ \A t \in Threads : request[t] # Idle => request[t].was = user /\ request[t].seen = grants
          /\ ~Exists => user.tenant = 0
Asked ==
  \A t \in Threads :
    /\ request[t].does \in {"update", "invite"} => request[t].role \in Roles
    /\ request[t].does \in {"update", "provide"} => request[t].was.role # "none"
    /\ request[t].does = "provide" => request[t].was.tenant = 0
Inv == TypeOK /\ RoleIsGranted /\ ReadsHold /\ Asked
=============================================================================
