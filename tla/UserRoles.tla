------------------------------ MODULE UserRoles ------------------------------
(***************************************************************************)
(* Creating and editing users: user.service.ts under auth.resolver.ts.     *)
(* Not a transaction: the user, then each role deleted, then each created, *)
(* a statement each.  An address is unique in the database, a role of a    *)
(* user is not, and nothing checks that a form names a role once: each     *)
(* naming of a role that the user has not becomes a row.  The flags that   *)
(* end sessions are in RefreshTokens and SignIn, the snapshots in          *)
(* ActivityAudit.                                                          *)
(***************************************************************************)
EXTENDS RequestSlots

CONSTANTS
    Roles, Emails, NoUser,
    MaxNamed       \* bound: roles a form names, with repetitions

VARIABLES
    users,         \* the address of each user, by the request that created it
    userRoles,     \* user_roles: the request that inserted each, user, role and naming
    granted        \* history: the roles the last update that ended asked for

userVars == <<users, userRoles, granted>>

UsersTypeOK ==
    /\ users \in [Serials -> Emails \cup {NoUser}]
    /\ \A r \in userRoles : users[r.user] # NoUser
    /\ granted \in [Serials -> SUBSET Roles \cup {NoUser}]

UsersInit ==
    /\ users = [u \in Serials |-> NoUser]
    /\ userRoles = {}
    /\ granted = [u \in Serials |-> NoUser]

RolesOf(u) == {r.role : r \in {x \in userRoles : x.user = u}}

EmailFree(u, email) == \A x \in Serials \ {u} : users[x] # email

\* A naming of a role is the role and how often the form has named it by then.
RoleForms ==
    {form \in SUBSET (Roles \X (1..MaxNamed)) :
        /\ Cardinality(form) <= MaxNamed
        /\ \A x \in form : \A k \in 1..x[2] : <<x[1], k>> \in form}
Named(form) == {x[1] : x \in form}

EditsOf(u) == {q \in InFlight({"previous", "user", "roles"}) : job[q].user = u}

----------------------------------------------------------------------------

\* validateCreateUser and validateUpdateUser.
BeginUser(p, u, email) ==
    /\ Free(p)
    /\ u = NextSerial \/ users[u] # NoUser
    /\ EmailFree(u, email)
    /\ \E roles \in RoleForms :
         Start(p, IF u = NextSerial THEN "user" ELSE "previous",
               [n |-> NextSerial, user |-> u, email |-> email, roles |-> roles,
                drop |-> {}, add |-> roles],
               EditsOf(u))
    /\ UNCHANGED userVars

\* Mutant: the roles to add are not compared with those there are.
AllToAdd(u, roles) == roles

ToAdd(u, roles) == {x \in roles : x[1] \notin RolesOf(u)}

\* getUserRoles, before the user is updated, and vennDiagram by role: of the roles the
\* user has not, every naming.
PreviousRoles(p) ==
    /\ phase[p] = "previous"
    /\ LET j == job[p] IN
       Goto(p, "user", [j EXCEPT !.drop = RolesOf(j.user) \ Named(j.roles),
                                 !.add = ToAdd(j.user, j.roles)])
    /\ UNCHANGED userVars

\* create and update: an address taken meanwhile fails it.
SaveUser(p) ==
    /\ phase[p] = "user"
    /\ LET j == job[p] IN
       /\ EmailFree(j.user, j.email)
       /\ users' = [users EXCEPT ![j.user] = j.email]
       /\ granted' = [granted EXCEPT ![j.user] = NoUser]
    /\ Goto(p, "roles", job[p])
    /\ UNCHANGED userRoles

\* deleteMany takes every row of the role.
DeleteRole(p) ==
    /\ phase[p] = "roles"
    /\ \E role \in job[p].drop :
         /\ userRoles' = {r \in userRoles : r.user # job[p].user \/ r.role # role}
         /\ Goto(p, "roles", [job[p] EXCEPT !.drop = @ \ {role}])
    /\ UNCHANGED <<users, granted>>

CreateRole(p) ==
    /\ phase[p] = "roles"
    /\ job[p].drop = {}
    /\ \E x \in job[p].add :
         /\ userRoles' = userRoles \cup {[n |-> job[p].n, user |-> job[p].user,
                                          role |-> x[1], nth |-> x[2]]}
         /\ Goto(p, "roles", [job[p] EXCEPT !.add = @ \ {x}])
    /\ UNCHANGED <<users, granted>>

UserSaved(p) ==
    /\ phase[p] = "roles"
    /\ job[p].drop = {} /\ job[p].add = {}
    /\ granted' = [granted EXCEPT ![job[p].user] = Named(job[p].roles)]
    /\ Finish(p)
    /\ UNCHANGED <<users, userRoles>>

FailUser(p) ==
    /\ Fail(p, FALSE)
    /\ UNCHANGED userVars

UsersNext ==
    \E p \in Procs :
        \/ \E u \in Serials, email \in Emails : BeginUser(p, u, email)
        \/ PreviousRoles(p) \/ SaveUser(p) \/ DeleteRole(p) \/ CreateRole(p) \/ UserSaved(p)
        \/ FailUser(p)

UsersSpec == SlotsInit /\ UsersInit /\ [][UsersNext]_<<slotVars, userVars>>

----------------------------------------------------------------------------
\* A user whose last save ended has the roles it asked for, whatever failed halfway
\* before, and the rows of a role are of one save, a row for each time it named the
\* role: one, if it did once.  Not if two saves of the user overlapped: both insert,
\* and a role taken away in one is kept by the row of the other.  And no two users
\* ever share an address.
RolesAsAsked ==
    /\ \A u, v \in Serials : users[u] = users[v] /\ users[u] # NoUser => u = v
    /\ ~contended =>
          \A u \in Serials : granted[u] # NoUser =>
              /\ RolesOf(u) = granted[u]
              /\ \A r, q \in userRoles : r.user = q.user /\ r.role = q.role =>
                    r.n = q.n /\ (r.nth = q.nth => r = q)

=============================================================================
