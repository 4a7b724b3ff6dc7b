---------------------------- MODULE RefreshTokens ----------------------------
(***************************************************************************)
(* The refresh-token table and the operations of refresh-token.service.ts  *)
(* on it, as the requests of the REST controller and of the GraphQL        *)
(* resolver interleave over one MySQL database.                            *)
(*                                                                         *)
(* A family is one signed-in device: the row its login inserted and every  *)
(* row rotation added.  A fresh family uuid is named here by the id of     *)
(* the row that opens it, so families and rows share the id space Tokens.  *)
(*                                                                         *)
(* Time is counted in half seconds, the coarsest unit in which the rounding*)
(* of DATETIME(0) columns to whole seconds is visible.                     *)
(***************************************************************************)
EXTENDS Integers, FiniteSets

CONSTANTS
    Users,      \* rows of `users`
    Procs,      \* request slots of the Node process: in-flight requests
    MaxTokens,  \* bound: refresh_tokens rows ever inserted
    MaxLogins,  \* bound: families ever opened
    MaxClock,   \* bound: last half second modelled
    TTL,        \* REFRESH_TTL_DAYS, in half seconds
    Graces,     \* the settings of REFRESH_REUSE_GRACE_SECONDS considered
    NoProc,     \* a family lock nobody holds
    NoJob,      \* the arguments of an idle request slot
    NoRow,      \* a row id that is not in the table
    NULL        \* SQL NULL

Tokens == 1..MaxTokens
Instant == 0..MaxClock

ASSUME BoundsAssumption == {MaxTokens, MaxLogins, MaxClock} \subseteq Nat
ASSUME ProcsAssumption == IsFiniteSet(Procs)
ASSUME TtlAssumption == TTL \in Nat \ {0}
ASSUME GraceAssumption == Graces \subseteq Int
\* A spent token stays presentable for as long as the race window lasts: with
\* the defaults, 14 days against 30 seconds.
ASSUME TtlOutlivesGrace == \A g \in Graces : g + 1 < TTL
ASSUME NullAssumption == NULL \notin Int
ASSUME NoProcAssumption == NoProc \notin Procs

----------------------------------------------------------------------------
(* Rows and timestamps *)

\* DATETIME(0): MySQL rounds what it stores to the nearest whole second, half
\* seconds upwards.
StoredTime(h) == h + (h % 2)

Time == 0..(MaxClock + TTL + 2)

Row == [user : Users, family : Tokens,
        revoked_at : Time \cup {NULL}, expires_at : Time]

ASSUME NoRowAssumption == NoRow \notin Row

Table == [Tokens -> Row \cup {NoRow}]
EmptyTable == [t \in Tokens |-> NoRow]

FamilyTable(table, f) ==
    [t \in Tokens |-> IF table[t] # NoRow /\ table[t].family = f
                      THEN table[t] ELSE NoRow]

Unrevoked(table, t) == table[t] # NoRow /\ table[t].revoked_at = NULL

Usable(table, t, n) == Unrevoked(table, t) /\ table[t].expires_at > n

----------------------------------------------------------------------------
VARIABLES
    now,             \* the clock every `new Date()` reads
    grace,           \* jwtConstants.refreshReuseGraceSeconds, fixed at boot
    login_disabled,  \* the column of `users` that readActiveUser tests
    refresh_tokens,  \* the table, committed rows only
    next_id,         \* its AUTO_INCREMENT
    lock,            \* who holds the FOR UPDATE row locks of each family
    phase,           \* where each request stands
    job,             \* what it has read outside any transaction
    seen,            \* what its locking read returned
    origin           \* history: how each row came to be

dbVars == <<login_disabled, refresh_tokens, next_id>>
requestVars == <<lock, phase, job, seen>>
vars == <<now, grace, dbVars, requestVars, origin>>

Phases == {"idle", "rotate_lock", "rotate_locked", "login", "revoke_all"}

\* Requests that may still insert a row.
MintingPhases == {"rotate_lock", "rotate_locked", "login"}

Job == [token : Tokens \cup {NULL}, family : Tokens \cup {NULL},
        user : Users, active : BOOLEAN]

Origin == [kind : {"none", "login", "rotated", "race"},
           parent : Tokens \cup {NULL}, user : Users \cup {NULL}, at : Instant]

NoOrigin == [kind |-> "none", parent |-> NULL, user |-> NULL, at |-> 0]

TypeOK ==
    /\ now \in Instant
    /\ grace \in Graces
    /\ login_disabled \in [Users -> BOOLEAN]
    /\ refresh_tokens \in Table
    /\ next_id \in 1..(MaxTokens + 1)
    /\ lock \in [Tokens -> Procs \cup {NoProc}]
    /\ phase \in [Procs -> Phases]
    /\ job \in [Procs -> Job \cup {NoJob}]
    /\ seen \in [Procs -> Table]
    /\ origin \in [Tokens -> Origin]

Init ==
    /\ now = 0
    /\ grace \in Graces
    /\ login_disabled = [u \in Users |-> FALSE]
    /\ refresh_tokens = EmptyTable
    /\ next_id = 1
    /\ lock = [f \in Tokens |-> NoProc]
    /\ phase = [p \in Procs |-> "idle"]
    /\ job = [p \in Procs |-> NoJob]
    /\ seen = [p \in Procs |-> EmptyTable]
    /\ origin = [t \in Tokens |-> NoOrigin]

----------------------------------------------------------------------------
(* Helpers of the service *)

\* Mutant: the locking read without FOR UPDATE.
PlainRead(p, f) == TRUE

\* SELECT ... FOR UPDATE, and every UPDATE or DELETE, waits while another
\* transaction holds the row locks of the family.
LockFree(p, f) == lock[f] \in {NoProc, p}

FamiliesOf(u) ==
    {refresh_tokens[t].family :
        t \in {s \in Tokens : refresh_tokens[s] # NoRow /\ refresh_tokens[s].user = u}}

\* UPDATE refresh_tokens SET revoked_at = now WHERE id IN S
Revoke(S) ==
    [t \in Tokens |-> IF t \in S /\ refresh_tokens[t] # NoRow
                      THEN [refresh_tokens[t] EXCEPT !.revoked_at = StoredTime(now)]
                      ELSE refresh_tokens[t]]

\* Mutant: the where clause names the first row instead of the family.
RevokeFirstRow(f) == Revoke({f})

RevokeFamilyLocked(f) ==
    Revoke({t \in Tokens : Unrevoked(refresh_tokens, t) /\ refresh_tokens[t].family = f})

RevokeAllOf(u) ==
    Revoke({t \in Tokens : Unrevoked(refresh_tokens, t) /\ refresh_tokens[t].user = u})

RefreshExpiry(n) == StoredTime(n + TTL)

IssuedRow(u, f) ==
    [user |-> u, family |-> f, revoked_at |-> NULL, expires_at |-> RefreshExpiry(now)]

\* Mutant: the comparison the sweep uses, a strict one.
ExpiredStrictly(row, n) == row.expires_at < n

Expired(row, n) == row.expires_at <= n

\* Mutant: a spent token is a race whenever it is recent, live successor or not.
RecentIsBenign(revokedAt, family, n) == grace > 0 /\ n - revokedAt <= grace

\* Mutant: the last instant of the window counts as outside it.
WindowOneShort(revokedAt, family, n) ==
    /\ grace > 0
    /\ n - revokedAt < grace
    /\ \E t \in Tokens : Usable(family, t, n)

IsBenignRotationRace(revokedAt, family, n) ==
    /\ grace > 0
    /\ n - revokedAt <= grace
    /\ \E t \in Tokens : Usable(family, t, n)

\* Bound: a request that may insert a row starts only while an id is left for
\* it, so that the bound never stops a request half way.
Minting == {q \in Procs : phase[q] \in MintingPhases}

RoomForRow == next_id + Cardinality(Minting) <= MaxTokens

RoomForFamily ==
    Cardinality({t \in Tokens : origin[t].kind = "login"})
        + Cardinality({q \in Procs : phase[q] = "login"}) < MaxLogins

Start(p, ph, j) ==
    /\ phase' = [phase EXCEPT ![p] = ph]
    /\ job' = [job EXCEPT ![p] = j]

Goto(p, ph) == phase' = [phase EXCEPT ![p] = ph]

\* Mutant: the transaction is answered but neither committed nor rolled back.
LocksKept(p) == lock

LocksReleased(p) == [f \in Tokens |-> IF lock[f] = p THEN NoProc ELSE lock[f]]

\* The end of a request, and with it of its transaction if one is open.
Finish(p) ==
    /\ phase' = [phase EXCEPT ![p] = "idle"]
    /\ job' = [job EXCEPT ![p] = NoJob]
    /\ seen' = [seen EXCEPT ![p] = EmptyTable]
    /\ lock' = LocksReleased(p)

----------------------------------------------------------------------------
(* rotateRefreshToken: POST /auth/refresh *)

\* The presented token names a row (an unknown one is answered 401 and changes
\* nothing), and the user is read, both before the lock is taken.  Of the row
\* only the family and the owner are kept, which never change, so the two reads
\* are one step.
RotateLookup(p, t) ==
    /\ phase[p] = "idle"
    /\ refresh_tokens[t] # NoRow
    /\ RoomForRow
    /\ Start(p, "rotate_lock",
             [token |-> t, family |-> refresh_tokens[t].family,
              user |-> refresh_tokens[t].user,
              active |-> ~login_disabled[refresh_tokens[t].user]])
    /\ UNCHANGED <<now, grace, dbVars, lock, seen, origin>>

\* lockFamily: begin the transaction, take the row locks, read the rows.
LockFamily(p) ==
    /\ phase[p] = "rotate_lock"
    /\ LockFree(p, job[p].family)
    /\ lock' = [lock EXCEPT ![job[p].family] = p]
    /\ seen' = [seen EXCEPT ![p] = FamilyTable(refresh_tokens, job[p].family)]
    /\ Goto(p, "rotate_locked")
    /\ UNCHANGED <<now, grace, dbVars, job, origin>>

\* The presented row as the locking read returned it.
PresentedRow(p) == seen[p][job[p].token]

PassesReuseTest(p) ==
    PresentedRow(p).revoked_at # NULL =>
        IsBenignRotationRace(PresentedRow(p).revoked_at, seen[p], now)

\* The row was deleted between the lookup and the lock: 401.
RotateRowMissing(p) ==
    /\ phase[p] = "rotate_locked"
    /\ PresentedRow(p) = NoRow
    /\ Finish(p)
    /\ UNCHANGED <<now, grace, dbVars, origin>>

\* A spent token that is not a benign race: the family ends, 401.
RotateTheft(p) ==
    /\ phase[p] = "rotate_locked"
    /\ PresentedRow(p) # NoRow
    /\ ~PassesReuseTest(p)
    /\ refresh_tokens' = RevokeFamilyLocked(job[p].family)
    /\ Finish(p)
    /\ UNCHANGED <<now, grace, login_disabled, next_id, origin>>

\* Expired, not stolen: this row only is revoked, even one already revoked, 401.
RotateExpired(p) ==
    /\ phase[p] = "rotate_locked"
    /\ PresentedRow(p) # NoRow
    /\ PassesReuseTest(p)
    /\ Expired(PresentedRow(p), now)
    /\ refresh_tokens' = Revoke({job[p].token})
    /\ Finish(p)
    /\ UNCHANGED <<now, grace, login_disabled, next_id, origin>>

\* The account was disabled when the user was read: the family ends, 401.
RotateInactive(p) ==
    /\ phase[p] = "rotate_locked"
    /\ PresentedRow(p) # NoRow
    /\ PassesReuseTest(p)
    /\ ~Expired(PresentedRow(p), now)
    /\ ~job[p].active
    /\ refresh_tokens' = RevokeFamilyLocked(job[p].family)
    /\ Finish(p)
    /\ UNCHANGED <<now, grace, login_disabled, next_id, origin>>

\* Mutant: a benign race stamps the spent row again.
AlwaysStamped(p) == {job[p].token}

\* The row a renewal spends: none when it had been spent already.
SpentBy(p) == IF PresentedRow(p).revoked_at = NULL THEN {job[p].token} ELSE {}

\* Mutant: the spent row is revoked and the successor is lost.
RevokedOnly(p) == Revoke(SpentBy(p))

\* The revoke and the insert of one transaction.
RenewedTable(p) ==
    [Revoke(SpentBy(p)) EXCEPT ![next_id] = IssuedRow(job[p].user, job[p].family)]

\* A pair is issued: the successor is inserted in the transaction that revokes
\* the spent row, and both commit here.
RotateRenew(p) ==
    /\ phase[p] = "rotate_locked"
    /\ PresentedRow(p) # NoRow
    /\ PassesReuseTest(p)
    /\ ~Expired(PresentedRow(p), now)
    /\ job[p].active
    /\ refresh_tokens' = RenewedTable(p)
    /\ next_id' = next_id + 1
    /\ origin' = [origin EXCEPT ![next_id] =
                    [kind |-> IF PresentedRow(p).revoked_at = NULL
                              THEN "rotated" ELSE "race",
                     parent |-> job[p].token, user |-> job[p].user, at |-> now]]
    /\ Finish(p)
    /\ UNCHANGED <<now, grace, login_disabled>>

RotateCommit(p) ==
    \/ RotateRowMissing(p)
    \/ RotateTheft(p)
    \/ RotateExpired(p)
    \/ RotateInactive(p)
    \/ RotateRenew(p)

----------------------------------------------------------------------------
(* The operations that end sessions.  The transaction of each takes all its *)
(* locks in its first statement and then writes only what it has locked, so *)
(* it is one step that waits for the locks.                                 *)

\* POST /auth/logout: revokeFamily on the family of the presented token.  (An
\* unknown token is answered 200 and changes nothing.)
Logout(t) ==
    /\ refresh_tokens[t] # NoRow
    /\ LockFree(NoProc, refresh_tokens[t].family)
    /\ refresh_tokens' = RevokeFamilyLocked(refresh_tokens[t].family)
    /\ UNCHANGED <<now, grace, login_disabled, next_id, requestVars, origin>>

\* SELECT ... WHERE user_id = u FOR UPDATE waits for every family of the user.
UserLockFree(u) == \A f \in FamiliesOf(u) : LockFree(NoProc, f)

\* revokeAllForUser as requirePasswordChange and changePassword call it; their
\* other writes are not to this table.
RevokeAllForUser(u) ==
    /\ UserLockFree(u)
    /\ refresh_tokens' = RevokeAllOf(u)
    /\ UNCHANGED <<now, grace, login_disabled, next_id, requestVars, origin>>

UserJob(u, active) == [token |-> NULL, family |-> NULL, user |-> u, active |-> active]

\* updateUser with login_disabled: the flag is committed first, the user's
\* sessions are revoked after it.
DisableUser(p, u) ==
    /\ phase[p] = "idle"
    /\ login_disabled' = [login_disabled EXCEPT ![u] = TRUE]
    /\ Start(p, "revoke_all", UserJob(u, FALSE))
    /\ UNCHANGED <<now, grace, refresh_tokens, next_id, lock, seen, origin>>

DisableUserRevoke(p) ==
    /\ phase[p] = "revoke_all"
    /\ UserLockFree(job[p].user)
    /\ refresh_tokens' = RevokeAllOf(job[p].user)
    /\ Finish(p)
    /\ UNCHANGED <<now, grace, login_disabled, next_id, origin>>

\* updateUser that enables the account: nothing more to do.
EnableUser(u) ==
    /\ login_disabled[u]
    /\ login_disabled' = [login_disabled EXCEPT ![u] = FALSE]
    /\ UNCHANGED <<now, grace, refresh_tokens, next_id, requestVars, origin>>

----------------------------------------------------------------------------
(* createSession, after the sign-in has read and accepted the user *)

LoginRead(p, u) ==
    /\ phase[p] = "idle"
    /\ ~login_disabled[u]
    /\ RoomForRow
    /\ RoomForFamily
    /\ Start(p, "login", UserJob(u, TRUE))
    /\ UNCHANGED <<now, grace, dbVars, lock, seen, origin>>

\* deleteMany of the user's expired rows.
Swept(u) ==
    [t \in Tokens |->
        IF /\ refresh_tokens[t] # NoRow
           /\ refresh_tokens[t].user = u
           /\ refresh_tokens[t].expires_at < now
        THEN NoRow ELSE refresh_tokens[t]]

\* The sweep, then the insert that opens a new family.  They are two statements
\* without a transaction, but nothing else reads or writes the new family, so
\* the only state between them that others can tell is the one
\* LoginFailsAfterSweep leaves.
LoginCommit(p) ==
    /\ phase[p] = "login"
    /\ UserLockFree(job[p].user)
    /\ refresh_tokens' = [Swept(job[p].user) EXCEPT ![next_id] =
                             IssuedRow(job[p].user, next_id)]
    /\ next_id' = next_id + 1
    /\ origin' = [origin EXCEPT ![next_id] =
                    [kind |-> "login", parent |-> NULL, user |-> job[p].user, at |-> now]]
    /\ Finish(p)
    /\ UNCHANGED <<now, grace, login_disabled>>

LoginFailsAfterSweep(p) ==
    /\ phase[p] = "login"
    /\ UserLockFree(job[p].user)
    /\ refresh_tokens' = Swept(job[p].user)
    /\ Finish(p)
    /\ UNCHANGED <<now, grace, login_disabled, next_id, origin>>

----------------------------------------------------------------------------
(* The environment *)

\* A request fails between two of its statements: a deadlock victim, a lock
\* wait timeout, a lost connection, a crash of the process.  An open
\* transaction rolls back; statements already committed stay.
Abort(p) ==
    /\ phase[p] # "idle"
    /\ Finish(p)
    /\ UNCHANGED <<now, grace, dbVars, origin>>

Tick ==
    /\ now < MaxClock
    /\ now' = now + 1
    /\ UNCHANGED <<grace, dbVars, requestVars, origin>>

----------------------------------------------------------------------------
\* The steps a request takes once it has begun.
Progress(p) ==
    \/ LockFamily(p)
    \/ RotateCommit(p)
    \/ DisableUserRevoke(p)
    \/ LoginCommit(p)

Next ==
    \/ \E p \in Procs :
         \/ \E t \in Tokens : RotateLookup(p, t)
         \/ \E u \in Users : DisableUser(p, u) \/ LoginRead(p, u)
         \/ Progress(p)
         \/ LoginFailsAfterSweep(p)
         \/ Abort(p)
    \/ \E t \in Tokens : Logout(t)
    \/ \E u \in Users : RevokeAllForUser(u) \/ EnableUser(u)
    \/ Tick

Spec == Init /\ [][Next]_vars

\* The event loop runs every request whose query has returned, and InnoDB
\* grants a lock to the requests that queue for it in turn: a request that can
\* continue again and again does continue.
FairSpec == Spec /\ \A p \in Procs : SF_vars(Progress(p))

----------------------------------------------------------------------------
(* What is claimed of it *)

Opened(f) == origin[f].kind = "login"

FamilyUnrevoked(f) ==
    \E t \in Tokens : Unrevoked(refresh_tokens, t) /\ refresh_tokens[t].family = f

FamilyUsable(f) ==
    \E t \in Tokens : Usable(refresh_tokens, t, now) /\ refresh_tokens[t].family = f

\* The renewals that spent token t.
Spends(t) == {s \in Tokens : origin[s].kind = "rotated" /\ origin[s].parent = t}

\* Whoever holds a family's lock decides on what the family is now, not on
\* what it was when the request looked the token up: the locking read stays
\* current until the transaction ends, and nobody else holds the lock.
LockedReadIsCurrent ==
    \A p \in Procs :
        phase[p] = "rotate_locked" =>
            /\ lock[job[p].family] = p
            /\ seen[p] = FamilyTable(refresh_tokens, job[p].family)

\* A refresh token is single-use: however many requests present it at once, at
\* most one of them spends it.  The others are races, thefts or failures.
SingleUse ==
    \A s, t \in Tokens :
        /\ origin[s].kind = "rotated"
        /\ origin[t].kind = "rotated"
        /\ origin[s].parent = origin[t].parent
        => s = t

\* A pair issued for a token already spent is always the loser's half of a
\* genuine race: the token was spent by a renewal, at most the grace period
\* (and the rounding of its timestamp) before, however often it has been
\* presented in between.  With a zero grace period there are no races.
RaceHasWinner ==
    \A t \in Tokens :
        origin[t].kind = "race" =>
            /\ grace > 0
            /\ \E s \in Spends(origin[t].parent) :
                   origin[t].at <= StoredTime(origin[s].at) + grace

\* A family that was opened and has no unrevoked row left, because it was
\* logged out, revoked for reuse, revoked with its user or swept, never has an
\* unrevoked row again, whatever requests were in flight when it ended.
DeadFamilyStaysDead ==
    [][\A f \in Tokens :
         Opened(f) /\ ~FamilyUnrevoked(f) => ~FamilyUnrevoked(f)']_vars

\* The request of p presents, after its race window, a token some renewal spent.
PresentsStale(p) ==
    /\ PresentedRow(p) # NoRow
    /\ \E s \in Spends(job[p].token) : now > StoredTime(origin[s].at) + grace

\* A token presented after its race window and before its expiry ends its whole
\* family, sibling tabs included, when the request that presents it commits.
StaleReuseEndsFamily ==
    [][\A p \in Procs, f \in Tokens :
         /\ RotateCommit(p)
         /\ job[p].family = f
         /\ PresentsStale(p)
         /\ ~Expired(PresentedRow(p), now)
         => ~FamilyUnrevoked(f)']_vars

\* Two tabs never sign their user out: within the grace period of the renewal
\* that spent a token, presenting it again is called theft only if the family
\* had already ended.
TabsNeverSignOut ==
    [][\A p \in Procs :
         RotateTheft(p) =>
            \/ ~FamilyUnrevoked(job[p].family)
            \/ \A s \in Spends(job[p].token) : grace <= 0 \/ now > origin[s].at + grace]_vars

\* The steps that may end family f.
EndsFamily(f) ==
    \/ \E p \in Procs :
         \/ (RotateTheft(p) \/ RotateInactive(p)) /\ job[p].family = f
         \/ DisableUserRevoke(p) /\ job[p].user = origin[f].user
    \/ \E t \in Tokens : FamilyTable(refresh_tokens, f)[t] # NoRow /\ Logout(t)
    \/ RevokeAllForUser(origin[f].user)

\* A session is lost only to a cause: a logout, a reuse, a disabled account, a
\* revocation of all the user's sessions, or time.  A renewal, a login on
\* another device, its sweep or a failed request never ends one.
SessionEndsForCause ==
    [][\A f \in Tokens :
         FamilyUsable(f) /\ ~FamilyUsable(f)' =>
            now' # now \/ EndsFamily(f)]_vars

\* Every request is answered: no cycle of lock waits, no lock left behind.
EveryRequestAnswered ==
    \A p \in Procs : phase[p] # "idle" ~> phase[p] = "idle"

----------------------------------------------------------------------------
(* The table as the sessions it stands for *)

UsableExpiries(f) ==
    {refresh_tokens[t].expires_at :
        t \in {s \in Tokens : Usable(refresh_tokens, s, now) /\ refresh_tokens[s].family = f}}

StatusOf(f) == IF ~Opened(f) THEN "unused"
               ELSE IF FamilyUsable(f) THEN "open" ELSE "ended"

DeadlineOf(f) == IF FamilyUsable(f)
                 THEN CHOOSE d \in UsableExpiries(f) : \A e \in UsableExpiries(f) : e <= d
                 ELSE 0

Session == INSTANCE Sessions WITH
    Ids <- Tokens, NoOwner <- NULL,
    status <- [f \in Tokens |-> StatusOf(f)],
    owner <- [f \in Tokens |-> IF Opened(f) THEN origin[f].user ELSE NULL],
    deadline <- [f \in Tokens |-> DeadlineOf(f)]

\* The table, its locks and its transactions implement sessions that open
\* once, are renewed only before their deadline, end one by one or all of one
\* user's together, and stay ended.
ImplementsSessions == Session!Spec

=============================================================================
