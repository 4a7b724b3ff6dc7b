------------------------------- MODULE SignIn --------------------------------
(***************************************************************************)
(* How one account turns a password, and perhaps an emailed code, into a   *)
(* session: login.service.ts, mfa.service.ts and password.service.ts.      *)
(*                                                                         *)
(* None of these paths uses a transaction.  Each database statement is a   *)
(* step of its own, and a request keeps what it read until it answers.     *)
(* Sessions are only minted and revoked here; RefreshTokens says what      *)
(* becomes of them in between.                                             *)
(***************************************************************************)
EXTENDS Integers, FiniteSets

CONSTANTS
    Procs,              \* request slots: in-flight requests
    MaxFailedAttempts,  \* loginLockout.maxFailedAttempts
    LockoutTime,        \* loginLockout.lockoutMinutes
    MaxAttempts,        \* mfaConstants.maxAttempts
    CodeTtl,            \* mfaConstants.codeTtlMinutes
    TokenTtl,           \* mfaConstants.tokenTtl, of both interstitial tokens
    MaxCodes,           \* bound: email_mfa_codes rows ever inserted
    MaxSessions,        \* bound: sessions ever minted
    MaxRequests,        \* bound: requests ever started
    MaxClock,           \* bound of the clock
    NoJob, NoRow

Codes == 1..MaxCodes
Sessions == 1..MaxSessions

ASSUME SignInBounds ==
    /\ {MaxFailedAttempts, MaxAttempts, CodeTtl} \subseteq Nat \ {0}
    /\ {LockoutTime, TokenTtl, MaxCodes, MaxSessions, MaxRequests, MaxClock} \subseteq Nat
ASSUME SignInProcs == IsFiniteSet(Procs)
\* The interstitial token must outlive the code (mfa.ts).
ASSUME TokenOutlivesCode == TokenTtl >= CodeTtl

VARIABLES
    now,
    account,         \* the row of `users`: the columns these services use
    codes,           \* email_mfa_codes of the account
    sessions,        \* the sessions minted
    mfa_until,       \* when the last mfaToken handed out expires
    change_until,    \* when the last changeToken handed out expires
    phase, job,      \* where each request stands, and what it has read
    misses,          \* history: wrong passwords answered since the last clean slate
    mfa_was_off,     \* history: the MFA flag has been off
    gate,            \* history: a forced change is complete and not resolved yet
    contended,       \* history: two requests have been in flight together
    started          \* history: requests started

accountVars == <<account, misses, mfa_was_off>>
mfaVars == <<codes, mfa_until>>
requestVars == <<phase, job, contended, started>>
vars == <<now, accountVars, mfaVars, sessions, change_until, requestVars, gate>>

Account == [mfa_enabled : BOOLEAN, must_change_password : BOOLEAN,
            failed_login_count : 0..MaxFailedAttempts, lockout_until : 0..(MaxClock + LockoutTime)]

Code == [consumed : BOOLEAN, attempts : 0..MaxAttempts, expires_at : 0..(MaxClock + CodeTtl),
         mailed : BOOLEAN, tried : Nat]

Paths == {"password", "code"}
Minted == [how : Paths, code : Codes \cup {NoRow}, live : BOOLEAN]

Job == [kind : {"login", "verify", "resend", "reset", "change"},
        account : Account \cup {NoRow}, code : Codes \cup {NoRow}, attempts : 0..MaxAttempts]

Phases == {"idle", "login_failed", "login_ok", "decide", "send", "create_code", "mint",
           "verify_locked", "verify_wrong", "verify_right",
           "revoke_all", "change_write", "reread"}

ASSUME SignInNoRow == NoRow \notin Code \cup Codes \cup Minted

TypeOK ==
    /\ now \in 0..MaxClock
    /\ account \in Account
    /\ codes \in [Codes -> Code \cup {NoRow}]
    /\ sessions \in [Sessions -> Minted \cup {NoRow}]
    /\ {mfa_until, change_until} \subseteq 0..(MaxClock + TokenTtl)
    /\ phase \in [Procs -> Phases]
    /\ job \in [Procs -> Job \cup {NoJob}]
    /\ misses \in Nat
    /\ {mfa_was_off, gate, contended} \subseteq BOOLEAN
    /\ started \in 0..MaxRequests

Init ==
    /\ now = 0
    /\ account \in {a \in Account : /\ ~a.must_change_password
                                    /\ a.failed_login_count = 0
                                    /\ a.lockout_until = 0}
    /\ codes = [c \in Codes |-> NoRow]
    /\ sessions = [s \in Sessions |-> NoRow]
    /\ mfa_until = 0
    /\ change_until = 0
    /\ phase = [p \in Procs |-> "idle"]
    /\ job = [p \in Procs |-> NoJob]
    /\ misses = 0
    /\ mfa_was_off = ~account.mfa_enabled
    /\ gate = FALSE
    /\ contended = FALSE
    /\ started = 0

----------------------------------------------------------------------------
(* Requests *)

Locked == account.lockout_until > now

Start(p, ph, j) ==
    /\ phase[p] = "idle"
    /\ phase' = [phase EXCEPT ![p] = ph]
    /\ job' = [job EXCEPT ![p] = j]
    /\ contended' = (contended \/ \E q \in Procs \ {p} : phase[q] # "idle")
    /\ started < MaxRequests
    /\ started' = started + 1

Goto(p, ph) ==
    /\ phase' = [phase EXCEPT ![p] = ph]
    /\ UNCHANGED <<job, contended, started>>

Finish(p) ==
    /\ phase' = [phase EXCEPT ![p] = "idle"]
    /\ job' = [job EXCEPT ![p] = NoJob]
    /\ UNCHANGED <<contended, started>>

\* What a request keeps: the user, where it is used again, or the code.
Request(kind) == [kind |-> kind, account |-> NoRow, code |-> NoRow, attempts |-> 0]

----------------------------------------------------------------------------
(* validateUser.  A locked account is refused before the password is        *)
(* compared and nothing changes, so only an unlocked one is read here.      *)

\* Mutant: the comparison with the clock turned round.
LockIgnored == TRUE

NotLockedOut == ~Locked

LoginRead(p, right) ==
    /\ NotLockedOut
    /\ Start(p, IF right THEN "login_ok" ELSE "login_failed",
             [Request("login") EXCEPT !.account = account])
    /\ UNCHANGED <<now, accountVars, mfaVars, sessions, change_until, gate>>

\* Mutant: one failure more than the threshold.
LocksLate(n) == n > MaxFailedAttempts

ShouldLock(n) == n >= MaxFailedAttempts

\* registerFailedLogin: from the count read with the user, not the stored one.
RegisterFailedLogin(p) ==
    /\ phase[p] = "login_failed"
    /\ LET next == job[p].account.failed_login_count + 1 IN
       /\ account' = [account EXCEPT
             !.failed_login_count = IF ShouldLock(next) THEN 0 ELSE next,
             !.lockout_until = IF ShouldLock(next) THEN now + LockoutTime ELSE @]
       /\ misses' = IF ShouldLock(next) THEN 0 ELSE misses + 1
    /\ Finish(p)
    /\ UNCHANGED <<now, mfa_was_off, mfaVars, sessions, change_until, gate>>

\* A right password wipes the slate, unless it was read clean.
ClearFailures(p) ==
    /\ phase[p] = "login_ok"
    /\ IF job[p].account.failed_login_count # 0 \/ job[p].account.lockout_until # 0
       THEN /\ account' = [account EXCEPT !.failed_login_count = 0, !.lockout_until = 0]
            /\ misses' = 0
       ELSE UNCHANGED <<account, misses>>
    /\ Goto(p, "decide")
    /\ UNCHANGED <<now, mfa_was_off, mfaVars, sessions, change_until, gate>>

----------------------------------------------------------------------------
(* decideAfterPassword, on the user as it was read *)

\* Mutant: a changed password is taken for both gates.
ChangeSkipsCode(p) == job[p].account.mfa_enabled /\ job[p].kind # "change"

NeedsCode(p) == job[p].account.mfa_enabled

\* Mutant: MFA is looked at first and the forced change forgotten.
ForgetsChange(p) == FALSE

MustChange(p) == job[p].account.must_change_password

\* No session: a changeToken.
DecideChange(p) ==
    /\ phase[p] = "decide"
    /\ MustChange(p)
    /\ change_until' = now + TokenTtl
    /\ Finish(p)
    /\ UNCHANGED <<now, accountVars, mfaVars, sessions, gate>>

DecideCodeOrSession(p) ==
    /\ phase[p] = "decide"
    /\ ~MustChange(p)
    /\ Goto(p, IF NeedsCode(p) THEN "send" ELSE "mint")
    /\ UNCHANGED <<now, accountVars, mfaVars, sessions, change_until, gate>>

----------------------------------------------------------------------------
(* sendMfaChallenge *)

\* Mutant: the codes sent before stay redeemable.
OlderKept == codes

OlderConsumed == [c \in Codes |-> IF codes[c] = NoRow THEN NoRow
                                  ELSE [codes[c] EXCEPT !.consumed = TRUE]]

ConsumePriorCodes(p) ==
    /\ phase[p] = "send"
    /\ codes' = OlderConsumed
    /\ Goto(p, "create_code")
    /\ UNCHANGED <<now, accountVars, mfa_until, sessions, change_until, gate>>

\* The row is inserted, then mailed.  If the mail fails the row stays, and the
\* request is answered 400 with no token.
CreateCode(p, c, mailed) ==
    /\ phase[p] = "create_code"
    /\ codes[c] = NoRow
    /\ \A d \in Codes : d < c => codes[d] # NoRow
    /\ codes' = [codes EXCEPT ![c] = [consumed |-> FALSE, attempts |-> 0,
                                      expires_at |-> now + CodeTtl,
                                      mailed |-> mailed, tried |-> 0]]
    /\ mfa_until' = IF mailed /\ job[p].kind # "resend" THEN now + TokenTtl ELSE mfa_until
    /\ Finish(p)
    /\ UNCHANGED <<now, accountVars, sessions, change_until, gate>>

----------------------------------------------------------------------------
(* verifyMfaCode and resendMfaCode *)

Redeemable(c) == codes[c] # NoRow /\ ~codes[c].consumed /\ codes[c].expires_at > now

\* Mutant: a code is burned one guess late.
BurnsLate(record) == record.attempts > MaxAttempts

Exhausted(record) == record.attempts >= MaxAttempts

\* The newest redeemable row is read; the answer typed is the digits of some
\* mailed code, or wrong.  The mfaToken proves the password step alone.
VerifyRead(p, typed) ==
    /\ now < mfa_until
    /\ typed # NoRow => codes[typed] # NoRow /\ codes[typed].mailed
    /\ \E c \in Codes :
         /\ Redeemable(c)
         /\ \A d \in Codes : Redeemable(d) => d <= c
         /\ Start(p, IF Exhausted(codes[c]) THEN "verify_locked"
                     ELSE IF typed = c THEN "verify_right" ELSE "verify_wrong",
                  [kind |-> "verify", account |-> NoRow, code |-> c,
                   attempts |-> codes[c].attempts])
    /\ UNCHANGED <<now, accountVars, mfaVars, sessions, change_until, gate>>

\* The record's attempts plus one, from the count that was read.
CountWrongGuess(p) ==
    /\ phase[p] = "verify_wrong"
    /\ codes' = [codes EXCEPT ![job[p].code].attempts = job[p].attempts + 1,
                              ![job[p].code].tried = @ + 1]
    /\ Finish(p)
    /\ UNCHANGED <<now, accountVars, mfa_until, sessions, change_until, gate>>

BurnCode(p) ==
    /\ phase[p] = "verify_locked"
    /\ codes' = [codes EXCEPT ![job[p].code].consumed = TRUE]
    /\ Finish(p)
    /\ UNCHANGED <<now, accountVars, mfa_until, sessions, change_until, gate>>

\* Mutant: the code is redeemed and left redeemable.
LeftRedeemable(c) == codes

\* The update is unconditional: it does not ask whether the code is still unconsumed.
Consumed(c) == [codes EXCEPT ![c].consumed = TRUE]

ConsumeCode(p) ==
    /\ phase[p] = "verify_right"
    /\ codes' = Consumed(job[p].code)
    /\ Goto(p, "mint")
    /\ UNCHANGED <<now, accountVars, mfa_until, sessions, change_until, gate>>

ResendRead(p) ==
    /\ now < mfa_until
    /\ Start(p, "send", Request("resend"))
    /\ UNCHANGED <<now, accountVars, mfaVars, sessions, change_until, gate>>

----------------------------------------------------------------------------
(* createSession *)

MintSession(p, s) ==
    /\ phase[p] = "mint"
    /\ sessions[s] = NoRow
    /\ \A r \in Sessions : r < s => sessions[r] # NoRow
    /\ sessions' = [sessions EXCEPT ![s] =
          [how |-> IF job[p].kind = "verify" THEN "code" ELSE "password",
           code |-> job[p].code, live |-> TRUE]]
    /\ Finish(p)
    /\ UNCHANGED <<now, accountVars, mfaVars, change_until, gate>>

----------------------------------------------------------------------------
(* requirePasswordChange and changePassword *)

RequireChange(p) ==
    /\ Start(p, "revoke_all", Request("reset"))
    /\ account' = [account EXCEPT !.must_change_password = TRUE]
    /\ UNCHANGED <<now, misses, mfa_was_off, mfaVars, sessions, change_until, gate>>

\* Mutant: the revocation is left out.
SessionsKept == sessions

SessionsRevoked == [s \in Sessions |-> IF sessions[s] = NoRow THEN NoRow
                                       ELSE [sessions[s] EXCEPT !.live = FALSE]]

\* revokeAllForUser, in either request; it completes a reset.
RevokeAll(p) ==
    /\ phase[p] = "revoke_all"
    /\ sessions' = SessionsRevoked
    /\ IF job[p].kind = "reset"
       THEN Finish(p) /\ gate' = account.must_change_password
       ELSE Goto(p, "reread") /\ UNCHANGED gate
    /\ UNCHANGED <<now, accountVars, mfaVars, change_until>>

\* A changeToken is enough; it is not spent by its use.
ChangeRead(p) ==
    /\ now < change_until
    /\ Start(p, "change_write", Request("change"))
    /\ UNCHANGED <<now, accountVars, mfaVars, sessions, change_until, gate>>

ChangeWrite(p) ==
    /\ phase[p] = "change_write"
    /\ account' = [account EXCEPT !.must_change_password = FALSE,
                                  !.failed_login_count = 0, !.lockout_until = 0]
    /\ misses' = 0
    /\ gate' = FALSE
    /\ Goto(p, "revoke_all")
    /\ UNCHANGED <<now, mfa_was_off, mfaVars, sessions, change_until>>

ChangeReread(p) ==
    /\ phase[p] = "reread"
    /\ phase' = [phase EXCEPT ![p] = "decide"]
    /\ job' = [job EXCEPT ![p].account = account]
    /\ UNCHANGED <<now, accountVars, mfaVars, sessions, change_until, gate, contended, started>>

----------------------------------------------------------------------------
(* The environment *)

\* updateUser turns the flag on or off.
SetMfa(b) ==
    /\ account' = [account EXCEPT !.mfa_enabled = b]
    /\ mfa_was_off' = (mfa_was_off \/ ~b)
    /\ UNCHANGED <<now, misses, mfaVars, sessions, change_until, requestVars, gate>>

\* A request fails between two statements; what it has committed stays.
Abort(p) ==
    /\ phase[p] # "idle"
    /\ Finish(p)
    /\ UNCHANGED <<now, accountVars, mfaVars, sessions, change_until, gate>>

Tick ==
    /\ now < MaxClock
    /\ now' = now + 1
    /\ UNCHANGED <<accountVars, mfaVars, sessions, change_until, requestVars, gate>>

Next ==
    \/ \E p \in Procs :
         \/ \E right \in BOOLEAN : LoginRead(p, right)
         \/ RegisterFailedLogin(p) \/ ClearFailures(p)
         \/ DecideChange(p) \/ DecideCodeOrSession(p)
         \/ ConsumePriorCodes(p)
         \/ \E c \in Codes, mailed \in BOOLEAN : CreateCode(p, c, mailed)
         \/ \E typed \in Codes \cup {NoRow} : VerifyRead(p, typed)
         \/ CountWrongGuess(p) \/ BurnCode(p) \/ ConsumeCode(p)
         \/ ResendRead(p)
         \/ \E s \in Sessions : MintSession(p, s)
         \/ RequireChange(p) \/ RevokeAll(p)
         \/ ChangeRead(p) \/ ChangeWrite(p) \/ ChangeReread(p)
         \/ Abort(p)
    \/ \E b \in BOOLEAN : SetMfa(b)
    \/ Tick

Spec == Init /\ [][Next]_vars

----------------------------------------------------------------------------
(* What is claimed of it.  The comments of the code claim most of it without *)
(* qualification; requests that overlap defeat the claims that rest on a     *)
(* value read by one statement and written by another, and those are stated  *)
(* here of requests that do not overlap (but may fail at any point).         *)

RedeemedFrom(c) == {s \in Sessions : sessions[s] # NoRow /\ sessions[s].code = c}

\* "An emailed code works exactly once" (auth.mfa.service.test.ts): one code,
\* one session.  Not so: two requests may both read the code before either
\* consumes it.
CodeRedeemedOnce == \A c \in Codes : Cardinality(RedeemedFrom(c)) <= 1

\* One at a time, a code opens one session, whatever fails in between.
CodeRedeemedOnceAlone == ~contended => CodeRedeemedOnce

\* However many requests race, a code opens no more sessions than there were
\* requests in flight when it was first redeemed: none that starts later finds it.
RedemptionsBounded ==
    \A c \in Codes : Cardinality(RedeemedFrom(c)) <= Cardinality(Procs)

\* A code is burned after MaxAttempts wrong guesses answered as such.
GuessesCapped ==
    ~contended => \A c \in Codes : codes[c] # NoRow => codes[c].tried <= MaxAttempts

\* A resend or a new login leaves one code redeemable: the newest.
OneCodeOutstanding ==
    ~contended =>
        \A c, d \in Codes :
            /\ codes[c] # NoRow /\ ~codes[c].consumed
            /\ codes[d] # NoRow /\ ~codes[d].consumed
            => c = d

\* The account is frozen at the threshold: wrong passwords never add up to it.
FreezesAtThreshold == ~contended => misses < MaxFailedAttempts

\* A frozen account stays frozen until its time is over or its password is
\* changed: no right password, no wrong one and no failure thaws it.
LockoutHolds ==
    [][~contended /\ Locked /\ ~Locked' => now' # now \/ \E p \in Procs : ChangeWrite(p)]_vars

\* The gates compose: while MFA has never been off, no request, not even one
\* that has just changed its password, opens a session without a code.
CodeBeforeSession ==
    ~mfa_was_off => \A s \in Sessions : sessions[s] # NoRow => sessions[s].how = "code"

LiveVia(paths) == {s \in Sessions : sessions[s] # NoRow /\ sessions[s].live
                                                       /\ sessions[s].how \in paths}

\* From the end of a reset to the change it forces, the password alone opens no
\* session, and none that it had opened is left.
PasswordAloneIsGated == gate /\ ~contended => LiveVia({"password"}) = {}

\* The same of every session: a reset "kills every existing session so a live
\* token cannot sidestep it", and verifyMfaCode is said to funnel through the
\* same fork.  Not so: a challenge begun before the reset is completed after it.
ForcedChangeHolds == gate /\ ~contended => LiveVia(Paths) = {}

=============================================================================
