----------------------------- MODULE SignInProofs -----------------------------
(***************************************************************************)
(* Proofs about SignIn, for any number of requests, codes and sessions and *)
(* any thresholds and lifetimes: its types, that the gates compose,        *)
(* that requests which race for one code open no more sessions than there  *)
(* may be requests in flight, and, last, what holds of requests that do not*)
(* overlap.                                                                *)
(***************************************************************************)
EXTENDS SignIn, FiniteSetTheorems, TLAPS

VerifyPhases == {"verify_locked", "verify_wrong", "verify_right"}

\* What a request in phase ph knows, when it holds j and the codes are cs: the user
\* it read, the code it found, and that the code it mints for is consumed.
RequestOK(ph, j, cs) ==
    /\ ph # "idle" => j \in Job
    /\ ph \in {"login_failed", "login_ok", "decide"} => j.account \in Account
    /\ ph \in VerifyPhases => j.kind = "verify" /\ j.code \in Codes /\ cs[j.code] # NoRow
    /\ ph = "verify_wrong" => j.attempts < MaxAttempts
    /\ ph = "mint" /\ j.code \in Codes => cs[j.code] # NoRow /\ cs[j.code].consumed
    /\ ph \notin VerifyPhases \cup {"mint", "idle"} => j.code = NoRow

RequestsOK == \A p \in Procs : RequestOK(phase[p], job[p], codes)

\* No code row is lost and none becomes redeemable again.
CodesKept(cs, ds) ==
    \A c \in Codes : cs[c] # NoRow => /\ ds[c] # NoRow
                                      /\ cs[c].consumed => ds[c].consumed

IInv == TypeOK /\ RequestsOK

----------------------------------------------------------------------------
(* What a request does to what the others know *)

\* A step of p that keeps the codes leaves every other request right.
LEMMA RequestsKept ==
    ASSUME IInv, NEW p \in Procs, NEW ph \in Phases, NEW j \in Job \cup {NoJob},
           phase' = [phase EXCEPT ![p] = ph],
           job' = [job EXCEPT ![p] = j],
           CodesKept(codes, codes'),
           RequestOK(ph, j, codes')
    PROVE  /\ RequestsOK'
           /\ phase' \in [Procs -> Phases]
           /\ job' \in [Procs -> Job \cup {NoJob}]
  <1>1. phase \in [Procs -> Phases] /\ job \in [Procs -> Job \cup {NoJob}]
    BY DEF IInv, TypeOK
  <1>2. phase'[p] = ph /\ job'[p] = j
    BY <1>1
  <1>3. \A q \in Procs \ {p} : phase'[q] = phase[q] /\ job'[q] = job[q]
    BY <1>1
  <1>4. ASSUME NEW q \in Procs \ {p} PROVE RequestOK(phase'[q], job'[q], codes')
    <2>1. RequestOK(phase[q], job[q], codes)
      BY DEF IInv, RequestsOK
    <2>2. RequestOK(phase[q], job[q], codes')
      BY <2>1 DEF RequestOK, CodesKept
    <2> QED
      BY <2>2, <1>3
  <1>5. RequestOK(phase'[p], job'[p], codes')
    BY <1>2
  <1> QED
    BY <1>1, <1>4, <1>5 DEF RequestsOK

LEMMA CodesStay == codes' = codes => CodesKept(codes, codes')
  BY DEF CodesKept

\* A request that starts.
LEMMA StartKeeps ==
    ASSUME IInv, NEW p \in Procs, NEW ph \in Phases, NEW j \in Job,
           Start(p, ph, j), codes' = codes, RequestOK(ph, j, codes)
    PROVE  /\ RequestsOK'
           /\ phase' \in [Procs -> Phases]
           /\ job' \in [Procs -> Job \cup {NoJob}]
           /\ contended' \in BOOLEAN
           /\ started' \in 0..MaxRequests
  <1>1. RequestsOK' /\ phase' \in [Procs -> Phases] /\ job' \in [Procs -> Job \cup {NoJob}]
    BY CodesStay, RequestsKept DEF Start
  <1>2. contended' \in BOOLEAN
    BY DEF Start, IInv, TypeOK
  <1>3. started' \in 0..MaxRequests
    BY SignInBounds DEF Start, IInv, TypeOK
  <1> QED
    BY <1>1, <1>2, <1>3

\* A request that goes on.
LEMMA GotoKeeps ==
    ASSUME IInv, NEW p \in Procs, NEW ph \in Phases,
           Goto(p, ph), CodesKept(codes, codes'), RequestOK(ph, job[p], codes')
    PROVE  /\ RequestsOK'
           /\ phase' \in [Procs -> Phases]
           /\ job' \in [Procs -> Job \cup {NoJob}]
           /\ contended' \in BOOLEAN
           /\ started' \in 0..MaxRequests
  <1>1. job \in [Procs -> Job \cup {NoJob}] /\ contended \in BOOLEAN /\ started \in 0..MaxRequests
    BY DEF IInv, TypeOK
  <1>2. job' = [job EXCEPT ![p] = job[p]] /\ job[p] \in Job \cup {NoJob}
    BY <1>1 DEF Goto
  <1>3. RequestsOK' /\ phase' \in [Procs -> Phases] /\ job' \in [Procs -> Job \cup {NoJob}]
    BY <1>2, RequestsKept DEF Goto
  <1> QED
    BY <1>1, <1>3 DEF Goto

\* A request that ends.
LEMMA FinishKeeps ==
    ASSUME IInv, NEW p \in Procs, Finish(p), CodesKept(codes, codes')
    PROVE  /\ RequestsOK'
           /\ phase' \in [Procs -> Phases]
           /\ job' \in [Procs -> Job \cup {NoJob}]
           /\ contended' \in BOOLEAN
           /\ started' \in 0..MaxRequests
  <1>1. RequestOK("idle", NoJob, codes')
    BY DEF RequestOK, VerifyPhases
  <1>2. "idle" \in Phases
    BY DEF Phases
  <1>3. RequestsOK' /\ phase' \in [Procs -> Phases] /\ job' \in [Procs -> Job \cup {NoJob}]
    BY <1>1, <1>2, RequestsKept DEF Finish
  <1> QED
    BY <1>3 DEF Finish, IInv, TypeOK

\* The jobs with which requests start.
LEMMA RequestType ==
    ASSUME NEW kind \in {"login", "verify", "resend", "reset", "change"}
    PROVE  /\ Request(kind) \in Job
           /\ Request(kind).code = NoRow
           /\ Request(kind).kind = kind
           /\ \A a \in Account : /\ [Request(kind) EXCEPT !.account = a] \in Job
                                 /\ [Request(kind) EXCEPT !.account = a].account = a
                                 /\ [Request(kind) EXCEPT !.account = a].code = NoRow
  BY SignInBounds DEF Request, Job


LEMMA Bounds ==
    /\ MaxFailedAttempts \in Nat /\ MaxAttempts \in Nat /\ CodeTtl \in Nat
    /\ MaxFailedAttempts > 0 /\ MaxAttempts > 0 /\ CodeTtl > 0
    /\ LockoutTime \in Nat /\ TokenTtl \in Nat /\ MaxCodes \in Nat
    /\ MaxSessions \in Nat /\ MaxRequests \in Nat /\ MaxClock \in Nat
  BY SignInBounds

\* The counters of the account, written within their bounds.
LEMMA AccountWritten ==
    ASSUME NEW a \in Account, NEW n \in 0..MaxFailedAttempts,
           NEW t \in 0..(MaxClock + LockoutTime)
    PROVE  [a EXCEPT !.failed_login_count = n, !.lockout_until = t] \in Account
  BY DEF Account

LEMMA InitIInv == Init => IInv
  <1> SUFFICES ASSUME Init PROVE IInv
    OBVIOUS
  <1>1. account \in Account
    BY DEF Init
  <1>2. mfa_was_off \in BOOLEAN
    BY DEF Init
  <1>3. TypeOK
    <2>1. /\ now \in 0..MaxClock
          /\ mfa_until \in 0..(MaxClock + TokenTtl) /\ change_until \in 0..(MaxClock + TokenTtl)
          /\ misses \in Nat /\ started \in 0..MaxRequests
      BY Bounds DEF Init
    <2>2. codes \in [Codes -> Code \cup {NoRow}] /\ sessions \in [Sessions -> Minted \cup {NoRow}]
      BY DEF Init
    <2>3. phase \in [Procs -> Phases] /\ job \in [Procs -> Job \cup {NoJob}]
      BY DEF Init, Phases
    <2>4. {mfa_was_off, gate, contended} \subseteq BOOLEAN
      BY <1>2 DEF Init
    <2> QED
      BY <1>1, <2>1, <2>2, <2>3, <2>4 DEF TypeOK
  <1>4. RequestsOK
    BY DEF Init, RequestsOK, RequestOK, VerifyPhases
  <1> QED
    BY <1>3, <1>4 DEF IInv

----------------------------------------------------------------------------
(* Every action preserves the invariant *)

\* The login: validateUser.
LEMMA LoginKeeps ==
    ASSUME IInv, NEW p \in Procs,
           \/ \E right \in BOOLEAN : LoginRead(p, right)
           \/ RegisterFailedLogin(p)
           \/ ClearFailures(p)
    PROVE  IInv'
  <1> USE DEF accountVars, mfaVars
  <1>1. ASSUME NEW right \in BOOLEAN, LoginRead(p, right) PROVE IInv'
    <2>1. account \in Account
      BY DEF IInv, TypeOK
    <2> DEFINE ph == IF right THEN "login_ok" ELSE "login_failed"
               j == [Request("login") EXCEPT !.account = account]
    <2>2. ph \in Phases /\ j \in Job /\ j.account = account /\ j.code = NoRow
      BY <2>1, RequestType DEF Phases
    <2>3. ph \in {"login_ok", "login_failed"}
      OBVIOUS
    <2>4. Start(p, ph, j) /\ codes' = codes
      BY <1>1 DEF LoginRead
    <2> HIDE DEF ph, j
    <2>5. RequestOK(ph, j, codes)
      BY <2>1, <2>2, <2>3 DEF RequestOK, VerifyPhases
    <2>6. /\ RequestsOK' /\ phase' \in [Procs -> Phases] /\ job' \in [Procs -> Job \cup {NoJob}]
          /\ contended' \in BOOLEAN /\ started' \in 0..MaxRequests
      BY <2>2, <2>4, <2>5, StartKeeps
    <2>7. TypeOK'
      BY <1>1, <2>6 DEF LoginRead, IInv, TypeOK
    <2> QED
      BY <2>6, <2>7 DEF IInv
  <1>2. ASSUME RegisterFailedLogin(p) PROVE IInv'
    <2>1. job[p].account \in Account /\ account \in Account /\ now \in 0..MaxClock /\ misses \in Nat
      BY <1>2 DEF RegisterFailedLogin, IInv, TypeOK, RequestsOK, RequestOK
    <2> DEFINE next == job[p].account.failed_login_count + 1
    <2>2. next \in Nat /\ (~ShouldLock(next) => next \in 0..MaxFailedAttempts)
      BY <2>1, Bounds DEF Account, ShouldLock
    <2>3. /\ account' = [account EXCEPT
                 !.failed_login_count = IF ShouldLock(next) THEN 0 ELSE next,
                 !.lockout_until = IF ShouldLock(next) THEN now + LockoutTime ELSE @]
          /\ misses' = IF ShouldLock(next) THEN 0 ELSE misses + 1
      BY <1>2 DEF RegisterFailedLogin
    <2> HIDE DEF next
    <2>4. account' \in Account /\ misses' \in Nat
      <3>1. account.lockout_until \in 0..(MaxClock + LockoutTime)
        BY <2>1 DEF Account
      <3>2. 0 \in 0..MaxFailedAttempts /\ now + LockoutTime \in 0..(MaxClock + LockoutTime)
        BY <2>1, Bounds
      <3>3. CASE ShouldLock(next)
        <4>1. /\ account' = [account EXCEPT !.failed_login_count = 0,
                                            !.lockout_until = now + LockoutTime]
              /\ misses' = 0
          BY <2>3, <3>3
        <4> QED
          BY <2>1, <3>2, <4>1, AccountWritten
      <3>4. CASE ~ShouldLock(next)
        <4>1. /\ account' = [account EXCEPT !.failed_login_count = next,
                                            !.lockout_until = account.lockout_until]
              /\ misses' = misses + 1
          BY <2>1, <2>3, <3>4 DEF Account
        <4>2. next \in 0..MaxFailedAttempts
          BY <2>2, <3>4
        <4>3. account' \in Account
          BY <2>1, <3>1, <4>1, <4>2, AccountWritten
        <4> QED
          BY <2>1, <4>1, <4>3
      <3> QED
        BY <3>3, <3>4
    <2>5. Finish(p) /\ CodesKept(codes, codes')
      BY <1>2, CodesStay DEF RegisterFailedLogin
    <2>6. /\ RequestsOK' /\ phase' \in [Procs -> Phases] /\ job' \in [Procs -> Job \cup {NoJob}]
          /\ contended' \in BOOLEAN /\ started' \in 0..MaxRequests
      BY <2>5, FinishKeeps
    <2>7. TypeOK'
      BY <1>2, <2>4, <2>6 DEF RegisterFailedLogin, IInv, TypeOK
    <2> QED
      BY <2>6, <2>7 DEF IInv
  <1>3. ASSUME ClearFailures(p) PROVE IInv'
    <2>1. account \in Account /\ misses \in Nat
      BY DEF IInv, TypeOK
    <2>2. account' \in Account /\ misses' \in Nat
      <3>1. 0 \in 0..MaxFailedAttempts /\ 0 \in 0..(MaxClock + LockoutTime)
        BY Bounds
      <3>2. [account EXCEPT !.failed_login_count = 0, !.lockout_until = 0] \in Account
        BY <2>1, <3>1, AccountWritten
      <3> QED
        BY <1>3, <2>1, <3>2 DEF ClearFailures
    <2>3. Goto(p, "decide") /\ codes' = codes /\ phase[p] = "login_ok"
      BY <1>3 DEF ClearFailures
    <2>4. RequestOK("decide", job[p], codes')
      BY <2>3 DEF IInv, RequestsOK, RequestOK, VerifyPhases
    <2>5. "decide" \in Phases
      BY DEF Phases
    <2>6. /\ RequestsOK' /\ phase' \in [Procs -> Phases] /\ job' \in [Procs -> Job \cup {NoJob}]
          /\ contended' \in BOOLEAN /\ started' \in 0..MaxRequests
      BY <2>3, <2>4, <2>5, CodesStay, GotoKeeps
    <2>7. TypeOK'
      BY <1>3, <2>2, <2>6 DEF ClearFailures, IInv, TypeOK
    <2> QED
      BY <2>6, <2>7 DEF IInv
  <1> QED
    BY <1>1, <1>2, <1>3


\* The fork: decideAfterPassword.
LEMMA DecideKeeps ==
    ASSUME IInv, NEW p \in Procs, DecideChange(p) \/ DecideCodeOrSession(p)
    PROVE  IInv'
  <1> USE DEF accountVars, mfaVars
  <1>1. ASSUME DecideChange(p) PROVE IInv'
    <2>1. change_until' \in 0..(MaxClock + TokenTtl)
      BY <1>1, Bounds DEF DecideChange, IInv, TypeOK
    <2>2. Finish(p) /\ CodesKept(codes, codes')
      BY <1>1, CodesStay DEF DecideChange
    <2>3. /\ RequestsOK' /\ phase' \in [Procs -> Phases] /\ job' \in [Procs -> Job \cup {NoJob}]
          /\ contended' \in BOOLEAN /\ started' \in 0..MaxRequests
      BY <2>2, FinishKeeps
    <2>4. TypeOK'
      BY <1>1, <2>1, <2>3 DEF DecideChange, IInv, TypeOK
    <2> QED
      BY <2>3, <2>4 DEF IInv
  <1>2. ASSUME DecideCodeOrSession(p) PROVE IInv'
    <2> DEFINE ph == IF NeedsCode(p) THEN "send" ELSE "mint"
    <2>1. phase[p] = "decide" /\ Goto(p, ph) /\ codes' = codes
      BY <1>2 DEF DecideCodeOrSession
    <2>2. ph \in {"send", "mint"} /\ ph \in Phases
      BY DEF Phases
    <2> HIDE DEF ph
    <2>3. job[p].code = NoRow /\ job[p] \in Job
      BY <2>1 DEF IInv, RequestsOK, RequestOK, VerifyPhases
    <2>4. RequestOK(ph, job[p], codes')
      BY <2>1, <2>2, <2>3, SignInNoRow DEF RequestOK, VerifyPhases
    <2>5. /\ RequestsOK' /\ phase' \in [Procs -> Phases] /\ job' \in [Procs -> Job \cup {NoJob}]
          /\ contended' \in BOOLEAN /\ started' \in 0..MaxRequests
      BY <2>1, <2>2, <2>4, CodesStay, GotoKeeps
    <2>6. TypeOK'
      BY <1>2, <2>5 DEF DecideCodeOrSession, IInv, TypeOK
    <2> QED
      BY <2>5, <2>6 DEF IInv
  <1> QED
    BY <1>1, <1>2

\* A row that stands is a code, and no code is the missing row.
LEMMA StandingCode ==
    ASSUME TypeOK, NEW c \in Codes, codes[c] # NoRow
    PROVE  codes[c] \in Code
  BY DEF TypeOK

\* One row consumed.
LEMMA CodeConsumed ==
    ASSUME TypeOK, NEW c \in Codes, codes[c] # NoRow
    PROVE  /\ Consumed(c) \in [Codes -> Code \cup {NoRow}]
           /\ CodesKept(codes, Consumed(c))
           /\ Consumed(c)[c] # NoRow /\ Consumed(c)[c].consumed
  <1>1. codes \in [Codes -> Code \cup {NoRow}] /\ codes[c] \in Code
    BY StandingCode DEF TypeOK
  <1> DEFINE row == [codes[c] EXCEPT !.consumed = TRUE]
  <1>2. row \in Code /\ row.consumed
    BY <1>1 DEF Code
  <1>3. Consumed(c) = [codes EXCEPT ![c] = row]
    BY DEF Consumed
  <1> HIDE DEF row
  <1>4. row # NoRow
    BY <1>2, SignInNoRow
  <1> QED
    BY <1>1, <1>2, <1>3, <1>4 DEF CodesKept

\* Every row consumed.
LEMMA AllConsumed ==
    ASSUME TypeOK
    PROVE  /\ OlderConsumed \in [Codes -> Code \cup {NoRow}]
           /\ CodesKept(codes, OlderConsumed)
  <1>1. ASSUME NEW c \in Codes, codes[c] # NoRow
        PROVE  /\ [codes[c] EXCEPT !.consumed = TRUE] \in Code
               /\ [codes[c] EXCEPT !.consumed = TRUE].consumed
               /\ [codes[c] EXCEPT !.consumed = TRUE] # NoRow
    <2>1. codes[c] \in Code
      BY <1>1, StandingCode
    <2>2. [codes[c] EXCEPT !.consumed = TRUE] \in Code /\ [codes[c] EXCEPT !.consumed = TRUE].consumed
      BY <2>1 DEF Code
    <2> QED
      BY <2>2, SignInNoRow
  <1> QED
    BY <1>1 DEF OlderConsumed, CodesKept

\* A row inserted, in a place that was free.
LEMMA CodeCreated ==
    ASSUME IInv, NEW p \in Procs, NEW c \in Codes, NEW mailed \in BOOLEAN,
           CreateCode(p, c, mailed)
    PROVE  codes' \in [Codes -> Code \cup {NoRow}] /\ CodesKept(codes, codes')
  <1> DEFINE row == [consumed |-> FALSE, attempts |-> 0, expires_at |-> now + CodeTtl,
                     mailed |-> mailed, tried |-> 0]
  <1>1. now \in 0..MaxClock /\ codes \in [Codes -> Code \cup {NoRow}] /\ codes[c] = NoRow
    BY DEF IInv, TypeOK, CreateCode
  <1>2. row \in Code
    BY <1>1, Bounds DEF Code
  <1>3. codes' = [codes EXCEPT ![c] = row]
    BY DEF CreateCode
  <1> HIDE DEF row
  <1> QED
    BY <1>1, <1>2, <1>3 DEF CodesKept

\* A wrong guess counted: the count that was read was below the cap.
LEMMA GuessCounted ==
    ASSUME IInv, NEW p \in Procs, CountWrongGuess(p)
    PROVE  codes' \in [Codes -> Code \cup {NoRow}] /\ CodesKept(codes, codes')
  <1> DEFINE c == job[p].code
  <1>1. c \in Codes /\ codes[c] # NoRow /\ job[p] \in Job /\ job[p].attempts < MaxAttempts
    BY DEF CountWrongGuess, IInv, RequestsOK, RequestOK, VerifyPhases
  <1>2. codes[c] \in Code /\ codes \in [Codes -> Code \cup {NoRow}]
    BY <1>1, StandingCode DEF IInv, TypeOK
  <1>3. job[p].attempts + 1 \in 0..MaxAttempts
    <2>1. job[p].attempts \in 0..MaxAttempts
      BY <1>1 DEF Job
    <2> QED
      BY <1>1, <2>1, Bounds
  <1> DEFINE row == [codes[c] EXCEPT !.attempts = job[p].attempts + 1,
                                  !.tried = codes[c].tried + 1]
  <1>4. codes' = [codes EXCEPT ![c] = row]
    BY <1>1, <1>2 DEF CountWrongGuess, Code
  <1>5. row \in Code /\ row.consumed = codes[c].consumed
    <2>1. codes[c].tried + 1 \in Nat
      BY <1>2 DEF Code
    <2> QED
      BY <1>2, <1>3, <2>1 DEF Code
  <1> HIDE DEF row
  <1> QED
    BY <1>1, <1>2, <1>4, <1>5, SignInNoRow DEF CodesKept

\* Sending a code: sendMfaChallenge.
LEMMA SendKeeps ==
    ASSUME IInv, NEW p \in Procs,
           \/ ConsumePriorCodes(p)
           \/ \E c \in Codes, mailed \in BOOLEAN : CreateCode(p, c, mailed)
    PROVE  IInv'
  <1> USE DEF accountVars, mfaVars
  <1>1. ASSUME ConsumePriorCodes(p) PROVE IInv'
    <2>1. codes' \in [Codes -> Code \cup {NoRow}] /\ CodesKept(codes, codes')
      BY <1>1, AllConsumed DEF ConsumePriorCodes, IInv
    <2>2. Goto(p, "create_code") /\ phase[p] = "send" /\ "create_code" \in Phases
      BY <1>1 DEF ConsumePriorCodes, Phases
    <2>3. RequestOK("create_code", job[p], codes')
      BY <2>2 DEF IInv, RequestsOK, RequestOK, VerifyPhases
    <2>4. /\ RequestsOK' /\ phase' \in [Procs -> Phases] /\ job' \in [Procs -> Job \cup {NoJob}]
          /\ contended' \in BOOLEAN /\ started' \in 0..MaxRequests
      BY <2>1, <2>2, <2>3, GotoKeeps
    <2>5. TypeOK'
      BY <1>1, <2>1, <2>4 DEF ConsumePriorCodes, IInv, TypeOK
    <2> QED
      BY <2>4, <2>5 DEF IInv
  <1>2. ASSUME NEW c \in Codes, NEW mailed \in BOOLEAN, CreateCode(p, c, mailed) PROVE IInv'
    <2>1. now \in 0..MaxClock
      BY DEF IInv, TypeOK
    <2>4. codes' \in [Codes -> Code \cup {NoRow}] /\ CodesKept(codes, codes')
      BY <1>2, CodeCreated
    <2>5. mfa_until' \in 0..(MaxClock + TokenTtl)
      <3>1. mfa_until \in 0..(MaxClock + TokenTtl)
        BY DEF IInv, TypeOK
      <3>2. now + TokenTtl \in 0..(MaxClock + TokenTtl)
        BY <2>1, Bounds
      <3>3. mfa_until' \in {now + TokenTtl, mfa_until}
        BY <1>2 DEF CreateCode
      <3> QED
        BY <3>1, <3>2, <3>3
    <2>6. Finish(p)
      BY <1>2 DEF CreateCode
    <2>7. /\ RequestsOK' /\ phase' \in [Procs -> Phases] /\ job' \in [Procs -> Job \cup {NoJob}]
          /\ contended' \in BOOLEAN /\ started' \in 0..MaxRequests
      BY <2>4, <2>6, FinishKeeps
    <2>8. TypeOK'
      <3>1. UNCHANGED <<now, account, misses, mfa_was_off, sessions, change_until, gate>>
        BY <1>2 DEF CreateCode
      <3> QED
        BY <2>4, <2>5, <2>7, <3>1 DEF IInv, TypeOK
    <2> QED
      BY <2>7, <2>8 DEF IInv
  <1> QED
    BY <1>1, <1>2


\* Reading a code, and asking for another: verifyMfaCode and resendMfaCode.
LEMMA VerifyReadKeeps ==
    ASSUME IInv, NEW p \in Procs,
           \/ \E typed \in Codes \cup {NoRow} : VerifyRead(p, typed)
           \/ ResendRead(p)
    PROVE  IInv'
  <1> USE DEF accountVars, mfaVars
  <1>1. ASSUME NEW typed \in Codes \cup {NoRow}, VerifyRead(p, typed) PROVE IInv'
    <2>1. PICK c \in Codes :
            /\ Redeemable(c)
            /\ Start(p, IF Exhausted(codes[c]) THEN "verify_locked"
                        ELSE IF typed = c THEN "verify_right" ELSE "verify_wrong",
                     [kind |-> "verify", account |-> NoRow, code |-> c,
                      attempts |-> codes[c].attempts])
      BY <1>1 DEF VerifyRead
    <2> DEFINE ph == IF Exhausted(codes[c]) THEN "verify_locked"
                     ELSE IF typed = c THEN "verify_right" ELSE "verify_wrong"
               j == [kind |-> "verify", account |-> NoRow, code |-> c,
                     attempts |-> codes[c].attempts]
    <2>2. codes[c] # NoRow /\ codes[c].attempts \in 0..MaxAttempts
      BY <2>1, StandingCode DEF Redeemable, IInv, Code
    <2>4. Start(p, ph, j)
      BY <2>1
    <2>5. j \in Job /\ j.kind = "verify" /\ j.code = c /\ j.attempts = codes[c].attempts
      BY <2>2 DEF Job
    <2>6. ph \in VerifyPhases /\ ph \in Phases
      BY DEF Phases, VerifyPhases
    <2>7. ph = "verify_wrong" => codes[c].attempts < MaxAttempts
      BY <2>2, Bounds DEF Exhausted
    <2> HIDE DEF ph, j
    <2>8. RequestOK(ph, j, codes)
      BY <2>2, <2>5, <2>6, <2>7 DEF RequestOK, VerifyPhases
    <2>9. UNCHANGED <<now, account, misses, mfa_was_off, codes, mfa_until, sessions,
                      change_until, gate>>
      BY <1>1 DEF VerifyRead
    <2>10. /\ RequestsOK' /\ phase' \in [Procs -> Phases] /\ job' \in [Procs -> Job \cup {NoJob}]
           /\ contended' \in BOOLEAN /\ started' \in 0..MaxRequests
      BY <2>4, <2>5, <2>6, <2>8, <2>9, StartKeeps
    <2>11. TypeOK'
      BY <2>9, <2>10 DEF IInv, TypeOK
    <2> QED
      BY <2>10, <2>11 DEF IInv
  <1>2. ASSUME ResendRead(p) PROVE IInv'
    <2>1. Start(p, "send", Request("resend")) /\ codes' = codes
      BY <1>2 DEF ResendRead
    <2>2. Request("resend") \in Job /\ RequestOK("send", Request("resend"), codes)
      BY RequestType DEF RequestOK, VerifyPhases
    <2>3. "send" \in Phases
      BY DEF Phases
    <2>4. /\ RequestsOK' /\ phase' \in [Procs -> Phases] /\ job' \in [Procs -> Job \cup {NoJob}]
          /\ contended' \in BOOLEAN /\ started' \in 0..MaxRequests
      BY <2>1, <2>2, <2>3, StartKeeps
    <2>5. TypeOK'
      BY <1>2, <2>4 DEF ResendRead, IInv, TypeOK
    <2> QED
      BY <2>4, <2>5 DEF IInv
  <1> QED
    BY <1>1, <1>2

\* Counting a wrong guess, burning a code, redeeming it.
LEMMA VerifyWriteKeeps ==
    ASSUME IInv, NEW p \in Procs,
           CountWrongGuess(p) \/ BurnCode(p) \/ ConsumeCode(p)
    PROVE  IInv'
  <1> USE DEF accountVars, mfaVars
  <1> DEFINE c == job[p].code
  <1>1. phase[p] \in VerifyPhases
    BY DEF CountWrongGuess, BurnCode, ConsumeCode, VerifyPhases
  <1>2. c \in Codes /\ codes[c] # NoRow /\ job[p] \in Job /\ TypeOK
    BY <1>1 DEF IInv, RequestsOK, RequestOK, VerifyPhases
  <1>3. ASSUME CountWrongGuess(p) PROVE IInv'
    <2>5. codes' \in [Codes -> Code \cup {NoRow}] /\ CodesKept(codes, codes')
      BY <1>3, GuessCounted
    <2>6. Finish(p) /\ UNCHANGED <<now, account, misses, mfa_was_off, mfa_until, sessions,
                                   change_until, gate>>
      BY <1>3 DEF CountWrongGuess
    <2>7. /\ RequestsOK' /\ phase' \in [Procs -> Phases] /\ job' \in [Procs -> Job \cup {NoJob}]
          /\ contended' \in BOOLEAN /\ started' \in 0..MaxRequests
      BY <2>5, <2>6, FinishKeeps
    <2>8. TypeOK'
      BY <1>2, <2>5, <2>6, <2>7 DEF TypeOK
    <2> QED
      BY <2>7, <2>8 DEF IInv
  <1>4. ASSUME BurnCode(p) PROVE IInv'
    <2>1. codes' = Consumed(c)
      BY <1>4 DEF BurnCode, Consumed
    <2>2. codes' \in [Codes -> Code \cup {NoRow}] /\ CodesKept(codes, codes')
      BY <1>2, <2>1, CodeConsumed
    <2>3. Finish(p) /\ UNCHANGED <<now, account, misses, mfa_was_off, mfa_until, sessions,
                                   change_until, gate>>
      BY <1>4 DEF BurnCode
    <2>4. /\ RequestsOK' /\ phase' \in [Procs -> Phases] /\ job' \in [Procs -> Job \cup {NoJob}]
          /\ contended' \in BOOLEAN /\ started' \in 0..MaxRequests
      BY <2>2, <2>3, FinishKeeps
    <2>5. TypeOK'
      BY <1>2, <2>2, <2>3, <2>4 DEF TypeOK
    <2> QED
      BY <2>4, <2>5 DEF IInv
  <1>5. ASSUME ConsumeCode(p) PROVE IInv'
    <2>1. codes' = Consumed(c)
      BY <1>5 DEF ConsumeCode
    <2>2. /\ codes' \in [Codes -> Code \cup {NoRow}] /\ CodesKept(codes, codes')
          /\ codes'[c] # NoRow /\ codes'[c].consumed
      BY <1>2, <2>1, CodeConsumed
    <2>3. Goto(p, "mint") /\ UNCHANGED <<now, account, misses, mfa_was_off, mfa_until, sessions,
                                         change_until, gate>>
      BY <1>5 DEF ConsumeCode
    <2>4. "mint" \in Phases /\ RequestOK("mint", job[p], codes')
      BY <1>2, <2>2 DEF RequestOK, VerifyPhases, Phases
    <2>5. /\ RequestsOK' /\ phase' \in [Procs -> Phases] /\ job' \in [Procs -> Job \cup {NoJob}]
          /\ contended' \in BOOLEAN /\ started' \in 0..MaxRequests
      BY <2>2, <2>3, <2>4, GotoKeeps
    <2>6. TypeOK'
      BY <1>2, <2>2, <2>3, <2>5 DEF TypeOK
    <2> QED
      BY <2>5, <2>6 DEF IInv
  <1> QED
    BY <1>3, <1>4, <1>5


\* createSession and revokeAllForUser: the sessions keep their types.
LEMMA SessionTypes ==
    ASSUME TypeOK
    PROVE  /\ SessionsRevoked \in [Sessions -> Minted \cup {NoRow}]
           /\ \A s \in Sessions, how \in Paths, code \in Codes \cup {NoRow} :
                 [sessions EXCEPT ![s] = [how |-> how, code |-> code, live |-> TRUE]]
                    \in [Sessions -> Minted \cup {NoRow}]
  <1>1. sessions \in [Sessions -> Minted \cup {NoRow}]
    BY DEF TypeOK
  <1>2. \A m \in Minted : [m EXCEPT !.live = FALSE] \in Minted
    BY DEF Minted
  <1>3. SessionsRevoked \in [Sessions -> Minted \cup {NoRow}]
    BY <1>1, <1>2 DEF SessionsRevoked
  <1>4. \A how \in Paths, code \in Codes \cup {NoRow} :
            [how |-> how, code |-> code, live |-> TRUE] \in Minted
    BY DEF Minted
  <1> QED
    BY <1>1, <1>3, <1>4

LEMMA MintKeeps ==
    ASSUME IInv, NEW p \in Procs, NEW s \in Sessions, MintSession(p, s)
    PROVE  IInv'
  <1> USE DEF accountVars, mfaVars
  <1>1. job[p] \in Job /\ TypeOK
    BY DEF MintSession, IInv, RequestsOK, RequestOK
  <1>2. job[p].code \in Codes \cup {NoRow}
    BY <1>1 DEF Job
  <1> DEFINE how == IF job[p].kind = "verify" THEN "code" ELSE "password"
  <1>3. how \in Paths
    BY DEF Paths
  <1>4. sessions' = [sessions EXCEPT ![s] = [how |-> how, code |-> job[p].code, live |-> TRUE]]
    BY DEF MintSession
  <1> HIDE DEF how
  <1>5. sessions' \in [Sessions -> Minted \cup {NoRow}]
    BY <1>1, <1>2, <1>3, <1>4, SessionTypes
  <1>6. Finish(p) /\ codes' = codes
    BY DEF MintSession
  <1>7. /\ RequestsOK' /\ phase' \in [Procs -> Phases] /\ job' \in [Procs -> Job \cup {NoJob}]
          /\ contended' \in BOOLEAN /\ started' \in 0..MaxRequests
    BY <1>6, CodesStay, FinishKeeps
  <1>8. TypeOK'
    BY <1>1, <1>5, <1>7 DEF MintSession, TypeOK
  <1> QED
    BY <1>7, <1>8 DEF IInv

\* A forced reset and the revocation it shares with a password change.
LEMMA ResetKeeps ==
    ASSUME IInv, NEW p \in Procs, RequireChange(p) \/ RevokeAll(p)
    PROVE  IInv'
  <1> USE DEF accountVars, mfaVars
  <1>1. ASSUME RequireChange(p) PROVE IInv'
    <2>1. account' \in Account
      BY <1>1 DEF RequireChange, IInv, TypeOK, Account
    <2>2. Start(p, "revoke_all", Request("reset")) /\ codes' = codes
      BY <1>1 DEF RequireChange
    <2>3. Request("reset") \in Job /\ RequestOK("revoke_all", Request("reset"), codes)
      BY RequestType DEF RequestOK, VerifyPhases
    <2>4. "revoke_all" \in Phases
      BY DEF Phases
    <2>5. /\ RequestsOK' /\ phase' \in [Procs -> Phases] /\ job' \in [Procs -> Job \cup {NoJob}]
          /\ contended' \in BOOLEAN /\ started' \in 0..MaxRequests
      BY <2>2, <2>3, <2>4, StartKeeps
    <2>6. TypeOK'
      BY <1>1, <2>1, <2>5 DEF RequireChange, IInv, TypeOK
    <2> QED
      BY <2>5, <2>6 DEF IInv
  <1>2. ASSUME RevokeAll(p) PROVE IInv'
    <2>1. TypeOK /\ account.must_change_password \in BOOLEAN
      BY DEF IInv, TypeOK, Account
    <2>2. sessions' \in [Sessions -> Minted \cup {NoRow}]
      BY <1>2, <2>1, SessionTypes DEF RevokeAll
    <2>3. /\ UNCHANGED <<now, account, misses, mfa_was_off, codes, mfa_until, change_until>>
          /\ phase[p] = "revoke_all"
          /\ gate' \in {gate, account.must_change_password}
          /\ Finish(p) \/ Goto(p, "reread")
      BY <1>2 DEF RevokeAll
    <2>4. CodesKept(codes, codes')
      BY <2>3, CodesStay
    <2>5. RequestOK("reread", job[p], codes') /\ "reread" \in Phases
      BY <2>3 DEF IInv, RequestsOK, RequestOK, VerifyPhases, Phases
    <2>6. /\ RequestsOK' /\ phase' \in [Procs -> Phases] /\ job' \in [Procs -> Job \cup {NoJob}]
          /\ contended' \in BOOLEAN /\ started' \in 0..MaxRequests
      BY <2>3, <2>4, <2>5, FinishKeeps, GotoKeeps
    <2>7. TypeOK'
      BY <2>1, <2>2, <2>3, <2>6 DEF TypeOK
    <2> QED
      BY <2>6, <2>7 DEF IInv
  <1> QED
    BY <1>1, <1>2

\* The password change.
LEMMA ChangeKeeps ==
    ASSUME IInv, NEW p \in Procs, ChangeRead(p) \/ ChangeWrite(p) \/ ChangeReread(p)
    PROVE  IInv'
  <1> USE DEF accountVars, mfaVars
  <1>1. ASSUME ChangeRead(p) PROVE IInv'
    <2>1. Start(p, "change_write", Request("change")) /\ codes' = codes
      BY <1>1 DEF ChangeRead
    <2>2. Request("change") \in Job /\ RequestOK("change_write", Request("change"), codes)
      BY RequestType DEF RequestOK, VerifyPhases
    <2>3. "change_write" \in Phases
      BY DEF Phases
    <2>4. /\ RequestsOK' /\ phase' \in [Procs -> Phases] /\ job' \in [Procs -> Job \cup {NoJob}]
          /\ contended' \in BOOLEAN /\ started' \in 0..MaxRequests
      BY <2>1, <2>2, <2>3, StartKeeps
    <2>5. TypeOK'
      BY <1>1, <2>4 DEF ChangeRead, IInv, TypeOK
    <2> QED
      BY <2>4, <2>5 DEF IInv
  <1>2. ASSUME ChangeWrite(p) PROVE IInv'
    <2>1. account \in Account /\ 0 \in 0..MaxFailedAttempts /\ 0 \in 0..(MaxClock + LockoutTime)
      BY Bounds DEF IInv, TypeOK
    <2> DEFINE open == [account EXCEPT !.must_change_password = FALSE]
    <2>2. open \in Account
      BY <2>1 DEF Account
    <2>3. [open EXCEPT !.failed_login_count = 0, !.lockout_until = 0] \in Account
      BY <2>1, <2>2, AccountWritten
    <2>4. account' = [open EXCEPT !.failed_login_count = 0, !.lockout_until = 0]
      BY <1>2 DEF ChangeWrite
    <2> HIDE DEF open
    <2>5. phase[p] = "change_write" /\ Goto(p, "revoke_all") /\ codes' = codes
      BY <1>2 DEF ChangeWrite
    <2>6. RequestOK("revoke_all", job[p], codes') /\ "revoke_all" \in Phases
      BY <2>5 DEF IInv, RequestsOK, RequestOK, VerifyPhases, Phases
    <2>7. /\ RequestsOK' /\ phase' \in [Procs -> Phases] /\ job' \in [Procs -> Job \cup {NoJob}]
          /\ contended' \in BOOLEAN /\ started' \in 0..MaxRequests
      BY <2>5, <2>6, CodesStay, GotoKeeps
    <2>8. TypeOK'
      BY <1>2, <2>3, <2>4, <2>7 DEF ChangeWrite, IInv, TypeOK
    <2> QED
      BY <2>7, <2>8 DEF IInv
  <1>3. ASSUME ChangeReread(p) PROVE IInv'
    <2> DEFINE j == [job[p] EXCEPT !.account = account]
    <2>1. /\ account \in Account /\ contended \in BOOLEAN /\ started \in 0..MaxRequests
          /\ job \in [Procs -> Job \cup {NoJob}]
      BY DEF IInv, TypeOK
    <2>2. job[p] \in Job /\ job[p].code = NoRow
      BY <1>3 DEF ChangeReread, IInv, RequestsOK, RequestOK, VerifyPhases
    <2>3. j \in Job /\ j.account = account /\ j.code = NoRow
      BY <2>1, <2>2 DEF Job
    <2>4. phase' = [phase EXCEPT ![p] = "decide"] /\ job' = [job EXCEPT ![p] = j]
      BY <1>3 DEF ChangeReread
    <2> HIDE DEF j
    <2>5. RequestOK("decide", j, codes) /\ "decide" \in Phases
      BY <2>1, <2>3 DEF RequestOK, VerifyPhases, Phases
    <2>6. UNCHANGED <<now, account, misses, mfa_was_off, codes, mfa_until, sessions,
                      change_until, gate, contended, started>>
      BY <1>3 DEF ChangeReread
    <2>7. RequestsOK' /\ phase' \in [Procs -> Phases] /\ job' \in [Procs -> Job \cup {NoJob}]
      BY <2>3, <2>4, <2>5, <2>6, CodesStay, RequestsKept
    <2>8. TypeOK'
      BY <2>6, <2>7 DEF IInv, TypeOK
    <2> QED
      BY <2>7, <2>8 DEF IInv
  <1> QED
    BY <1>1, <1>2, <1>3

\* The environment: the MFA flag, failures, the clock.
LEMMA EnvironmentKeeps ==
    ASSUME IInv, \/ \E b \in BOOLEAN : SetMfa(b)
                 \/ \E p \in Procs : Abort(p)
                 \/ Tick
    PROVE  IInv'
  <1> USE DEF accountVars, mfaVars, requestVars
  <1>1. ASSUME NEW b \in BOOLEAN, SetMfa(b) PROVE IInv'
    <2>1. account' \in Account /\ mfa_was_off' \in BOOLEAN
      BY <1>1 DEF SetMfa, IInv, TypeOK, Account
    <2>2. TypeOK' /\ RequestsOK'
      BY <1>1, <2>1 DEF SetMfa, IInv, TypeOK, RequestsOK
    <2> QED
      BY <2>2 DEF IInv
  <1>2. ASSUME NEW p \in Procs, Abort(p) PROVE IInv'
    <2>1. Finish(p) /\ codes' = codes
      BY <1>2 DEF Abort
    <2>2. /\ RequestsOK' /\ phase' \in [Procs -> Phases] /\ job' \in [Procs -> Job \cup {NoJob}]
          /\ contended' \in BOOLEAN /\ started' \in 0..MaxRequests
      BY <2>1, CodesStay, FinishKeeps
    <2>3. TypeOK'
      BY <1>2, <2>2 DEF Abort, IInv, TypeOK
    <2> QED
      BY <2>2, <2>3 DEF IInv
  <1>3. ASSUME Tick PROVE IInv'
    <2>1. now' \in 0..MaxClock
      BY <1>3, Bounds DEF Tick, IInv, TypeOK
    <2>2. TypeOK' /\ RequestsOK'
      BY <1>3, <2>1 DEF Tick, IInv, TypeOK, RequestsOK
    <2> QED
      BY <2>2 DEF IInv
  <1> QED
    BY <1>1, <1>2, <1>3

LEMMA NextKeeps == IInv /\ [Next]_vars => IInv'
  <1> SUFFICES ASSUME IInv, [Next]_vars PROVE IInv'
    OBVIOUS
  <1>1. CASE Next
    BY <1>1, LoginKeeps, DecideKeeps, SendKeeps, VerifyReadKeeps, VerifyWriteKeeps,
       MintKeeps, ResetKeeps, ChangeKeeps, EnvironmentKeeps DEF Next
  <1>2. CASE UNCHANGED vars
    BY <1>2 DEF vars, accountVars, mfaVars, requestVars, IInv, TypeOK, RequestsOK
  <1> QED
    BY <1>1, <1>2

LEMMA Invariance == Spec => []IInv
  BY InitIInv, NextKeeps, PTL DEF Spec

\* The columns, codes, sessions and requests have their types in every reachable
\* state: counters stay within their thresholds, however stale the value was that
\* was written back.
THEOREM TypeCorrect == Spec => []TypeOK
  <1>1. IInv => TypeOK
    BY DEF IInv
  <1> QED
    BY Invariance, <1>1, PTL


----------------------------------------------------------------------------
(* The gates compose *)

\* What a request must know for no password to reach a session alone: the user it
\* read has MFA on, and what it mints for is a code.
RequestGated(ph, j) ==
    /\ ph \in {"login_ok", "decide"} => j.account.mfa_enabled
    /\ ph = "mint" => j.kind = "verify"

Gated ==
    ~mfa_was_off =>
        /\ account.mfa_enabled
        /\ \A p \in Procs : RequestGated(phase[p], job[p])

\* A step of p that leaves the flag alone.
LEMMA GatedKept ==
    ASSUME TypeOK, Gated, NEW p \in Procs, NEW ph, NEW j,
           phase' = [phase EXCEPT ![p] = ph],
           job' = [job EXCEPT ![p] = j],
           mfa_was_off' = mfa_was_off,
           account'.mfa_enabled = account.mfa_enabled,
           ~mfa_was_off => RequestGated(ph, j)
    PROVE  Gated'
  <1>1. phase'[p] = ph /\ job'[p] = j
    BY DEF TypeOK
  <1>2. \A q \in Procs \ {p} : phase'[q] = phase[q] /\ job'[q] = job[q]
    BY DEF TypeOK
  <1> QED
    BY <1>1, <1>2 DEF Gated

\* The same when the phase it enters carries no obligation.
LEMMA GatedByPhase ==
    ASSUME TypeOK, Gated, NEW p \in Procs, NEW ph, NEW j,
           phase' = [phase EXCEPT ![p] = ph],
           job' = [job EXCEPT ![p] = j],
           mfa_was_off' = mfa_was_off,
           account'.mfa_enabled = account.mfa_enabled,
           ph \notin {"login_ok", "decide", "mint"}
    PROVE  Gated'
  <1>1. RequestGated(ph, j)
    BY DEF RequestGated
  <1> QED
    BY <1>1, GatedKept

\* Whatever is done to the counters and the forced change, MFA stays as it is.
LEMMA FlagKept ==
    ASSUME TypeOK, NEW p \in Procs,
           \/ RegisterFailedLogin(p) \/ ClearFailures(p)
           \/ RequireChange(p) \/ ChangeWrite(p)
    PROVE  account'.mfa_enabled = account.mfa_enabled
  <1>1. account \in Account
    BY DEF TypeOK
  <1> QED
    BY <1>1 DEF RegisterFailedLogin, ClearFailures, RequireChange, ChangeWrite, Account

\* The steps that end a request or enter a phase of no interest here.
PlainStep(p) ==
    \/ RegisterFailedLogin(p) \/ DecideChange(p) \/ ConsumePriorCodes(p)
    \/ \E c \in Codes, mailed \in BOOLEAN : CreateCode(p, c, mailed)
    \/ CountWrongGuess(p) \/ BurnCode(p) \/ ResendRead(p)
    \/ \E s \in Sessions : MintSession(p, s)
    \/ RequireChange(p) \/ RevokeAll(p) \/ ChangeRead(p) \/ ChangeWrite(p) \/ Abort(p)

PlainPhases == {"idle", "send", "create_code", "revoke_all", "change_write", "reread"}

LEMMA PlainStepFacts ==
    ASSUME TypeOK, NEW p \in Procs, PlainStep(p)
    PROVE  \E ph \in PlainPhases : \E j :
               phase' = [phase EXCEPT ![p] = ph] /\ job' = [job EXCEPT ![p] = j]
  <1>1. job = [job EXCEPT ![p] = job[p]]
    BY DEF TypeOK
  <1>2. CASE \/ RegisterFailedLogin(p) \/ DecideChange(p) \/ CountWrongGuess(p) \/ BurnCode(p)
             \/ \E c \in Codes, mailed \in BOOLEAN : CreateCode(p, c, mailed)
             \/ \E s \in Sessions : MintSession(p, s)
             \/ Abort(p)
    <2>1. Finish(p)
      BY <1>2 DEF RegisterFailedLogin, DecideChange, CountWrongGuess, BurnCode, CreateCode,
         MintSession, Abort
    <2> QED
      BY <2>1 DEF Finish, PlainPhases
  <1>3. CASE ConsumePriorCodes(p) \/ ChangeWrite(p)
    <2>1. Goto(p, "create_code") \/ Goto(p, "revoke_all")
      BY <1>3 DEF ConsumePriorCodes, ChangeWrite
    <2> QED
      BY <1>1, <2>1 DEF Goto, PlainPhases
  <1>4. CASE RevokeAll(p)
    <2>1. Finish(p) \/ Goto(p, "reread")
      BY <1>4 DEF RevokeAll
    <2> QED
      BY <1>1, <2>1 DEF Finish, Goto, PlainPhases
  <1>5. CASE ResendRead(p) \/ RequireChange(p) \/ ChangeRead(p)
    <2>1. \E ph \in {"send", "revoke_all", "change_write"} : \E j : Start(p, ph, j)
      BY <1>5 DEF ResendRead, RequireChange, ChangeRead
    <2> QED
      BY <2>1 DEF Start, PlainPhases
  <1> QED
    BY <1>2, <1>3, <1>4, <1>5 DEF PlainStep

\* What a reading of the code does to the request that makes it.
LEMMA VerifyReadFacts ==
    ASSUME NEW p \in Procs, NEW typed \in Codes \cup {NoRow}, VerifyRead(p, typed)
    PROVE  \E c \in Codes, ph \in VerifyPhases :
             LET j == [kind |-> "verify", account |-> NoRow, code |-> c,
                       attempts |-> codes[c].attempts] IN
             /\ Redeemable(c)
             /\ phase' = [phase EXCEPT ![p] = ph]
             /\ job' = [job EXCEPT ![p] = j]
  BY DEF VerifyRead, Start, VerifyPhases

LEMMA PlainStepGated ==
    ASSUME IInv, Gated, NEW p \in Procs,
           PlainStep(p) \/ \E typed \in Codes \cup {NoRow} : VerifyRead(p, typed)
    PROVE  Gated'
  <1> USE DEF accountVars, mfaVars
  <1>1. TypeOK
    BY DEF IInv
  <1>2. mfa_was_off' = mfa_was_off
    BY DEF PlainStep, RegisterFailedLogin, DecideChange, ConsumePriorCodes, CreateCode,
       VerifyRead, CountWrongGuess, BurnCode, ResendRead, MintSession, RequireChange, RevokeAll,
       ChangeRead, ChangeWrite, Abort
  <1>3. account'.mfa_enabled = account.mfa_enabled
    <2>1. CASE RegisterFailedLogin(p) \/ RequireChange(p) \/ ChangeWrite(p)
      BY <1>1, <2>1, FlagKept
    <2>2. CASE ~(RegisterFailedLogin(p) \/ RequireChange(p) \/ ChangeWrite(p))
      <3>1. account' = account
        BY <2>2 DEF PlainStep, DecideChange, ConsumePriorCodes, CreateCode, VerifyRead,
           CountWrongGuess, BurnCode, ResendRead, MintSession, RevokeAll, ChangeRead, Abort
      <3> QED
        BY <3>1
    <2> QED
      BY <2>1, <2>2
  <1>4. PICK ph \in PlainPhases \cup VerifyPhases : \E j :
          phase' = [phase EXCEPT ![p] = ph] /\ job' = [job EXCEPT ![p] = j]
    BY <1>1, PlainStepFacts, VerifyReadFacts
  <1> QED
    BY <1>1, <1>2, <1>3, <1>4, GatedByPhase DEF PlainPhases, VerifyPhases

\* The steps that hand a user, or a code, to the next phase.
LEMMA HandingStepGated ==
    ASSUME IInv, Gated, NEW p \in Procs,
           \/ \E right \in BOOLEAN : LoginRead(p, right)
           \/ ClearFailures(p) \/ DecideCodeOrSession(p) \/ ConsumeCode(p) \/ ChangeReread(p)
    PROVE  Gated'
  <1> USE DEF accountVars, mfaVars
  <1>1. TypeOK /\ account \in Account /\ job = [job EXCEPT ![p] = job[p]]
    BY DEF IInv, TypeOK
  <1>2. ASSUME NEW right \in BOOLEAN, LoginRead(p, right) PROVE Gated'
    <2> DEFINE ph == IF right THEN "login_ok" ELSE "login_failed"
               j == [Request("login") EXCEPT !.account = account]
    <2>1. /\ phase' = [phase EXCEPT ![p] = ph] /\ job' = [job EXCEPT ![p] = j]
          /\ UNCHANGED <<mfa_was_off, account>>
      BY <1>2 DEF LoginRead, Start
    <2>2. j.account = account
      BY <1>1, RequestType
    <2>3. ph \in {"login_ok", "login_failed"}
      OBVIOUS
    <2> HIDE DEF ph, j
    <2>4. ~mfa_was_off => RequestGated(ph, j)
      BY <2>2, <2>3 DEF RequestGated, Gated
    <2> QED
      BY <1>1, <2>1, <2>4, GatedKept
  <1>3. ASSUME ClearFailures(p) PROVE Gated'
    <2>1. phase' = [phase EXCEPT ![p] = "decide"] /\ job' = [job EXCEPT ![p] = job[p]]
      BY <1>1, <1>3 DEF ClearFailures, Goto
    <2>2. mfa_was_off' = mfa_was_off /\ account'.mfa_enabled = account.mfa_enabled
      BY <1>1, <1>3, FlagKept DEF ClearFailures
    <2>3. ~mfa_was_off => RequestGated("decide", job[p])
      BY <1>3 DEF ClearFailures, RequestGated, Gated
    <2> QED
      BY <1>1, <2>1, <2>2, <2>3, GatedKept
  <1>4. ASSUME DecideCodeOrSession(p) PROVE Gated'
    <2> DEFINE ph == IF NeedsCode(p) THEN "send" ELSE "mint"
    <2>1. /\ phase' = [phase EXCEPT ![p] = ph] /\ job' = [job EXCEPT ![p] = job[p]]
          /\ UNCHANGED <<mfa_was_off, account>>
      BY <1>1, <1>4 DEF DecideCodeOrSession, Goto
    <2>2. ~mfa_was_off => ph = "send"
      BY <1>4 DEF DecideCodeOrSession, NeedsCode, RequestGated, Gated
    <2> HIDE DEF ph
    <2>3. ~mfa_was_off => RequestGated(ph, job[p])
      BY <2>2 DEF RequestGated
    <2> QED
      BY <1>1, <2>1, <2>3, GatedKept
  <1>5. ASSUME ConsumeCode(p) PROVE Gated'
    <2>1. /\ phase' = [phase EXCEPT ![p] = "mint"] /\ job' = [job EXCEPT ![p] = job[p]]
          /\ UNCHANGED <<mfa_was_off, account>>
      BY <1>1, <1>5 DEF ConsumeCode, Goto
    <2>2. job[p].kind = "verify"
      BY <1>5 DEF ConsumeCode, IInv, RequestsOK, RequestOK, VerifyPhases
    <2>3. RequestGated("mint", job[p])
      BY <2>2 DEF RequestGated
    <2> QED
      BY <1>1, <2>1, <2>3, GatedKept
  <1>6. ASSUME ChangeReread(p) PROVE Gated'
    <2> DEFINE j == [job[p] EXCEPT !.account = account]
    <2>1. /\ phase' = [phase EXCEPT ![p] = "decide"] /\ job' = [job EXCEPT ![p] = j]
          /\ UNCHANGED <<mfa_was_off, account>>
      BY <1>6 DEF ChangeReread
    <2>2. job[p] \in Job
      BY <1>6 DEF ChangeReread, IInv, RequestsOK, RequestOK
    <2>3. j.account = account
      BY <2>2 DEF Job
    <2> HIDE DEF j
    <2>4. ~mfa_was_off => RequestGated("decide", j)
      BY <2>3 DEF RequestGated, Gated
    <2> QED
      BY <1>1, <2>1, <2>4, GatedKept
  <1> QED
    BY <1>2, <1>3, <1>4, <1>5, <1>6

LEMMA GatedStep == IInv /\ Gated /\ [Next]_vars => Gated'
  <1> SUFFICES ASSUME IInv, Gated, [Next]_vars PROVE Gated'
    OBVIOUS
  <1>1. ASSUME NEW b \in BOOLEAN, SetMfa(b) PROVE Gated'
    <2>1. account \in Account
      BY DEF IInv, TypeOK
    <2>2. account'.mfa_enabled = b /\ mfa_was_off' = (mfa_was_off \/ ~b)
      BY <1>1, <2>1 DEF SetMfa, Account
    <2>3. phase' = phase /\ job' = job
      BY <1>1 DEF SetMfa, requestVars
    <2> QED
      BY <2>2, <2>3 DEF Gated
  <1>2. CASE Tick \/ UNCHANGED vars
    BY <1>2 DEF Tick, vars, accountVars, mfaVars, requestVars, Gated
  <1> QED
    BY <1>1, <1>2, PlainStepGated, HandingStepGated DEF Next, PlainStep

\* Sessions are made by MintSession only, and otherwise only revoked.
LEMMA SessionsStep ==
    ASSUME TypeOK, [Next]_vars
    PROVE  \/ sessions' = sessions
           \/ sessions' = SessionsRevoked
           \/ \E p \in Procs, s \in Sessions : MintSession(p, s)
  <1>1. CASE Next
    BY <1>1 DEF Next, LoginRead, RegisterFailedLogin, ClearFailures, DecideChange,
       DecideCodeOrSession, ConsumePriorCodes, CreateCode, VerifyRead, CountWrongGuess,
       BurnCode, ConsumeCode, ResendRead, RequireChange, RevokeAll, ChangeRead, ChangeWrite,
       ChangeReread, SetMfa, Abort, Tick
  <1>2. CASE UNCHANGED vars
    BY <1>2 DEF vars
  <1> QED
    BY <1>1, <1>2

LEMMA RevokedFacts ==
    ASSUME TypeOK, NEW s \in Sessions, SessionsRevoked[s] # NoRow
    PROVE  /\ sessions[s] # NoRow
           /\ SessionsRevoked[s].how = sessions[s].how
           /\ SessionsRevoked[s].code = sessions[s].code
  <1>1. sessions[s] # NoRow
    BY DEF SessionsRevoked
  <1>2. sessions[s] \in Minted
    BY <1>1 DEF TypeOK
  <1> QED
    BY <1>1, <1>2 DEF SessionsRevoked, Minted

LEMMA CodeBeforeSessionStep ==
    IInv /\ Gated /\ CodeBeforeSession /\ [Next]_vars => CodeBeforeSession'
  <1> SUFFICES ASSUME IInv, Gated, CodeBeforeSession, [Next]_vars, ~mfa_was_off',
                      NEW s \in Sessions, sessions'[s] # NoRow
               PROVE  sessions'[s].how = "code"
    BY DEF CodeBeforeSession
  <1>1. TypeOK
    BY DEF IInv
  <1>2. ~mfa_was_off
    BY DEF Next, LoginRead, RegisterFailedLogin, ClearFailures, DecideChange,
       DecideCodeOrSession, ConsumePriorCodes, CreateCode, VerifyRead, CountWrongGuess,
       BurnCode, ConsumeCode, ResendRead, MintSession, RequireChange, RevokeAll, ChangeRead,
       ChangeWrite, ChangeReread, SetMfa, Abort, Tick, vars, accountVars
  <1>3. CASE sessions' = sessions
    BY <1>2, <1>3 DEF CodeBeforeSession
  <1>4. CASE sessions' = SessionsRevoked
    BY <1>1, <1>2, <1>4, RevokedFacts DEF CodeBeforeSession
  <1>5. ASSUME NEW p \in Procs, NEW r \in Sessions, MintSession(p, r)
        PROVE  sessions'[s].how = "code"
    <2>1. job[p].kind = "verify"
      BY <1>2, <1>5 DEF MintSession, Gated, RequestGated
    <2>2. sessions' = [sessions EXCEPT ![r] = [how |-> "code", code |-> job[p].code, live |-> TRUE]]
      BY <1>5, <2>1 DEF MintSession
    <2>3. CASE s = r
      BY <1>1, <2>2, <2>3 DEF TypeOK
    <2>4. CASE s # r
      BY <1>1, <1>2, <2>2, <2>4 DEF TypeOK, CodeBeforeSession
    <2> QED
      BY <2>3, <2>4
  <1> QED
    BY <1>1, <1>3, <1>4, <1>5, SessionsStep

\* While MFA has never been off, no interleaving of logins, verifications, resends,
\* resets, password changes and failures opens a session without a code.
THEOREM GatesCompose == Spec => []CodeBeforeSession
  <1>1. Init => Gated /\ CodeBeforeSession
    BY DEF Init, Gated, RequestGated, CodeBeforeSession
  <1>2. IInv /\ [Next]_vars /\ (Gated /\ CodeBeforeSession) => (Gated /\ CodeBeforeSession)'
    BY GatedStep, CodeBeforeSessionStep
  <1> QED
    BY <1>1, <1>2, Invariance, PTL DEF Spec


----------------------------------------------------------------------------
(* A code opens no more sessions than there may be requests in flight *)

\* The requests that have found the answer right and not opened their session yet.
Claims(c) == {p \in Procs : phase[p] \in {"verify_right", "mint"} /\ job[p].code = c}

\* Every claim made so far is still a claim, has become a session or has failed, and
\* none was made after the first became a session.
ClaimsBounded(c) ==
    /\ Cardinality(RedeemedFrom(c)) + Cardinality(Claims(c)) <= Cardinality(Procs)
    /\ RedeemedFrom(c) # {} => codes[c] # NoRow /\ codes[c].consumed

LEMMA FiniteClaims ==
    ASSUME NEW c \in Codes
    PROVE  /\ IsFiniteSet(RedeemedFrom(c)) /\ IsFiniteSet(Claims(c))
           /\ Cardinality(RedeemedFrom(c)) \in Nat /\ Cardinality(Claims(c)) \in Nat
           /\ Cardinality(Procs) \in Nat
           /\ Cardinality(Claims(c)) <= Cardinality(Procs)
  <1>1. IsFiniteSet(Sessions)
    BY Bounds, FS_Interval DEF Sessions
  <1>2. RedeemedFrom(c) \in SUBSET Sessions /\ Claims(c) \in SUBSET Procs
    BY DEF RedeemedFrom, Claims
  <1> QED
    BY <1>1, <1>2, SignInProcs, FS_Subset, FS_CardinalityType

\* Once read, a code row stays, and once consumed it stays consumed.
LEMMA CodesStep == IInv /\ [Next]_vars => CodesKept(codes, codes')
  <1> SUFFICES ASSUME IInv, [Next]_vars PROVE CodesKept(codes, codes')
    OBVIOUS
  <1>1. CASE codes' = codes
    BY <1>1, CodesStay
  <1>2. ASSUME NEW p \in Procs, ConsumePriorCodes(p) PROVE CodesKept(codes, codes')
    BY <1>2, AllConsumed DEF ConsumePriorCodes, IInv
  <1>3. ASSUME NEW p \in Procs, BurnCode(p) \/ ConsumeCode(p) PROVE CodesKept(codes, codes')
    <2>1. job[p].code \in Codes /\ codes[job[p].code] # NoRow
      BY <1>3 DEF BurnCode, ConsumeCode, IInv, RequestsOK, RequestOK, VerifyPhases
    <2>2. codes' = Consumed(job[p].code)
      BY <1>3 DEF BurnCode, ConsumeCode, Consumed
    <2> QED
      BY <2>1, <2>2, CodeConsumed DEF IInv
  <1>4. CASE UNCHANGED vars
    BY <1>4, CodesStay DEF vars, mfaVars
  <1>5. CASE Next
    <2>1. ASSUME codes' # codes
          PROVE  \E p \in Procs : \/ ConsumePriorCodes(p) \/ BurnCode(p) \/ ConsumeCode(p)
                                  \/ CountWrongGuess(p)
                                  \/ \E c \in Codes, mailed \in BOOLEAN : CreateCode(p, c, mailed)
      BY <1>5, <2>1 DEF Next, LoginRead, RegisterFailedLogin, ClearFailures, DecideChange,
         DecideCodeOrSession, VerifyRead, ResendRead, MintSession, RequireChange, RevokeAll,
         ChangeRead, ChangeWrite, ChangeReread, SetMfa, Abort, Tick, mfaVars
    <2> QED
      BY <1>1, <1>2, <1>3, <2>1, GuessCounted, CodeCreated
  <1> QED
    BY <1>4, <1>5

\* A code that is not redeemable gains no claim.
LEMMA NoLateClaims ==
    ASSUME IInv, [Next]_vars, NEW c \in Codes, ~Redeemable(c)
    PROVE  Claims(c)' \subseteq Claims(c)
  <1> SUFFICES ASSUME NEW q \in Procs, phase'[q] \in {"verify_right", "mint"}, job'[q].code = c
               PROVE  phase[q] \in {"verify_right", "mint"} /\ job[q].code = c
    BY DEF Claims
  <1>1. TypeOK
    BY DEF IInv
  <1>2. CASE phase' = phase /\ job' = job
    BY <1>2
  <1>3. ASSUME NEW p \in Procs, NEW ph, NEW j,
               phase' = [phase EXCEPT ![p] = ph], job' = [job EXCEPT ![p] = j],
               ph \in {"verify_right", "mint"} /\ j.code = c =>
                  phase[p] \in {"verify_right", "mint"} /\ job[p].code = c
        PROVE  phase[q] \in {"verify_right", "mint"} /\ job[q].code = c
    BY <1>1, <1>3 DEF TypeOK
  <1>4. ASSUME NEW p \in Procs, PlainStep(p)
        PROVE  phase[q] \in {"verify_right", "mint"} /\ job[q].code = c
    <2>1. PICK ph \in PlainPhases : \E j :
            phase' = [phase EXCEPT ![p] = ph] /\ job' = [job EXCEPT ![p] = j]
      BY <1>1, <1>4, PlainStepFacts
    <2> QED
      BY <1>3, <2>1 DEF PlainPhases
  <1>5. ASSUME NEW p \in Procs, NEW typed \in Codes \cup {NoRow}, VerifyRead(p, typed)
        PROVE  phase[q] \in {"verify_right", "mint"} /\ job[q].code = c
    <2>1. PICK d \in Codes, ph \in VerifyPhases :
            /\ Redeemable(d)
            /\ phase' = [phase EXCEPT ![p] = ph]
            /\ job' = [job EXCEPT ![p] = [kind |-> "verify", account |-> NoRow, code |-> d,
                                          attempts |-> codes[d].attempts]]
      BY <1>5, VerifyReadFacts
    <2>2. d # c
      BY <2>1
    <2> QED
      BY <1>3, <2>1, <2>2
  <1>6. ASSUME NEW p \in Procs,
               \/ \E right \in BOOLEAN : LoginRead(p, right)
               \/ ClearFailures(p) \/ ChangeReread(p)
        PROVE  phase[q] \in {"verify_right", "mint"} /\ job[q].code = c
    <2>1. PICK ph \in {"login_ok", "login_failed", "decide"} : \E j :
            phase' = [phase EXCEPT ![p] = ph] /\ job' = [job EXCEPT ![p] = j]
      <3>1. job = [job EXCEPT ![p] = job[p]]
        BY <1>1 DEF TypeOK
      <3> QED
        BY <1>6, <3>1 DEF LoginRead, Start, ClearFailures, Goto, ChangeReread
    <2> QED
      BY <1>3, <2>1
  <1>7. ASSUME NEW p \in Procs, DecideCodeOrSession(p)
        PROVE  phase[q] \in {"verify_right", "mint"} /\ job[q].code = c
    <2>1. job[p].code # c
      BY <1>7, SignInNoRow DEF DecideCodeOrSession, IInv, RequestsOK, RequestOK, VerifyPhases
    <2>2. /\ phase' = [phase EXCEPT ![p] = IF NeedsCode(p) THEN "send" ELSE "mint"]
          /\ job' = [job EXCEPT ![p] = job[p]]
      BY <1>1, <1>7 DEF DecideCodeOrSession, Goto, TypeOK
    <2> QED
      BY <1>3, <2>1, <2>2
  <1>8. ASSUME NEW p \in Procs, ConsumeCode(p)
        PROVE  phase[q] \in {"verify_right", "mint"} /\ job[q].code = c
    <2>1. phase[p] = "verify_right" /\ phase' = [phase EXCEPT ![p] = "mint"] /\ job' = job
      BY <1>8 DEF ConsumeCode, Goto
    <2> QED
      BY <1>1, <2>1 DEF TypeOK
  <1>9. CASE Tick \/ UNCHANGED vars \/ \E b \in BOOLEAN : SetMfa(b)
    BY <1>2, <1>9 DEF Tick, SetMfa, vars, requestVars
  <1> QED
    BY <1>4, <1>5, <1>6, <1>7, <1>8, <1>9 DEF Next, PlainStep

\* A session opened for a code takes the place of its claim.
LEMMA ClaimBecomesSession ==
    ASSUME IInv, NEW p \in Procs, NEW s \in Sessions, MintSession(p, s), NEW c \in Codes
    PROVE  \/ /\ p \in Claims(c) /\ s \notin RedeemedFrom(c)
              /\ Claims(c)' = Claims(c) \ {p}
              /\ RedeemedFrom(c)' = RedeemedFrom(c) \cup {s}
              /\ codes[c] # NoRow /\ codes[c].consumed
           \/ Claims(c)' \subseteq Claims(c) /\ RedeemedFrom(c)' = RedeemedFrom(c)
  <1>1. TypeOK
    BY DEF IInv
  <1>2. phase[p] = "mint" /\ phase' = [phase EXCEPT ![p] = "idle"] /\ job' = [job EXCEPT ![p] = NoJob]
    BY DEF MintSession, Finish
  <1>3. Claims(c)' = Claims(c) \ {p}
    BY <1>1, <1>2 DEF Claims, TypeOK
  <1>4. /\ sessions[s] = NoRow
        /\ \A r \in Sessions \ {s} : sessions'[r] = sessions[r]
        /\ sessions'[s].code = job[p].code /\ sessions'[s] \in Minted
    <2>1. job[p] \in Job
      BY <1>2 DEF IInv, RequestsOK, RequestOK
    <2>2. job[p].code \in Codes \cup {NoRow}
      BY <2>1 DEF Job
    <2> DEFINE new == [how |-> IF job[p].kind = "verify" THEN "code" ELSE "password",
                       code |-> job[p].code, live |-> TRUE]
    <2>3. new \in Minted /\ new.code = job[p].code
      BY <2>2 DEF Minted, Paths
    <2>4. sessions[s] = NoRow /\ sessions' = [sessions EXCEPT ![s] = new]
      BY DEF MintSession
    <2> HIDE DEF new
    <2> QED
      BY <1>1, <2>3, <2>4 DEF TypeOK
  <1>5. CASE job[p].code = c
    <2>1. codes[c] # NoRow /\ codes[c].consumed
      BY <1>2, <1>5 DEF IInv, RequestsOK, RequestOK
    <2>2. p \in Claims(c) /\ s \notin RedeemedFrom(c)
      BY <1>2, <1>4, <1>5 DEF Claims, RedeemedFrom
    <2>3. sessions'[s] # NoRow
      BY <1>4, SignInNoRow
    <2>4. RedeemedFrom(c)' = RedeemedFrom(c) \cup {s}
      BY <1>4, <1>5, <2>3 DEF RedeemedFrom
    <2> QED
      BY <1>3, <2>1, <2>2, <2>4
  <1>6. CASE job[p].code # c
    <2>1. RedeemedFrom(c)' = RedeemedFrom(c)
      BY <1>4, <1>6 DEF RedeemedFrom
    <2> QED
      BY <1>3, <2>1
  <1> QED
    BY <1>5, <1>6


LEMMA ClaimsBoundedStep ==
    ASSUME IInv, [Next]_vars, NEW c \in Codes, ClaimsBounded(c)
    PROVE  ClaimsBounded(c)'
  <1>1. TypeOK /\ CodesKept(codes, codes')
    BY CodesStep DEF IInv
  <1>2. ASSUME NEW p \in Procs, NEW s \in Sessions, MintSession(p, s),
               p \in Claims(c), s \notin RedeemedFrom(c),
               Claims(c)' = Claims(c) \ {p},
               RedeemedFrom(c)' = RedeemedFrom(c) \cup {s},
               codes[c] # NoRow /\ codes[c].consumed
        PROVE  ClaimsBounded(c)'
    <2>1. /\ Cardinality(RedeemedFrom(c)') = Cardinality(RedeemedFrom(c)) + 1
          /\ Cardinality(Claims(c)') = Cardinality(Claims(c)) - 1
      <3>1. Cardinality(RedeemedFrom(c) \cup {s}) = Cardinality(RedeemedFrom(c)) + 1
        BY <1>2, FiniteClaims, FS_AddElement
      <3>2. Cardinality(Claims(c) \ {p}) = Cardinality(Claims(c)) - 1
        BY <1>2, FiniteClaims, FS_RemoveElement
      <3> QED
        BY <1>2, <3>1, <3>2
    <2>2. Cardinality(RedeemedFrom(c)') + Cardinality(Claims(c)') <= Cardinality(Procs)
      BY <2>1, FiniteClaims DEF ClaimsBounded
    <2>3. codes'[c] # NoRow /\ codes'[c].consumed
      BY <1>1, <1>2 DEF CodesKept
    <2> QED
      BY <2>2, <2>3 DEF ClaimsBounded
  <1>3. ASSUME RedeemedFrom(c)' \subseteq RedeemedFrom(c),
               Redeemable(c) \/ Claims(c)' \subseteq Claims(c)
        PROVE  ClaimsBounded(c)'
    <2>1. RedeemedFrom(c)' # {} => codes'[c] # NoRow /\ codes'[c].consumed
      BY <1>1, <1>3 DEF ClaimsBounded, CodesKept
    <2>2. /\ Claims(c)' \subseteq Procs
          /\ IsFiniteSet(Claims(c)') /\ Cardinality(Claims(c)') \in Nat
          /\ Cardinality(Claims(c)') <= Cardinality(Procs)
      <3>1. Claims(c)' \in SUBSET Procs
        BY DEF Claims
      <3> QED
        BY <3>1, SignInProcs, FS_Subset, FS_CardinalityType
    <2>3. CASE Redeemable(c)
      <3>1. RedeemedFrom(c)' = {}
        BY <1>3, <2>3 DEF Redeemable, ClaimsBounded
      <3>2. Cardinality(RedeemedFrom(c)') = 0
        BY <3>1, FS_EmptySet
      <3>3. Cardinality(RedeemedFrom(c)') + Cardinality(Claims(c)') <= Cardinality(Procs)
        BY <2>2, <3>2, FiniteClaims
      <3> QED
        BY <2>1, <3>3 DEF ClaimsBounded
    <2>4. CASE Claims(c)' \subseteq Claims(c)
      <3>1. /\ Cardinality(RedeemedFrom(c)') <= Cardinality(RedeemedFrom(c))
            /\ Cardinality(Claims(c)') <= Cardinality(Claims(c))
            /\ Cardinality(RedeemedFrom(c)') \in Nat
        BY <1>3, <2>4, FiniteClaims, FS_Subset, FS_CardinalityType
      <3>2. Cardinality(RedeemedFrom(c)') + Cardinality(Claims(c)') <= Cardinality(Procs)
        BY <2>2, <3>1, FiniteClaims DEF ClaimsBounded
      <3> QED
        BY <2>1, <3>2 DEF ClaimsBounded
    <2> QED
      BY <1>3, <2>3, <2>4
  <1>4. Redeemable(c) \/ Claims(c)' \subseteq Claims(c)
    BY NoLateClaims
  <1>5. CASE sessions' = sessions
    <2>1. RedeemedFrom(c)' \subseteq RedeemedFrom(c)
      BY <1>5 DEF RedeemedFrom
    <2> QED
      BY <1>3, <1>4, <2>1
  <1>6. CASE sessions' = SessionsRevoked
    <2>1. RedeemedFrom(c)' \subseteq RedeemedFrom(c)
      BY <1>1, <1>6, RevokedFacts DEF RedeemedFrom
    <2> QED
      BY <1>3, <1>4, <2>1
  <1>7. ASSUME NEW p \in Procs, NEW s \in Sessions, MintSession(p, s)
        PROVE  ClaimsBounded(c)'
    BY <1>2, <1>3, <1>7, ClaimBecomesSession
  <1> QED
    BY <1>1, <1>5, <1>6, <1>7, SessionsStep

\* Verifications that overlap may redeem one code more than once, but never more
\* often than there can be requests in flight: none that comes after the first
\* redemption finds the code.
THEOREM RacesAreBounded == Spec => []RedemptionsBounded
  <1> DEFINE I == \A c \in Codes : ClaimsBounded(c)
  <1>1. Init => I
    <2> SUFFICES ASSUME Init, NEW c \in Codes PROVE ClaimsBounded(c)
      OBVIOUS
    <2>1. RedeemedFrom(c) = {} /\ Claims(c) = {}
      BY DEF Init, RedeemedFrom, Claims
    <2>2. Cardinality(RedeemedFrom(c)) = 0 /\ Cardinality(Claims(c)) = 0
      BY <2>1, FS_EmptySet
    <2> QED
      BY <2>1, <2>2, FiniteClaims DEF ClaimsBounded
  <1>2. IInv /\ [Next]_vars /\ I => I'
    BY ClaimsBoundedStep
  <1>3. I => RedemptionsBounded
    BY FiniteClaims DEF ClaimsBounded, RedemptionsBounded
  <1> HIDE DEF I
  <1> QED
    BY <1>1, <1>2, <1>3, Invariance, PTL DEF Spec

----------------------------------------------------------------------------
(***************************************************************************)
(* What SignIn promises of requests that do not overlap, for any number of *)
(* requests, codes and sessions and any thresholds and lifetimes: a lock   *)
(* holds and comes at its threshold, a code is burned at its own and opens *)
(* one session, and a forced change stands between the password and a      *)
(* session.                                                                *)
(*                                                                         *)
(* The argument.  Every one of these rests on a value one statement reads  *)
(* and a later one writes.  While requests have not overlapped, at most one*)
(* is under way (Alone), so what it read is still there when it writes, but*)
(* for the flag an administrator may turn meanwhile; each invariant says so*)
(* of the values its property needs.                                       *)
(***************************************************************************)

(* Requests one at a time *)

Alone ==
    ~contended =>
        \A p, q \in Procs : phase[p] # "idle" /\ phase[q] # "idle" => p = q

\* The steps of a request, from Next.
RequestStep(p) ==
    \/ \E right \in BOOLEAN : LoginRead(p, right)
    \/ RegisterFailedLogin(p) \/ ClearFailures(p)
    \/ DecideChange(p) \/ DecideCodeOrSession(p)
    \/ ConsumePriorCodes(p)
    \/ \E c \in Codes, mailed \in BOOLEAN : CreateCode(p, c, mailed)
    \/ \E typed \in Codes \cup {NoRow} : VerifyRead(p, typed)
    \/ CountWrongGuess(p) \/ BurnCode(p) \/ ConsumeCode(p)
    \/ ResendRead(p)
    \/ \E s \in Sessions : MintSession(p, s)
    \/ RequireChange(p) \/ RevokeAll(p)
    \/ ChangeRead(p) \/ ChangeWrite(p) \/ ChangeReread(p)
    \/ Abort(p)

LEMMA NextSteps ==
    ASSUME [Next]_vars
    PROVE  \/ \E p \in Procs : RequestStep(p)
           \/ \E b \in BOOLEAN : SetMfa(b)
           \/ Tick
           \/ UNCHANGED vars
  BY DEF Next, RequestStep

\* A request starts, or was under way; and only its own slot changes.
LEMMA StepShape ==
    ASSUME TypeOK, NEW p \in Procs, RequestStep(p)
    PROVE  /\ \/ phase[p] # "idle" /\ contended' = contended
              \/ contended' = (contended \/ \E q \in Procs \ {p} : phase[q] # "idle")
           /\ \A q \in Procs \ {p} : phase'[q] = phase[q] /\ job'[q] = job[q]
  <1>1. CASE \/ \E right \in BOOLEAN : LoginRead(p, right)
             \/ \E typed \in Codes \cup {NoRow} : VerifyRead(p, typed)
             \/ ResendRead(p) \/ RequireChange(p) \/ ChangeRead(p)
    <2>1. \E ph, j : Start(p, ph, j)
      BY <1>1 DEF LoginRead, VerifyRead, ResendRead, RequireChange, ChangeRead
    <2> QED
      BY <2>1 DEF Start, TypeOK
  <1>2. CASE \/ RegisterFailedLogin(p) \/ DecideChange(p) \/ CountWrongGuess(p) \/ BurnCode(p)
             \/ \E c \in Codes, mailed \in BOOLEAN : CreateCode(p, c, mailed)
             \/ \E s \in Sessions : MintSession(p, s)
             \/ Abort(p)
    <2>1. Finish(p) /\ phase[p] # "idle"
      BY <1>2 DEF RegisterFailedLogin, DecideChange, CountWrongGuess, BurnCode, CreateCode,
         MintSession, Abort
    <2> QED
      BY <2>1 DEF Finish, TypeOK
  <1>3. CASE \/ ClearFailures(p) \/ DecideCodeOrSession(p) \/ ConsumePriorCodes(p)
             \/ ConsumeCode(p) \/ ChangeWrite(p)
    <2>1. (\E ph : Goto(p, ph)) /\ phase[p] # "idle"
      BY <1>3 DEF ClearFailures, DecideCodeOrSession, ConsumePriorCodes, ConsumeCode, ChangeWrite
    <2> QED
      BY <2>1 DEF Goto, TypeOK
  <1>4. CASE RevokeAll(p)
    <2>1. (Finish(p) \/ Goto(p, "reread")) /\ phase[p] # "idle"
      BY <1>4 DEF RevokeAll
    <2> QED
      BY <2>1 DEF Finish, Goto, TypeOK
  <1>5. CASE ChangeReread(p)
    BY <1>5 DEF ChangeReread, TypeOK
  <1> QED
    BY <1>1, <1>2, <1>3, <1>4, <1>5 DEF RequestStep

\* While requests have not overlapped, the request that steps is the only one.
LEMMA OnlyOne ==
    ASSUME TypeOK, Alone, NEW p \in Procs, RequestStep(p), ~contended'
    PROVE  /\ ~contended
           /\ \A q \in Procs \ {p} : phase[q] = "idle" /\ phase'[q] = "idle"
  BY StepShape DEF Alone, TypeOK

LEMMA AloneStep == IInv /\ Alone /\ [Next]_vars => Alone'
  <1> SUFFICES ASSUME IInv, Alone, [Next]_vars PROVE Alone'
    OBVIOUS
  <1>1. TypeOK
    BY DEF IInv
  <1>2. ASSUME NEW p \in Procs, RequestStep(p) PROVE Alone'
    BY <1>1, <1>2, OnlyOne DEF Alone
  <1>3. CASE (\E b \in BOOLEAN : SetMfa(b)) \/ Tick \/ UNCHANGED vars
    BY <1>3 DEF SetMfa, Tick, vars, requestVars, Alone
  <1> QED
    BY <1>2, <1>3, NextSteps

----------------------------------------------------------------------------
(* The lock of an account *)

LoginPhases == {"login_failed", "login_ok"}

\* The wrong passwords answered are those counted, below the threshold, and a login
\* writes back the count it read, of an account that is not locked.
Counted ==
    ~contended =>
        /\ misses = account.failed_login_count
        /\ account.failed_login_count < MaxFailedAttempts
        /\ \A p \in Procs : phase[p] \in LoginPhases =>
              /\ job[p].account.failed_login_count = account.failed_login_count
              /\ job[p].account.lockout_until = account.lockout_until
              /\ account.lockout_until <= now

\* The steps that leave the counters and the clock, and enter no phase of a login.
LEMMA CountersKept ==
    ASSUME TypeOK, Alone, Counted, NEW p \in Procs, RequestStep(p),
           now' = now, misses' = misses,
           account'.failed_login_count = account.failed_login_count,
           account'.lockout_until = account.lockout_until,
           phase'[p] \notin LoginPhases
    PROVE  Counted'
  BY OnlyOne DEF Counted, LoginPhases

\* The steps of which nothing is kept but that.
LEMMA OtherStepsKeepCounters ==
    ASSUME IInv, Alone, Counted, NEW p \in Procs, RequestStep(p),
           ~ \E right \in BOOLEAN : LoginRead(p, right),
           ~RegisterFailedLogin(p), ~ClearFailures(p), ~ChangeWrite(p)
    PROVE  Counted'
  <1>1. TypeOK /\ account \in Account
    BY DEF IInv, TypeOK
  <1>2. now' = now /\ misses' = misses
    BY DEF RequestStep, DecideChange, DecideCodeOrSession, ConsumePriorCodes, CreateCode,
       VerifyRead, CountWrongGuess, BurnCode, ConsumeCode, ResendRead, MintSession,
       RequireChange, RevokeAll, ChangeRead, ChangeReread, Abort, accountVars
  <1>3. /\ account'.failed_login_count = account.failed_login_count
        /\ account'.lockout_until = account.lockout_until
    <2>1. CASE RequireChange(p)
      BY <1>1, <2>1 DEF RequireChange, Account
    <2>2. CASE ~RequireChange(p)
      <3>1. account' = account
        BY <2>2 DEF RequestStep, DecideChange, DecideCodeOrSession, ConsumePriorCodes, CreateCode,
           VerifyRead, CountWrongGuess, BurnCode, ConsumeCode, ResendRead, MintSession,
           RevokeAll, ChangeRead, ChangeReread, Abort, accountVars
      <3> QED
        BY <3>1
    <2> QED
      BY <2>1, <2>2
  <1>4. phase'[p] \notin LoginPhases
    <2>1. CASE PlainStep(p) \/ \E typed \in Codes \cup {NoRow} : VerifyRead(p, typed)
      BY <1>1, <2>1, PlainStepFacts, VerifyReadFacts
         DEF TypeOK, PlainPhases, VerifyPhases, LoginPhases
    <2>2. CASE DecideCodeOrSession(p) \/ ConsumeCode(p) \/ ChangeReread(p)
      BY <1>1, <2>2 DEF DecideCodeOrSession, ConsumeCode, ChangeReread, Goto, TypeOK, LoginPhases
    <2> QED
      BY <2>1, <2>2 DEF RequestStep, PlainStep
  <1> QED
    BY <1>1, <1>2, <1>3, <1>4, CountersKept

LEMMA CountedStep == IInv /\ Alone /\ Counted /\ [Next]_vars => Counted'
  <1> SUFFICES ASSUME IInv, Alone, Counted, [Next]_vars PROVE Counted'
    OBVIOUS
  <1>1. /\ TypeOK /\ account \in Account /\ now \in 0..MaxClock /\ misses \in Nat
        /\ account.lockout_until \in Nat /\ account.failed_login_count \in Nat
    BY Bounds DEF IInv, TypeOK, Account
  <1>2. ASSUME NEW p \in Procs, NEW right \in BOOLEAN, LoginRead(p, right) PROVE Counted'
    <2>1. RequestStep(p)
      BY <1>2 DEF RequestStep
    <2>2. job'[p].account = account
      <3>1. job'[p] = [Request("login") EXCEPT !.account = account]
        BY <1>1, <1>2 DEF LoginRead, Start, TypeOK
      <3> QED
        BY <1>1, <3>1, RequestType
    <2>3. account' = account /\ now' = now /\ misses' = misses /\ account.lockout_until <= now
      BY <1>1, <1>2, Bounds DEF LoginRead, NotLockedOut, Locked, accountVars
    <2> QED
      BY <1>1, <2>1, <2>2, <2>3, OnlyOne DEF Counted, LoginPhases
  <1>3. ASSUME NEW p \in Procs, RegisterFailedLogin(p) PROVE Counted'
    <2> SUFFICES ASSUME ~contended' PROVE Counted'
      BY DEF Counted
    <2>1. RequestStep(p)
      BY <1>3 DEF RequestStep
    <2>2. \A q \in Procs : phase'[q] = "idle"
      BY <1>1, <1>3, <2>1, OnlyOne DEF RegisterFailedLogin, Finish, TypeOK
    <2>3. misses = account.failed_login_count /\ account.failed_login_count < MaxFailedAttempts
          /\ job[p].account.failed_login_count = account.failed_login_count
      BY <1>1, <1>3, <2>1, OnlyOne DEF Counted, LoginPhases, RegisterFailedLogin
    <2> DEFINE next == job[p].account.failed_login_count + 1
    <2>4. account'.failed_login_count = (IF ShouldLock(next) THEN 0 ELSE next)
          /\ misses' = (IF ShouldLock(next) THEN 0 ELSE misses + 1)
      BY <1>1, <1>3 DEF RegisterFailedLogin, Account
    <2>5. account'.failed_login_count = misses' /\ account'.failed_login_count < MaxFailedAttempts
      BY <1>1, <2>3, <2>4, Bounds DEF ShouldLock
    <2> QED
      BY <2>2, <2>5 DEF Counted, LoginPhases
  <1>4. ASSUME NEW p \in Procs, ClearFailures(p) PROVE Counted'
    <2> SUFFICES ASSUME ~contended' PROVE Counted'
      BY DEF Counted
    <2>1. RequestStep(p)
      BY <1>4 DEF RequestStep
    <2>2. \A q \in Procs : phase'[q] \notin LoginPhases
      BY <1>1, <1>4, <2>1, OnlyOne DEF ClearFailures, Goto, TypeOK, LoginPhases
    <2>3. misses = account.failed_login_count /\ account.failed_login_count < MaxFailedAttempts
      BY <1>1, <2>1, OnlyOne DEF Counted
    <2>4. account'.failed_login_count = misses' /\ account'.failed_login_count < MaxFailedAttempts
      BY <1>1, <1>4, <2>3, Bounds DEF ClearFailures, Account
    <2> QED
      BY <2>2, <2>4 DEF Counted
  <1>5. ASSUME NEW p \in Procs, ChangeWrite(p) PROVE Counted'
    <2>1. RequestStep(p)
      BY <1>5 DEF RequestStep
    <2>2. account'.failed_login_count = 0 /\ misses' = 0
      BY <1>1, <1>5 DEF ChangeWrite, Account
    <2>3. phase'[p] = "revoke_all"
      BY <1>1, <1>5 DEF ChangeWrite, Goto, TypeOK
    <2> QED
      BY <1>1, <2>1, <2>2, <2>3, OnlyOne, Bounds DEF Counted, LoginPhases
  <1>6. ASSUME NEW b \in BOOLEAN, SetMfa(b) PROVE Counted'
    <2>1. /\ account'.failed_login_count = account.failed_login_count
          /\ account'.lockout_until = account.lockout_until
      BY <1>1, <1>6 DEF SetMfa, Account
    <2> QED
      BY <1>6, <2>1 DEF SetMfa, requestVars, Counted
  <1>7. CASE Tick
    BY <1>1, <1>7 DEF Tick, accountVars, requestVars, Counted
  <1>8. CASE UNCHANGED vars
    BY <1>8 DEF vars, accountVars, requestVars, Counted
  <1> QED
    BY <1>2, <1>3, <1>4, <1>5, <1>6, <1>7, <1>8, NextSteps, OtherStepsKeepCounters

LEMMA InitCounted == Init => Alone /\ Counted
  <1> SUFFICES ASSUME Init PROVE Alone /\ Counted
    OBVIOUS
  <1>1. \A p \in Procs : phase[p] = "idle"
    BY DEF Init
  <1>2. account.failed_login_count = 0 /\ misses = 0
    BY DEF Init
  <1> QED
    BY <1>1, <1>2, Bounds DEF Alone, Counted, LoginPhases

LEMMA AloneInvariance == Spec => [](IInv /\ Alone /\ Counted)
  <1>1. Init => IInv /\ Alone /\ Counted
    BY InitIInv, InitCounted
  <1>2. (IInv /\ Alone /\ Counted) /\ [Next]_vars => (IInv /\ Alone /\ Counted)'
    BY NextKeeps, AloneStep, CountedStep
  <1> QED
    BY <1>1, <1>2, PTL DEF Spec

\* Requests that do not overlap never answer as many wrong passwords as the threshold
\* without the account having been locked or its slate wiped.
THEOREM LockComesAtThreshold == Spec => []FreezesAtThreshold
  <1>1. Counted => FreezesAtThreshold
    BY DEF Counted, FreezesAtThreshold
  <1> QED
    BY <1>1, AloneInvariance, PTL

\* Only three steps write the time of the lock.
LEMMA LockWritten ==
    ASSUME TypeOK, [Next]_vars,
           account'.lockout_until # account.lockout_until
    PROVE  \E p \in Procs : RegisterFailedLogin(p) \/ ClearFailures(p) \/ ChangeWrite(p)
  <1>1. account \in Account
    BY DEF TypeOK
  <1>2. CASE \E p \in Procs : RequireChange(p)
    BY <1>1, <1>2 DEF RequireChange, Account
  <1>3. CASE \E b \in BOOLEAN : SetMfa(b)
    BY <1>1, <1>3 DEF SetMfa, Account
  <1>4. ASSUME NEW p \in Procs, RequestStep(p), account' # account
        PROVE  RegisterFailedLogin(p) \/ ClearFailures(p) \/ ChangeWrite(p) \/ RequireChange(p)
    <2>1. ~ \E right \in BOOLEAN : LoginRead(p, right)
      BY <1>4 DEF LoginRead, accountVars
    <2> QED
      BY <1>4, <2>1 DEF RequestStep, DecideChange, DecideCodeOrSession, ConsumePriorCodes,
         CreateCode, VerifyRead, CountWrongGuess, BurnCode, ConsumeCode, ResendRead,
         MintSession, RevokeAll, ChangeRead, ChangeReread, Abort, accountVars
  <1>5. CASE Tick \/ UNCHANGED vars
    BY <1>5 DEF Tick, vars, accountVars
  <1> QED
    BY <1>2, <1>3, <1>4, <1>5, NextSteps

\* While requests do not overlap, a locked account is unlocked by the clock or by a
\* change of its password, and by nothing else.
THEOREM LockStands == Spec => LockoutHolds
  <1>1. ASSUME IInv, Alone, Counted, [Next]_vars
        PROVE  [~contended /\ Locked /\ ~Locked' =>
                  now' # now \/ \E p \in Procs : ChangeWrite(p)]_vars
    <2> SUFFICES ASSUME ~contended, Locked, ~Locked', now' = now,
                        ~ \E p \in Procs : ChangeWrite(p)
                 PROVE  FALSE
      OBVIOUS
    <2>1. TypeOK /\ account.lockout_until \in Nat /\ now \in Nat
      BY <1>1, Bounds DEF IInv, TypeOK, Account
    <2>2. \A p \in Procs : phase[p] \notin LoginPhases
      BY <1>1, <2>1 DEF Counted, Locked
    <2>3. account'.lockout_until = account.lockout_until
      BY <1>1, <2>1, <2>2, LockWritten DEF RegisterFailedLogin, ClearFailures, LoginPhases
    <2> QED
      BY <2>3 DEF Locked
  <1>2. IInv /\ Alone /\ Counted /\ [Next]_vars =>
          [~contended /\ Locked /\ ~Locked' => now' # now \/ \E p \in Procs : ChangeWrite(p)]_vars
    BY <1>1
  <1> QED
    BY <1>2, AloneInvariance, PTL DEF Spec, LockoutHolds

----------------------------------------------------------------------------
(* The guesses at a code *)

\* The guesses answered are those counted, and a guess under way holds the count.
GuessesCounted ==
    ~contended =>
        /\ \A c \in Codes : codes[c] # NoRow => codes[c].tried = codes[c].attempts
        /\ \A p \in Procs : phase[p] = "verify_wrong" =>
              job[p].attempts = codes[job[p].code].attempts

\* The rows of ds are rows of cs, with the guesses of cs.
TriesKept(cs, ds) ==
    \A c \in Codes : ds[c] # NoRow =>
        cs[c] # NoRow /\ ds[c].tried = cs[c].tried /\ ds[c].attempts = cs[c].attempts

LEMMA ConsumingKeepsTries ==
    ASSUME TypeOK
    PROVE  /\ TriesKept(codes, codes)
           /\ TriesKept(codes, OlderConsumed)
           /\ \A c \in Codes : codes[c] # NoRow => TriesKept(codes, Consumed(c))
  <1>1. ASSUME NEW c \in Codes, codes[c] # NoRow
        PROVE  /\ [codes[c] EXCEPT !.consumed = TRUE].tried = codes[c].tried
               /\ [codes[c] EXCEPT !.consumed = TRUE].attempts = codes[c].attempts
    BY <1>1, StandingCode DEF Code
  <1>2. codes \in [Codes -> Code \cup {NoRow}]
    BY DEF TypeOK
  <1>3. TriesKept(codes, codes)
    BY DEF TriesKept
  <1>4. TriesKept(codes, OlderConsumed)
    BY <1>1 DEF TriesKept, OlderConsumed
  <1>5. ASSUME NEW c \in Codes, codes[c] # NoRow PROVE TriesKept(codes, Consumed(c))
    BY <1>1, <1>2, <1>5 DEF TriesKept, Consumed
  <1> QED
    BY <1>3, <1>4, <1>5

\* Every step but a new code and a counted guess leaves the guesses.
LEMMA TriesStep ==
    ASSUME IInv, [Next]_vars,
           ~ \E p \in Procs : CountWrongGuess(p),
           ~ \E p \in Procs, c \in Codes, mailed \in BOOLEAN : CreateCode(p, c, mailed)
    PROVE  TriesKept(codes, codes')
  <1>1. TypeOK
    BY DEF IInv
  <1>2. CASE codes' = codes
    BY <1>1, <1>2, ConsumingKeepsTries
  <1>3. ASSUME NEW p \in Procs, ConsumePriorCodes(p) PROVE TriesKept(codes, codes')
    BY <1>1, <1>3, ConsumingKeepsTries DEF ConsumePriorCodes
  <1>4. ASSUME NEW p \in Procs, BurnCode(p) \/ ConsumeCode(p) PROVE TriesKept(codes, codes')
    <2>1. job[p].code \in Codes /\ codes[job[p].code] # NoRow
      BY <1>4 DEF BurnCode, ConsumeCode, IInv, RequestsOK, RequestOK, VerifyPhases
    <2>2. codes' = Consumed(job[p].code)
      BY <1>4 DEF BurnCode, ConsumeCode, Consumed
    <2> QED
      BY <1>1, <2>1, <2>2, ConsumingKeepsTries
  <1>5. CASE UNCHANGED vars
    BY <1>2, <1>5 DEF vars, mfaVars
  <1>6. ASSUME Next, codes' # codes
        PROVE  \E p \in Procs : ConsumePriorCodes(p) \/ BurnCode(p) \/ ConsumeCode(p)
    BY <1>6 DEF Next, LoginRead, RegisterFailedLogin, ClearFailures, DecideChange,
       DecideCodeOrSession, VerifyRead, ResendRead, MintSession, RequireChange, RevokeAll,
       ChangeRead, ChangeWrite, ChangeReread, SetMfa, Abort, Tick, mfaVars
  <1> QED
    BY <1>2, <1>3, <1>4, <1>5, <1>6

\* The step that enters the phase of a wrong guess reads the count there is.
LEMMA GuessRead ==
    ASSUME IInv, NEW p \in Procs, RequestStep(p), phase'[p] = "verify_wrong"
    PROVE  job'[p].attempts = codes'[job'[p].code].attempts
  <1>1. TypeOK
    BY DEF IInv
  <1>2. ASSUME NEW typed \in Codes \cup {NoRow}, VerifyRead(p, typed)
        PROVE  job'[p].attempts = codes'[job'[p].code].attempts
    <2>1. codes' = codes
      BY <1>2 DEF VerifyRead, mfaVars
    <2>2. PICK c \in Codes, ph \in VerifyPhases :
            job' = [job EXCEPT ![p] = [kind |-> "verify", account |-> NoRow, code |-> c,
                                       attempts |-> codes[c].attempts]]
      BY <1>2, VerifyReadFacts
    <2> QED
      BY <1>1, <2>1, <2>2 DEF TypeOK
  <1>3. CASE PlainStep(p)
    BY <1>1, <1>3, PlainStepFacts DEF TypeOK, PlainPhases
  <1>4. CASE \/ \E right \in BOOLEAN : LoginRead(p, right)
             \/ ClearFailures(p) \/ DecideCodeOrSession(p) \/ ConsumeCode(p) \/ ChangeReread(p)
    <2>1. phase'[p] # "verify_wrong"
      BY <1>1, <1>4 DEF LoginRead, Start, ClearFailures, DecideCodeOrSession, ConsumeCode,
         ChangeReread, Goto, TypeOK
    <2> QED
      BY <2>1
  <1> QED
    BY <1>2, <1>3, <1>4 DEF RequestStep, PlainStep

LEMMA GuessesCountedStep == IInv /\ Alone /\ GuessesCounted /\ [Next]_vars => GuessesCounted'
  <1> SUFFICES ASSUME IInv, Alone, GuessesCounted, [Next]_vars, ~contended'
               PROVE  GuessesCounted'
    BY DEF GuessesCounted
  <1>1. TypeOK
    BY DEF IInv
  <1>2. ASSUME NEW p \in Procs, RequestStep(p) PROVE GuessesCounted'
    <2>1. ~contended /\ \A q \in Procs \ {p} : phase'[q] = "idle"
      BY <1>1, <1>2, OnlyOne
    <2>2. ASSUME NEW q \in Procs, phase'[q] = "verify_wrong"
          PROVE  job'[q].attempts = codes'[job'[q].code].attempts
      BY <1>2, <2>1, <2>2, GuessRead
    <2>3. ASSUME NEW c \in Codes, codes'[c] # NoRow
          PROVE  codes'[c].tried = codes'[c].attempts
      <3>1. CASE TriesKept(codes, codes')
        BY <2>1, <2>3, <3>1 DEF TriesKept, GuessesCounted
      <3>2. CASE CountWrongGuess(p)
        <4>1. /\ job[p].code \in Codes /\ codes[job[p].code] # NoRow
              /\ job[p].attempts = codes[job[p].code].attempts
          BY <2>1, <3>2 DEF CountWrongGuess, IInv, RequestsOK, RequestOK, VerifyPhases,
             GuessesCounted
        <4>2. codes' = [codes EXCEPT ![job[p].code].attempts = job[p].attempts + 1,
                                     ![job[p].code].tried = @ + 1]
          BY <3>2 DEF CountWrongGuess
        <4>3. CASE c = job[p].code
          <5>1. codes[c] \in Code
            BY <4>1, <4>3, <1>1, StandingCode
          <5>2. codes'[c].tried = codes[c].tried + 1 /\ codes'[c].attempts = codes[c].attempts + 1
            BY <1>1, <4>1, <4>2, <4>3, <5>1 DEF TypeOK, Code
          <5> QED
            BY <2>1, <4>1, <4>3, <5>2 DEF GuessesCounted
        <4>4. CASE c # job[p].code
          <5>1. codes'[c] = codes[c]
            BY <1>1, <4>2, <4>4 DEF TypeOK
          <5> QED
            BY <2>1, <2>3, <5>1 DEF GuessesCounted
        <4> QED
          BY <4>3, <4>4
      <3>3. ASSUME NEW d \in Codes, NEW mailed \in BOOLEAN, CreateCode(p, d, mailed)
            PROVE  codes'[c].tried = codes'[c].attempts
        <4>1. codes' = [codes EXCEPT ![d] = [consumed |-> FALSE, attempts |-> 0,
                                             expires_at |-> now + CodeTtl,
                                             mailed |-> mailed, tried |-> 0]]
          BY <3>3 DEF CreateCode
        <4>2. c = d => codes'[c].tried = 0 /\ codes'[c].attempts = 0
          BY <1>1, <4>1 DEF TypeOK
        <4>3. c # d => codes'[c] = codes[c]
          BY <1>1, <4>1 DEF TypeOK
        <4> QED
          BY <2>1, <2>3, <4>2, <4>3 DEF GuessesCounted
      <3>4. CASE /\ ~ \E q \in Procs : CountWrongGuess(q)
                 /\ ~ \E q \in Procs, d \in Codes, mailed \in BOOLEAN : CreateCode(q, d, mailed)
        BY <3>1, <3>4, TriesStep
      <3>5. ASSUME NEW q \in Procs \ {p}
            PROVE  /\ ~CountWrongGuess(q)
                   /\ \A d \in Codes, mailed \in BOOLEAN : ~CreateCode(q, d, mailed)
        BY <1>1, <1>2, OnlyOne DEF CountWrongGuess, CreateCode
      <3> QED
        BY <3>2, <3>3, <3>4, <3>5
    <2> QED
      BY <2>2, <2>3 DEF GuessesCounted
  <1>3. CASE (\E b \in BOOLEAN : SetMfa(b)) \/ Tick \/ UNCHANGED vars
    BY <1>3 DEF SetMfa, Tick, vars, mfaVars, requestVars, GuessesCounted
  <1> QED
    BY <1>2, <1>3, NextSteps

\* Requests that do not overlap never have more wrong guesses at a code answered than
\* burn it.
THEOREM CodeBurnsAtItsThreshold == Spec => []GuessesCapped
  <1>1. Init => GuessesCounted
    BY DEF Init, GuessesCounted
  <1>2. IInv /\ GuessesCounted => GuessesCapped
    <2> SUFFICES ASSUME IInv, GuessesCounted, ~contended, NEW c \in Codes, codes[c] # NoRow
                 PROVE  codes[c].tried <= MaxAttempts
      BY DEF GuessesCapped
    <2>1. codes[c].attempts \in 0..MaxAttempts
      BY StandingCode DEF IInv, Code
    <2> QED
      BY <2>1, Bounds DEF GuessesCounted
  <1> QED
    BY <1>1, <1>2, AloneInvariance, GuessesCountedStep, PTL DEF Spec

----------------------------------------------------------------------------
(* One session for a code *)

\* A code not redeemed has opened no session; one being redeemed is still unconsumed
\* when it is found right, and has opened none when its session is due.
OneRedemption(c) ==
    ~contended =>
        /\ codes[c] = NoRow \/ ~codes[c].consumed => RedeemedFrom(c) = {}
        /\ \A s, t \in RedeemedFrom(c) : s = t
        /\ \A p \in Procs : job[p].code = c =>
              /\ phase[p] = "verify_right" => ~codes[c].consumed
              /\ phase[p] = "mint" => RedeemedFrom(c) = {}

\* A step that opens no session keeps what there is, whatever becomes of the others.
LEMMA RedeemedShrinks ==
    ASSUME IInv, [Next]_vars, NEW c \in Codes,
           ~ \E p \in Procs, s \in Sessions : MintSession(p, s)
    PROVE  RedeemedFrom(c)' \subseteq RedeemedFrom(c)
  <1>1. TypeOK
    BY DEF IInv
  <1>2. CASE sessions' = sessions
    BY <1>2 DEF RedeemedFrom
  <1>3. CASE sessions' = SessionsRevoked
    BY <1>1, <1>3, RevokedFacts DEF RedeemedFrom
  <1> QED
    BY <1>1, <1>2, <1>3, SessionsStep

\* The step that finds a code right finds it unconsumed, and the step that consumes
\* it is taken by the request that found it.
LEMMA ClaimMade ==
    ASSUME IInv, NEW c \in Codes, NEW p \in Procs, RequestStep(p), job'[p].code = c
    PROVE  /\ phase'[p] = "verify_right" => codes' = codes /\ codes[c] # NoRow /\ ~codes[c].consumed
           /\ phase'[p] = "mint" => phase[p] = "verify_right" /\ job[p].code = c
  <1>1. TypeOK
    BY DEF IInv
  <1>2. ASSUME NEW typed \in Codes \cup {NoRow}, VerifyRead(p, typed)
        PROVE  /\ phase'[p] = "verify_right" => codes' = codes /\ codes[c] # NoRow /\ ~codes[c].consumed
               /\ phase'[p] # "mint"
    <2>1. codes' = codes
      BY <1>2 DEF VerifyRead, mfaVars
    <2>2. PICK d \in Codes, ph \in VerifyPhases :
            /\ Redeemable(d)
            /\ phase' = [phase EXCEPT ![p] = ph]
            /\ job' = [job EXCEPT ![p] = [kind |-> "verify", account |-> NoRow, code |-> d,
                                          attempts |-> codes[d].attempts]]
      BY <1>2, VerifyReadFacts
    <2>3. phase'[p] = ph /\ job'[p].code = d
      BY <1>1, <2>2 DEF TypeOK
    <2> QED
      BY <2>1, <2>2, <2>3 DEF Redeemable, VerifyPhases
  <1>3. CASE PlainStep(p)
    BY <1>1, <1>3, PlainStepFacts DEF TypeOK, PlainPhases
  <1>4. CASE \/ \E right \in BOOLEAN : LoginRead(p, right)
             \/ ClearFailures(p) \/ ChangeReread(p)
    <2>1. phase'[p] \notin {"verify_right", "mint"}
      BY <1>1, <1>4 DEF LoginRead, Start, ClearFailures, ChangeReread, Goto, TypeOK
    <2> QED
      BY <2>1
  <1>5. CASE DecideCodeOrSession(p)
    <2>1. job'[p].code = NoRow
      BY <1>5 DEF DecideCodeOrSession, Goto, IInv, RequestsOK, RequestOK, VerifyPhases
    <2> QED
      BY <2>1, SignInNoRow
  <1>6. CASE ConsumeCode(p)
    BY <1>1, <1>6 DEF ConsumeCode, Goto, TypeOK
  <1> QED
    BY <1>2, <1>3, <1>4, <1>5, <1>6 DEF RequestStep, PlainStep

LEMMA OneRedemptionStep ==
    ASSUME IInv, Alone, [Next]_vars, NEW c \in Codes, OneRedemption(c)
    PROVE  OneRedemption(c)'
  <1> SUFFICES ASSUME ~contended' PROVE OneRedemption(c)'
    BY DEF OneRedemption
  <1>1. TypeOK /\ CodesKept(codes, codes')
    BY CodesStep DEF IInv
  <1>2. ASSUME NEW p \in Procs, RequestStep(p) PROVE OneRedemption(c)'
    <2>1. ~contended /\ \A q \in Procs \ {p} : phase[q] = "idle" /\ phase'[q] = "idle"
      BY <1>1, <1>2, OnlyOne
    <2>2. ASSUME NEW s \in Sessions, MintSession(p, s) PROVE OneRedemption(c)'
      <3>1. codes' = codes /\ phase'[p] = "idle"
        BY <1>1, <2>2 DEF MintSession, Finish, TypeOK, mfaVars
      <3>2. CASE RedeemedFrom(c)' = RedeemedFrom(c)
        BY <2>1, <3>1, <3>2 DEF OneRedemption
      <3>3. CASE /\ p \in Claims(c)
                 /\ RedeemedFrom(c)' = RedeemedFrom(c) \cup {s}
                 /\ codes[c] # NoRow /\ codes[c].consumed
        <4>1. RedeemedFrom(c) = {}
          BY <2>1, <2>2, <3>3 DEF OneRedemption, Claims, MintSession
        <4>2. RedeemedFrom(c)' = {s}
          BY <3>3, <4>1
        <4> QED
          BY <2>1, <3>1, <3>3, <4>2 DEF OneRedemption
      <3> QED
        BY <2>2, <3>2, <3>3, ClaimBecomesSession
    <2>3. CASE ~ \E s \in Sessions : MintSession(p, s)
      <3>1. RedeemedFrom(c)' \subseteq RedeemedFrom(c)
        <4>1. \A q \in Procs \ {p}, s \in Sessions : ~MintSession(q, s)
          BY <2>1 DEF MintSession
        <4> QED
          BY <2>3, <4>1, RedeemedShrinks
      <3>2. codes'[c] = NoRow \/ ~codes'[c].consumed => RedeemedFrom(c)' = {}
        BY <1>1, <2>1, <3>1 DEF CodesKept, OneRedemption
      <3>3. \A s, t \in RedeemedFrom(c)' : s = t
        BY <2>1, <3>1 DEF OneRedemption
      <3>4. ASSUME NEW q \in Procs, job'[q].code = c
            PROVE  /\ phase'[q] = "verify_right" => ~codes'[c].consumed
                   /\ phase'[q] = "mint" => RedeemedFrom(c)' = {}
        <4>1. CASE q # p
          BY <2>1, <4>1
        <4>2. CASE q = p
          <5>1. phase'[q] = "verify_right" => ~codes'[c].consumed
            BY <1>2, <3>4, <4>2, ClaimMade
          <5>2. ASSUME phase'[q] = "mint" PROVE RedeemedFrom(c)' = {}
            <6>1. phase[p] = "verify_right" /\ job[p].code = c
              BY <1>2, <3>4, <4>2, <5>2, ClaimMade
            <6> QED
              BY <2>1, <3>1, <6>1 DEF OneRedemption
          <5> QED
            BY <5>1, <5>2
        <4> QED
          BY <4>1, <4>2
      <3> QED
        BY <3>2, <3>3, <3>4 DEF OneRedemption
    <2> QED
      BY <2>2, <2>3
  <1>3. CASE (\E b \in BOOLEAN : SetMfa(b)) \/ Tick \/ UNCHANGED vars
    <2>1. UNCHANGED <<codes, sessions, phase, job, contended>>
      BY <1>3 DEF SetMfa, Tick, vars, mfaVars, requestVars
    <2> QED
      BY <2>1 DEF OneRedemption, RedeemedFrom
  <1> QED
    BY <1>2, <1>3, NextSteps

\* Requests that do not overlap open one session for a code, whichever of their
\* statements fail.
THEOREM CodeOpensOneSession == Spec => []CodeRedeemedOnceAlone
  <1> DEFINE I == \A c \in Codes : OneRedemption(c)
  <1>1. Init => I
    BY DEF Init, OneRedemption, RedeemedFrom
  <1>2. (IInv /\ Alone) /\ [Next]_vars /\ I => I'
    BY OneRedemptionStep
  <1>3. I => CodeRedeemedOnceAlone
    <2> SUFFICES ASSUME I, ~contended, NEW c \in Codes
                 PROVE  Cardinality(RedeemedFrom(c)) <= 1
      BY DEF CodeRedeemedOnceAlone, CodeRedeemedOnce
    <2>1. CASE RedeemedFrom(c) = {}
      BY <2>1, FS_EmptySet
    <2>2. CASE RedeemedFrom(c) # {}
      <3>1. PICK s \in RedeemedFrom(c) : RedeemedFrom(c) = {s}
        BY <2>2 DEF OneRedemption
      <3>2. Cardinality({s}) = 1
        BY FS_Singleton
      <3> QED
        BY <3>1, <3>2
    <2> QED
      BY <2>1, <2>2
  <1> HIDE DEF I
  <1> QED
    BY <1>1, <1>2, <1>3, AloneInvariance, PTL DEF Spec

----------------------------------------------------------------------------
(* The gate of a forced change *)

\* What a request must know for the password alone to open nothing: the user it read
\* has to change it, what it mints for is a code, and it is no change under way.
RequestHeld(ph, j) ==
    /\ ph \in {"login_failed", "login_ok", "decide"} => j.account.must_change_password
    /\ ph = "mint" => j.kind = "verify"
    /\ ph = "revoke_all" => j.kind = "reset"
    /\ ph # "reread"

Held ==
    gate /\ ~contended =>
        /\ account.must_change_password
        /\ LiveVia({"password"}) = {}
        /\ \A p \in Procs : RequestHeld(phase[p], job[p])

\* The flag is set by a reset alone and cleared by a change alone.
LEMMA ChangeFlagKept ==
    ASSUME TypeOK, [Next]_vars, ~ \E p \in Procs : ChangeWrite(p),
           account.must_change_password
    PROVE  account'.must_change_password
  <1>1. account \in Account
    BY DEF TypeOK
  <1>2. ASSUME NEW p \in Procs, RegisterFailedLogin(p) \/ ClearFailures(p) \/ RequireChange(p)
        PROVE  account'.must_change_password
    BY <1>1, <1>2 DEF RegisterFailedLogin, ClearFailures, RequireChange, Account
  <1>3. CASE \E b \in BOOLEAN : SetMfa(b)
    BY <1>1, <1>3 DEF SetMfa, Account
  <1>4. ASSUME NEW p \in Procs, RequestStep(p), account' # account, ~ChangeWrite(p)
        PROVE  RegisterFailedLogin(p) \/ ClearFailures(p) \/ RequireChange(p)
    <2>1. ~ \E right \in BOOLEAN : LoginRead(p, right)
      BY <1>4 DEF LoginRead, accountVars
    <2> QED
      BY <1>4, <2>1 DEF RequestStep, DecideChange, DecideCodeOrSession, ConsumePriorCodes,
         CreateCode, VerifyRead, CountWrongGuess, BurnCode, ConsumeCode, ResendRead,
         MintSession, RevokeAll, ChangeRead, ChangeReread, Abort, accountVars
  <1>5. CASE Tick \/ UNCHANGED vars
    BY <1>5 DEF Tick, vars, accountVars
  <1> QED
    BY <1>2, <1>3, <1>4, <1>5, NextSteps

\* What a request knows after its step, while the gate is shut.
LEMMA RequestHeldStep ==
    ASSUME IInv, NEW p \in Procs, RequestStep(p), account.must_change_password,
           RequestHeld(phase[p], job[p]), ~ChangeWrite(p)
    PROVE  RequestHeld(phase'[p], job'[p])
  <1>1. TypeOK /\ account \in Account
    BY DEF IInv, TypeOK
  <1>2. ASSUME NEW right \in BOOLEAN, LoginRead(p, right)
        PROVE  RequestHeld(phase'[p], job'[p])
    <2>1. /\ phase'[p] \in {"login_ok", "login_failed"}
          /\ job'[p] = [Request("login") EXCEPT !.account = account]
      BY <1>1, <1>2 DEF LoginRead, Start, TypeOK
    <2>2. job'[p].account = account
      BY <1>1, <2>1, RequestType
    <2> QED
      BY <2>1, <2>2 DEF RequestHeld
  <1>3. CASE ClearFailures(p)
    BY <1>1, <1>3 DEF ClearFailures, Goto, TypeOK, RequestHeld
  <1>4. CASE DecideCodeOrSession(p)
    BY <1>4 DEF DecideCodeOrSession, MustChange, RequestHeld
  <1>5. CASE ChangeReread(p)
    BY <1>5 DEF ChangeReread, RequestHeld
  <1>6. CASE ConsumeCode(p)
    <2>1. job[p].kind = "verify" /\ phase'[p] = "mint" /\ job'[p] = job[p]
      BY <1>1, <1>6 DEF ConsumeCode, Goto, IInv, RequestsOK, RequestOK, VerifyPhases, TypeOK
    <2> QED
      BY <2>1 DEF RequestHeld
  <1>7. CASE RequireChange(p)
    <2>1. phase'[p] = "revoke_all" /\ job'[p] = Request("reset")
      BY <1>1, <1>7 DEF RequireChange, Start, TypeOK
    <2> QED
      BY <2>1, RequestType DEF RequestHeld
  <1>8. CASE RevokeAll(p)
    <2>1. Finish(p)
      BY <1>8 DEF RevokeAll, RequestHeld
    <2> QED
      BY <1>1, <2>1 DEF Finish, TypeOK, RequestHeld
  <1>9. CASE \E typed \in Codes \cup {NoRow} : VerifyRead(p, typed)
    <2>1. phase'[p] \in VerifyPhases
      BY <1>1, <1>9, VerifyReadFacts DEF TypeOK
    <2> QED
      BY <2>1 DEF VerifyPhases, RequestHeld
  <1>10. CASE ResendRead(p) \/ ChangeRead(p) \/ ConsumePriorCodes(p)
    <2>1. phase'[p] \in {"send", "change_write", "create_code"}
      BY <1>1, <1>10 DEF ResendRead, ChangeRead, Start, ConsumePriorCodes, Goto, TypeOK
    <2> QED
      BY <2>1 DEF RequestHeld
  <1>11. CASE Finish(p)
    BY <1>1, <1>11 DEF Finish, TypeOK, RequestHeld
  <1>12. ASSUME \/ RegisterFailedLogin(p) \/ DecideChange(p) \/ CountWrongGuess(p) \/ BurnCode(p)
                \/ \E c \in Codes, mailed \in BOOLEAN : CreateCode(p, c, mailed)
                \/ \E s \in Sessions : MintSession(p, s)
                \/ Abort(p)
         PROVE  Finish(p)
    BY <1>12 DEF RegisterFailedLogin, DecideChange, CountWrongGuess, BurnCode, CreateCode,
       MintSession, Abort
  <1> QED
    BY <1>2, <1>3, <1>4, <1>5, <1>6, <1>7, <1>8, <1>9, <1>10, <1>11, <1>12 DEF RequestStep

\* No step but the opening of a session adds to the live ones.
LEMMA LiveShrinks ==
    ASSUME TypeOK, [Next]_vars, NEW paths,
           ~ \E p \in Procs, s \in Sessions : MintSession(p, s)
    PROVE  LiveVia(paths)' \subseteq LiveVia(paths)
  <1>1. CASE sessions' = sessions
    BY <1>1 DEF LiveVia
  <1>2. CASE sessions' = SessionsRevoked
    <2>1. \A s \in Sessions : sessions'[s] # NoRow => ~sessions'[s].live
      BY <1>2 DEF SessionsRevoked, TypeOK, Minted
    <2> QED
      BY <2>1 DEF LiveVia
  <1> QED
    BY <1>1, <1>2, SessionsStep

LEMMA HeldStep == IInv /\ Alone /\ Held /\ [Next]_vars => Held'
  <1> SUFFICES ASSUME IInv, Alone, Held, [Next]_vars, gate', ~contended' PROVE Held'
    BY DEF Held
  <1>1. TypeOK
    BY DEF IInv
  <1>2. ASSUME NEW p \in Procs, RequestStep(p) PROVE Held'
    <2>1. ~contended /\ \A q \in Procs \ {p} : phase[q] = "idle" /\ phase'[q] = "idle"
      BY <1>1, <1>2, OnlyOne
    <2>2. \A q \in Procs \ {p} : RequestHeld(phase'[q], job'[q])
      BY <2>1 DEF RequestHeld
    <2>3. ~ChangeWrite(p) /\ \A q \in Procs : ~ChangeWrite(q)
      BY <2>1 DEF ChangeWrite
    <2>4. CASE RevokeAll(p) /\ job[p].kind = "reset"
      <3>1. /\ phase'[p] = "idle" /\ gate' = account.must_change_password /\ account' = account
            /\ sessions' = SessionsRevoked
        BY <1>1, <2>4 DEF RevokeAll, Finish, TypeOK, accountVars
      <3>2. \A s \in Sessions : sessions'[s] # NoRow => ~sessions'[s].live
        BY <1>1, <3>1 DEF SessionsRevoked, TypeOK, Minted
      <3>3. LiveVia({"password"})' = {}
        BY <3>2 DEF LiveVia
      <3>4. RequestHeld(phase'[p], job'[p])
        BY <3>1 DEF RequestHeld
      <3> QED
        BY <2>2, <3>1, <3>3, <3>4 DEF Held
    <2>5. CASE ~(RevokeAll(p) /\ job[p].kind = "reset")
      <3>1. gate
        <4>1. (\E right \in BOOLEAN : LoginRead(p, right)) => gate' = gate
          BY DEF LoginRead
        <4> QED
          BY <1>2, <2>3, <2>5, <4>1 DEF RequestStep, RegisterFailedLogin, ClearFailures,
             DecideChange, DecideCodeOrSession, ConsumePriorCodes, CreateCode, VerifyRead,
             CountWrongGuess, BurnCode, ConsumeCode, ResendRead, MintSession, RequireChange,
             RevokeAll, ChangeRead, ChangeReread, Abort
      <3>2. /\ account.must_change_password /\ LiveVia({"password"}) = {}
            /\ RequestHeld(phase[p], job[p])
        BY <2>1, <3>1 DEF Held
      <3>3. account'.must_change_password
        BY <1>1, <2>3, <3>2, ChangeFlagKept
      <3>4. RequestHeld(phase'[p], job'[p])
        BY <1>2, <2>3, <3>2, RequestHeldStep
      <3>5. LiveVia({"password"})' = {}
        <4>1. ASSUME NEW s \in Sessions, MintSession(p, s) PROVE LiveVia({"password"})' = {}
          <5>1. job[p].kind = "verify"
            BY <3>2, <4>1 DEF MintSession, RequestHeld
          <5>2. sessions' = [sessions EXCEPT ![s] = [how |-> "code", code |-> job[p].code,
                                                     live |-> TRUE]]
            BY <4>1, <5>1 DEF MintSession
          <5>3. LiveVia({"password"})' \subseteq LiveVia({"password"})
            BY <1>1, <5>2 DEF LiveVia, TypeOK
          <5> QED
            BY <3>2, <5>3
        <4>2. \A q \in Procs \ {p}, s \in Sessions : ~MintSession(q, s)
          BY <2>1 DEF MintSession
        <4> QED
          BY <1>1, <3>2, <4>1, <4>2, LiveShrinks
      <3> QED
        BY <2>2, <3>3, <3>4, <3>5 DEF Held
    <2> QED
      BY <2>4, <2>5
  <1>3. CASE (\E b \in BOOLEAN : SetMfa(b)) \/ Tick \/ UNCHANGED vars
    <2>1. UNCHANGED <<sessions, phase, job, contended, gate>>
      BY <1>3 DEF SetMfa, Tick, vars, requestVars
    <2>2. account.must_change_password /\ LiveVia({"password"}) = {}
          /\ \A p \in Procs : RequestHeld(phase[p], job[p])
      BY <2>1 DEF Held
    <2>3. account'.must_change_password
      <3>1. account \in Account
        BY <1>1 DEF TypeOK
      <3> QED
        BY <1>3, <2>2, <3>1 DEF SetMfa, Tick, vars, accountVars, Account
    <2> QED
      BY <2>1, <2>2, <2>3 DEF Held, LiveVia
  <1> QED
    BY <1>2, <1>3, NextSteps

\* From the end of a reset to the change it forces, requests that do not overlap open
\* no session by the password alone, and those it had opened are gone.
THEOREM ResetShutsThePasswordOut == Spec => []PasswordAloneIsGated
  <1>1. Init => Held
    BY DEF Init, Held
  <1>2. Held => PasswordAloneIsGated
    BY DEF Held, PasswordAloneIsGated
  <1> QED
    BY <1>1, <1>2, AloneInvariance, HeldStep, PTL DEF Spec

=============================================================================
