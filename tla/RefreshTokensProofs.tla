------------------------ MODULE RefreshTokensProofs -------------------------
(***************************************************************************)
(* Theorems about RefreshTokens for any number of users, of requests in    *)
(* flight, of rows and of instants, and any settings of lifetime and grace *)
(* that satisfy its assumptions.                                           *)
(*                                                                         *)
(* The argument.  What a locked rotation decides on is current because     *)
(* every writer of a family waits for its lock (LockedReadIsCurrent); it is*)
(* inductive once the families that requests name are known to be families *)
(* already opened, and the ids not yet given out to be blank.  On that rest*)
(* the other two: a row is inserted into a family only by the holder of its*)
(* lock, who saw an unrevoked row in it; and a row is spent only by the    *)
(* holder of its lock, who saw it unspent.                                 *)
(***************************************************************************)
EXTENDS RefreshTokens, FiniteSetTheorems, TLAPS

----------------------------------------------------------------------------
(* The inductive invariant *)

\* A request that has begun has its arguments, and a rotation names a row and a
\* family that exist or once existed.
RequestsOK ==
    \A p \in Procs :
        /\ phase[p] # "idle" => job[p] \in Job
        /\ phase[p] \in {"rotate_lock", "rotate_locked"} =>
               /\ job[p].token \in Tokens
               /\ job[p].token < next_id
               /\ job[p].family \in Tokens
               /\ job[p].family < next_id

\* Every request that may insert a row has an id left for it.
RoomKept == next_id + Cardinality(Minting) <= MaxTokens + 1

\* Ids not given out yet are blank, in the table and in its history.
IdsFresh ==
    \A t \in Tokens :
        /\ t >= next_id => refresh_tokens[t] = NoRow /\ origin[t] = NoOrigin
        /\ refresh_tokens[t] # NoRow => refresh_tokens[t].family < next_id

IInv ==
    /\ TypeOK
    /\ RequestsOK
    /\ RoomKept
    /\ IdsFresh
    /\ LockedReadIsCurrent

----------------------------------------------------------------------------
(* Lemmas about the operators of the model *)

\* A stored timestamp and a stored expiry stay within the bound Time.
LEMMA StoredTimeType ==
    ASSUME NEW n \in Instant
    PROVE  /\ StoredTime(n) \in Time
           /\ RefreshExpiry(n) \in Time
           /\ StoredTime(n) # NULL
  BY BoundsAssumption, TtlAssumption, NullAssumption
     DEF StoredTime, RefreshExpiry, Instant, Time

\* Revoking rows keeps every row in its place, its family, its owner and its
\* expiry, and leaves no timestamp NULL that was not.
LEMMA RevokeFacts ==
    ASSUME TypeOK, NEW S
    PROVE  /\ Revoke(S) \in Table
           /\ \A t \in Tokens :
                 /\ (Revoke(S)[t] = NoRow) <=> (refresh_tokens[t] = NoRow)
                 /\ t \notin S => Revoke(S)[t] = refresh_tokens[t]
                 /\ refresh_tokens[t] # NoRow =>
                       /\ Revoke(S)[t].family = refresh_tokens[t].family
                       /\ Revoke(S)[t].user = refresh_tokens[t].user
                       /\ Revoke(S)[t].expires_at = refresh_tokens[t].expires_at
                 /\ Unrevoked(Revoke(S), t) => Unrevoked(refresh_tokens, t) /\ t \notin S
  <1>1. /\ StoredTime(now) \in Time
        /\ StoredTime(now) # NULL
    BY StoredTimeType DEF TypeOK
  <1>2. ASSUME NEW t \in Tokens, refresh_tokens[t] # NoRow
        PROVE  /\ refresh_tokens[t] \in Row
               /\ [refresh_tokens[t] EXCEPT !.revoked_at = StoredTime(now)] \in Row
    BY <1>1, <1>2 DEF TypeOK, Table, Row
  <1>3. Revoke(S) \in Table
    BY <1>2 DEF Revoke, TypeOK, Table
  <1>4. ASSUME NEW t \in Tokens
        PROVE  /\ (Revoke(S)[t] = NoRow) <=> (refresh_tokens[t] = NoRow)
               /\ t \notin S => Revoke(S)[t] = refresh_tokens[t]
               /\ refresh_tokens[t] # NoRow =>
                     /\ Revoke(S)[t].family = refresh_tokens[t].family
                     /\ Revoke(S)[t].user = refresh_tokens[t].user
                     /\ Revoke(S)[t].expires_at = refresh_tokens[t].expires_at
               /\ Unrevoked(Revoke(S), t) => Unrevoked(refresh_tokens, t) /\ t \notin S
    <2>1. CASE t \notin S \/ refresh_tokens[t] = NoRow
      BY <2>1 DEF Revoke, Unrevoked
    <2>2. CASE t \in S /\ refresh_tokens[t] # NoRow
      <3>1. Revoke(S)[t] = [refresh_tokens[t] EXCEPT !.revoked_at = StoredTime(now)]
        BY <2>2 DEF Revoke
      <3> QED
        BY <1>1, <1>2, <2>2, <3>1, NoRowAssumption DEF Unrevoked, Row
    <2> QED
      BY <2>1, <2>2
  <1> QED
    BY <1>3, <1>4

\* The sweep takes rows away and changes none.
LEMMA SweptFacts ==
    ASSUME TypeOK, NEW u
    PROVE  /\ Swept(u) \in Table
           /\ \A t \in Tokens :
                 /\ Swept(u)[t] \in {refresh_tokens[t], NoRow}
                 /\ Swept(u)[t] # refresh_tokens[t] =>
                       refresh_tokens[t] # NoRow /\ refresh_tokens[t].user = u
  BY DEF TypeOK, Table, Swept

\* A new row is a row, unrevoked, of the family and the user it was made for.
LEMMA IssuedRowFacts ==
    ASSUME TypeOK, NEW u \in Users, NEW f \in Tokens
    PROVE  /\ IssuedRow(u, f) \in Row
           /\ IssuedRow(u, f) # NoRow
           /\ IssuedRow(u, f).family = f
           /\ IssuedRow(u, f).revoked_at = NULL
  BY StoredTimeType, NoRowAssumption DEF TypeOK, Row, IssuedRow

\* The end of a request gives back its locks and nobody else's.
LEMMA ReleaseFacts ==
    ASSUME TypeOK, NEW p \in Procs
    PROVE  /\ LocksReleased(p) \in [Tokens -> Procs \cup {NoProc}]
           /\ \A f \in Tokens : lock[f] # p => LocksReleased(p)[f] = lock[f]
  BY DEF TypeOK, LocksReleased

\* Two tables that agree on the rows of a family show the same family.
LEMMA FamilyTableAgrees ==
    ASSUME NEW T1, NEW T2, NEW f,
           \A t \in Tokens : \/ T1[t] = T2[t]
                             \/ /\ T1[t] # NoRow => T1[t].family # f
                                /\ T2[t] # NoRow => T2[t].family # f
    PROVE  FamilyTable(T1, f) = FamilyTable(T2, f)
  BY DEF FamilyTable

\* What a family shows is a table of its own.
LEMMA FamilyTableType ==
    ASSUME NEW T \in Table, NEW f
    PROVE  FamilyTable(T, f) \in Table
  BY DEF FamilyTable, Table

\* Requests that may insert rows are finitely many.
LEMMA MintingFinite == IsFiniteSet(Minting) /\ Cardinality(Minting) \in Nat
  <1>1. Minting \in SUBSET Procs
    BY DEF Minting
  <1>2. IsFiniteSet(Minting)
    BY <1>1, ProcsAssumption, FS_Subset
  <1> QED
    BY <1>2, FS_CardinalityType


\* A request that changes phase changes how many may insert a row accordingly.
LEMMA MintingChanges ==
    ASSUME TypeOK, NEW p \in Procs, NEW ph, phase' = [phase EXCEPT ![p] = ph]
    PROVE  /\ Cardinality(Minting') \in Nat
           /\ Cardinality(Minting') <= Cardinality(Minting) + 1
           /\ ph \notin MintingPhases => Cardinality(Minting') <= Cardinality(Minting)
           /\ phase[p] \in MintingPhases =>
                 Cardinality(Minting') <= Cardinality(Minting)
           /\ phase[p] \in MintingPhases /\ ph \notin MintingPhases =>
                 Cardinality(Minting') = Cardinality(Minting) - 1
  <1>1. /\ IsFiniteSet(Minting)
        /\ Cardinality(Minting) \in Nat
    BY MintingFinite
  <1>2. CASE ph \in MintingPhases
    <2>1. Minting' = Minting \cup {p}
      BY <1>2 DEF Minting, TypeOK
    <2>2. p \in Minting <=> phase[p] \in MintingPhases
      BY DEF Minting
    <2>3. Cardinality(Minting') =
             IF p \in Minting THEN Cardinality(Minting) ELSE Cardinality(Minting) + 1
      BY <1>1, <2>1, FS_AddElement
    <2> QED
      BY <1>1, <1>2, <2>2, <2>3
  <1>3. CASE ph \notin MintingPhases
    <2>1. Minting' = Minting \ {p}
      BY <1>3 DEF Minting, TypeOK
    <2>2. p \in Minting <=> phase[p] \in MintingPhases
      BY DEF Minting
    <2>3. /\ IsFiniteSet(Minting')
          /\ Cardinality(Minting') =
                IF p \in Minting THEN Cardinality(Minting) - 1 ELSE Cardinality(Minting)
      BY <1>1, <2>1, FS_RemoveElement
    <2>4. Cardinality(Minting') \in Nat
      BY <2>3, FS_CardinalityType
    <2> QED
      BY <1>1, <1>3, <2>2, <2>3, <2>4
  <1> QED
    BY <1>2, <1>3

\* A request that may insert a row finds an id left for it.
LEMMA RoomForMinting ==
    ASSUME TypeOK, RoomKept, NEW p \in Procs, phase[p] \in MintingPhases
    PROVE  next_id \in Tokens
  <1>1. /\ IsFiniteSet(Minting)
        /\ Cardinality(Minting) \in Nat
        /\ p \in Minting
    BY MintingFinite DEF Minting
  <1>2. Cardinality(Minting) # 0
    BY <1>1, FS_EmptySet
  <1> QED
    BY <1>1, <1>2, BoundsAssumption DEF TypeOK, RoomKept, Tokens

\* What the end of a request leaves of the invariant, whatever it has written
\* to rows no locked rotation has read.
LEMMA FinishKeeps ==
    ASSUME IInv, NEW q \in Procs, Finish(q),
           next_id' \in 1..(MaxTokens + 1), next_id' >= next_id,
           \A p \in Procs \ {q}, t \in Tokens :
              phase[p] = "rotate_locked" =>
                 \/ refresh_tokens'[t] = refresh_tokens[t]
                 \/ /\ refresh_tokens[t] # NoRow => refresh_tokens[t].family # job[p].family
                    /\ refresh_tokens'[t] # NoRow => refresh_tokens'[t].family # job[p].family
    PROVE  /\ lock' \in [Tokens -> Procs \cup {NoProc}]
           /\ phase' \in [Procs -> Phases]
           /\ job' \in [Procs -> Job \cup {NoJob}]
           /\ seen' \in [Procs -> Table]
           /\ RequestsOK'
           /\ LockedReadIsCurrent'
  <1>1. /\ lock' \in [Tokens -> Procs \cup {NoProc}]
        /\ \A f \in Tokens : lock[f] # q => lock'[f] = lock[f]
    BY ReleaseFacts DEF IInv, Finish
  <1>2. /\ phase' \in [Procs -> Phases]
        /\ job' \in [Procs -> Job \cup {NoJob}]
        /\ seen' \in [Procs -> Table]
    BY DEF IInv, TypeOK, Finish, Phases, EmptyTable, Table
  <1>3. /\ phase'[q] = "idle"
        /\ \A p \in Procs \ {q} :
              phase'[p] = phase[p] /\ job'[p] = job[p] /\ seen'[p] = seen[p]
    BY DEF IInv, TypeOK, Finish
  <1>4. RequestsOK'
    BY <1>3 DEF IInv, TypeOK, RequestsOK, Tokens
  <1>5. ASSUME NEW p \in Procs, phase'[p] = "rotate_locked"
        PROVE  /\ lock'[job'[p].family] = p
               /\ seen'[p] = FamilyTable(refresh_tokens', job'[p].family)
    <2>1. p # q /\ phase[p] = "rotate_locked" /\ job'[p] = job[p] /\ seen'[p] = seen[p]
      BY <1>3, <1>5
    <2>2. /\ lock[job[p].family] = p
          /\ job[p].family \in Tokens
          /\ seen[p] = FamilyTable(refresh_tokens, job[p].family)
      BY <2>1 DEF IInv, LockedReadIsCurrent, RequestsOK
    <2>3. FamilyTable(refresh_tokens', job[p].family)
             = FamilyTable(refresh_tokens, job[p].family)
      BY <2>1, FamilyTableAgrees
    <2> QED
      BY <1>1, <2>1, <2>2, <2>3
  <1> QED
    BY <1>1, <1>2, <1>4, <1>5 DEF LockedReadIsCurrent

\* A locked rotation that finds its row has found the row of the table, in the
\* family it holds, which no other locked rotation holds.
LEMMA LockedRotation ==
    ASSUME IInv, NEW p \in Procs, phase[p] = "rotate_locked"
    PROVE  /\ job[p] \in Job
           /\ job[p].token \in Tokens
           /\ job[p].family \in Tokens
           /\ job[p].user \in Users
           /\ seen[p] = FamilyTable(refresh_tokens, job[p].family)
           /\ \A t \in Tokens : seen[p][t] # NoRow =>
                 seen[p][t] = refresh_tokens[t] /\ refresh_tokens[t].family = job[p].family
           /\ \A q \in Procs \ {p} :
                 phase[q] = "rotate_locked" => job[q].family # job[p].family
  BY DEF IInv, RequestsOK, LockedReadIsCurrent, Job, FamilyTable

----------------------------------------------------------------------------
(* Every action preserves the invariant *)

LEMMA InitIInv == Init => IInv
  <1> SUFFICES ASSUME Init PROVE IInv
    OBVIOUS
  <1>1. TypeOK
    BY BoundsAssumption DEF Init, TypeOK, Instant, Tokens, Table, EmptyTable, Phases,
       Origin, NoOrigin
  <1>2. Minting = {}
    BY DEF Init, Minting, MintingPhases
  <1>3. RoomKept
    BY <1>2, FS_EmptySet, BoundsAssumption DEF Init, RoomKept
  <1> QED
    BY <1>1, <1>3 DEF Init, IInv, RequestsOK, IdsFresh, EmptyTable, LockedReadIsCurrent

LEMMA RotateLookupStep ==
    ASSUME IInv, NEW p \in Procs, NEW t \in Tokens, RotateLookup(p, t)
    PROVE  IInv'
  <1> USE DEF IInv
  <1>1. /\ refresh_tokens[t] \in Row
        /\ refresh_tokens[t].family < next_id
    BY DEF RotateLookup, TypeOK, Table, IdsFresh
  <1>2. job'[p] \in Job /\ job'[p].token = t /\ job'[p].family = refresh_tokens[t].family
    BY <1>1 DEF RotateLookup, Start, TypeOK, Job, Row
  <1>3. t < next_id
    BY DEF RotateLookup, IdsFresh, TypeOK, Tokens
  <1>4. TypeOK'
    BY <1>2 DEF RotateLookup, Start, TypeOK, Phases, dbVars
  <1>5. RequestsOK'
    BY <1>1, <1>2, <1>3 DEF RotateLookup, Start, RequestsOK, TypeOK, Row, dbVars
  <1>6. RoomKept'
    <2>1. /\ Cardinality(Minting') \in Nat
          /\ Cardinality(Minting') <= Cardinality(Minting) + 1
      BY MintingChanges DEF RotateLookup, Start
    <2> QED
      BY <2>1, MintingFinite, BoundsAssumption
         DEF RotateLookup, RoomKept, RoomForRow, TypeOK, dbVars
  <1>7. IdsFresh' /\ LockedReadIsCurrent'
    BY DEF RotateLookup, Start, IdsFresh, LockedReadIsCurrent, TypeOK, dbVars
  <1> QED
    BY <1>4, <1>5, <1>6, <1>7

LEMMA LockFamilyStep ==
    ASSUME IInv, NEW p \in Procs, LockFamily(p)
    PROVE  IInv'
  <1> USE DEF IInv
  <1>1. job[p].family \in Tokens /\ FamilyTable(refresh_tokens, job[p].family) \in Table
    BY FamilyTableType DEF LockFamily, RequestsOK, TypeOK
  <1>2. TypeOK'
    BY <1>1 DEF LockFamily, Goto, TypeOK, Phases, dbVars
  <1>3. RequestsOK' /\ IdsFresh'
    BY DEF LockFamily, Goto, RequestsOK, IdsFresh, TypeOK, dbVars
  <1>4. RoomKept'
    <2>1. /\ Cardinality(Minting') \in Nat
          /\ Cardinality(Minting') <= Cardinality(Minting)
      BY MintingChanges DEF LockFamily, Goto, MintingPhases
    <2> QED
      BY <2>1, MintingFinite, BoundsAssumption DEF LockFamily, RoomKept, TypeOK, dbVars
  <1>5. ASSUME NEW q \in Procs, phase'[q] = "rotate_locked"
        PROVE  /\ lock'[job'[q].family] = q
               /\ seen'[q] = FamilyTable(refresh_tokens', job'[q].family)
    <2>1. CASE q = p
      BY <1>1, <2>1 DEF LockFamily, TypeOK, dbVars
    <2>2. CASE q # p
      <3>1. /\ phase[q] = "rotate_locked"
            /\ seen'[q] = seen[q]
        BY <1>5, <2>2 DEF LockFamily, Goto, TypeOK
      <3>2. lock[job[q].family] = q /\ q # NoProc
        BY <3>1, NoProcAssumption DEF LockedReadIsCurrent
      <3>3. job[q].family # job[p].family
        BY <2>2, <3>2 DEF LockFamily, LockFree
      <3> QED
        BY <1>1, <3>1, <3>2, <3>3 DEF LockFamily, LockedReadIsCurrent, TypeOK, dbVars
    <2> QED
      BY <2>1, <2>2
  <1>6. LockedReadIsCurrent'
    BY <1>5 DEF LockedReadIsCurrent
  <1> QED
    BY <1>2, <1>3, <1>4, <1>6

\* A request that ends without inserting a row, having revoked or deleted only
\* rows that no other locked rotation has read.
LEMMA EndStep ==
    ASSUME IInv, NEW p \in Procs, Finish(p), UNCHANGED <<now, grace, next_id, origin>>,
           login_disabled' = login_disabled,
           refresh_tokens' \in Table,
           \A t \in Tokens : refresh_tokens'[t] # NoRow =>
              refresh_tokens[t] # NoRow /\ refresh_tokens'[t].family = refresh_tokens[t].family,
           \A q \in Procs \ {p}, t \in Tokens :
              phase[q] = "rotate_locked" =>
                 \/ refresh_tokens'[t] = refresh_tokens[t]
                 \/ /\ refresh_tokens[t] # NoRow
                    /\ refresh_tokens[t].family # job[q].family
    PROVE  IInv'
  <1>1. /\ lock' \in [Tokens -> Procs \cup {NoProc}]
        /\ phase' \in [Procs -> Phases]
        /\ job' \in [Procs -> Job \cup {NoJob}]
        /\ seen' \in [Procs -> Table]
        /\ RequestsOK'
        /\ LockedReadIsCurrent'
    <2>1. next_id' \in 1..(MaxTokens + 1) /\ next_id' >= next_id
      BY DEF IInv, TypeOK
    <2>2. \A q \in Procs \ {p}, t \in Tokens :
             phase[q] = "rotate_locked" =>
                \/ refresh_tokens'[t] = refresh_tokens[t]
                \/ /\ refresh_tokens[t] # NoRow => refresh_tokens[t].family # job[q].family
                   /\ refresh_tokens'[t] # NoRow => refresh_tokens'[t].family # job[q].family
      OBVIOUS
    <2> QED
      BY <2>1, <2>2, FinishKeeps
  <1>2. TypeOK'
    BY <1>1 DEF IInv, TypeOK
  <1>3. RoomKept'
    <2>1. TypeOK /\ "idle" \notin MintingPhases
      BY DEF IInv, MintingPhases
    <2>2. /\ Cardinality(Minting') \in Nat
          /\ Cardinality(Minting') <= Cardinality(Minting)
      BY <2>1, MintingChanges DEF Finish
    <2> QED
      BY <2>2, MintingFinite, BoundsAssumption DEF IInv, RoomKept, TypeOK
  <1>4. IdsFresh'
    BY DEF IInv, IdsFresh
  <1> QED
    BY <1>1, <1>2, <1>3, <1>4 DEF IInv

LEMMA RowMissingStep ==
    ASSUME IInv, NEW p \in Procs, RotateRowMissing(p)
    PROVE  IInv'
  BY EndStep DEF RotateRowMissing, IInv, TypeOK, dbVars

LEMMA AbortStep ==
    ASSUME IInv, NEW p \in Procs, Abort(p)
    PROVE  IInv'
  BY EndStep DEF Abort, IInv, TypeOK, dbVars

\* A locked rotation that revokes its family, or its row, disturbs no other.
LEMMA RevokesOwnFamily ==
    ASSUME IInv, NEW p \in Procs, phase[p] = "rotate_locked",
           NEW S, \A t \in S \cap Tokens : refresh_tokens[t] # NoRow =>
                     refresh_tokens[t].family = job[p].family,
           Finish(p), refresh_tokens' = Revoke(S),
           UNCHANGED <<now, grace, login_disabled, next_id, origin>>
    PROVE  IInv'
  <1>1. TypeOK
    BY DEF IInv
  <1>2. /\ refresh_tokens' \in Table
        /\ \A t \in Tokens :
              /\ (refresh_tokens'[t] = NoRow) <=> (refresh_tokens[t] = NoRow)
              /\ t \notin S => refresh_tokens'[t] = refresh_tokens[t]
              /\ refresh_tokens[t] # NoRow =>
                    refresh_tokens'[t].family = refresh_tokens[t].family
    BY <1>1, RevokeFacts
  <1>3. \A q \in Procs \ {p} :
           phase[q] = "rotate_locked" => job[q].family # job[p].family
    BY LockedRotation
  <1>4. \A q \in Procs \ {p}, t \in Tokens :
           phase[q] = "rotate_locked" =>
              \/ refresh_tokens'[t] = refresh_tokens[t]
              \/ /\ refresh_tokens[t] # NoRow
                 /\ refresh_tokens[t].family # job[q].family
    BY <1>2, <1>3
  <1> QED
    BY <1>2, <1>4, EndStep

LEMMA TheftStep ==
    ASSUME IInv, NEW p \in Procs, RotateTheft(p)
    PROVE  IInv'
  BY RevokesOwnFamily DEF RotateTheft, RevokeFamilyLocked

LEMMA InactiveStep ==
    ASSUME IInv, NEW p \in Procs, RotateInactive(p)
    PROVE  IInv'
  BY RevokesOwnFamily DEF RotateInactive, RevokeFamilyLocked

LEMMA ExpiredStep ==
    ASSUME IInv, NEW p \in Procs, RotateExpired(p)
    PROVE  IInv'
  <1>1. refresh_tokens[job[p].token].family = job[p].family
    BY LockedRotation DEF RotateExpired, PresentedRow
  <1> QED
    BY <1>1, RevokesOwnFamily DEF RotateExpired


\* A request that ends by inserting the row next_id into a family no other
\* locked rotation holds, having changed only rows none of them has read.
LEMMA InsertStep ==
    ASSUME IInv, NEW p \in Procs, phase[p] \in MintingPhases, Finish(p),
           NEW f \in Tokens, f <= next_id, next_id \in Tokens, next_id' = next_id + 1,
           refresh_tokens' \in Table, refresh_tokens'[next_id] # NoRow,
           refresh_tokens'[next_id].family = f,
           \A t \in Tokens \ {next_id} : refresh_tokens'[t] # NoRow =>
              refresh_tokens[t] # NoRow /\ refresh_tokens'[t].family = refresh_tokens[t].family,
           origin' \in [Tokens -> Origin],
           \A t \in Tokens \ {next_id} : origin'[t] = origin[t],
           UNCHANGED <<now, grace, login_disabled>>,
           \A q \in Procs \ {p} : phase[q] = "rotate_locked" =>
              /\ job[q].family # f
              /\ \A t \in Tokens \ {next_id} :
                    \/ refresh_tokens'[t] = refresh_tokens[t]
                    \/ /\ refresh_tokens[t] # NoRow
                       /\ refresh_tokens[t].family # job[q].family
    PROVE  IInv'
  <1>1. TypeOK
    BY DEF IInv
  <1>2. /\ next_id' \in 1..(MaxTokens + 1)
        /\ next_id' >= next_id
        /\ refresh_tokens[next_id] = NoRow
    BY <1>1, BoundsAssumption DEF IInv, TypeOK, IdsFresh, Tokens
  <1>4. /\ lock' \in [Tokens -> Procs \cup {NoProc}]
        /\ phase' \in [Procs -> Phases]
        /\ job' \in [Procs -> Job \cup {NoJob}]
        /\ seen' \in [Procs -> Table]
        /\ RequestsOK'
        /\ LockedReadIsCurrent'
    <2>1. \A q \in Procs \ {p}, t \in Tokens :
             phase[q] = "rotate_locked" =>
                \/ refresh_tokens'[t] = refresh_tokens[t]
                \/ /\ refresh_tokens[t] # NoRow => refresh_tokens[t].family # job[q].family
                   /\ refresh_tokens'[t] # NoRow => refresh_tokens'[t].family # job[q].family
      BY <1>2
    <2> QED
      BY <1>2, <2>1, FinishKeeps
  <1>5. TypeOK'
    BY <1>1, <1>2, <1>4 DEF TypeOK
  <1>6. RoomKept'
    <2>1. "idle" \notin MintingPhases
      BY DEF MintingPhases
    <2>2. Cardinality(Minting') = Cardinality(Minting) - 1
      BY <1>1, <2>1, MintingChanges DEF Finish
    <2> QED
      BY <1>1, <2>2, MintingFinite, BoundsAssumption DEF IInv, RoomKept, TypeOK
  <1>7. IdsFresh'
    <2> SUFFICES ASSUME NEW t \in Tokens
                 PROVE  /\ t >= next_id + 1 =>
                              refresh_tokens'[t] = NoRow /\ origin'[t] = NoOrigin
                        /\ refresh_tokens'[t] # NoRow =>
                              refresh_tokens'[t].family < next_id + 1
      BY DEF IdsFresh
    <2>1. /\ next_id \in Int /\ t \in Int /\ f \in Int
          /\ refresh_tokens[t] # NoRow => refresh_tokens[t].family \in Int
      BY <1>1 DEF TypeOK, Tokens, Table, Row
    <2>2. CASE t = next_id
      BY <2>1, <2>2
    <2>3. CASE t # next_id
      BY <2>1, <2>3 DEF IInv, IdsFresh
    <2> QED
      BY <2>2, <2>3
  <1> QED
    BY <1>4, <1>5, <1>6, <1>7 DEF IInv

LEMMA RenewStep ==
    ASSUME IInv, NEW p \in Procs, RotateRenew(p)
    PROVE  IInv'
  <1>1. TypeOK /\ next_id \in Tokens /\ phase[p] = "rotate_locked"
    BY RoomForMinting DEF IInv, RotateRenew, MintingPhases
  <1>2. /\ job[p] \in Job
        /\ job[p].user \in Users
        /\ job[p].family \in Tokens
        /\ job[p].family <= next_id
        /\ job[p].token \in Tokens
        /\ refresh_tokens[job[p].token] # NoRow
        /\ refresh_tokens[job[p].token].family = job[p].family
    BY <1>1, LockedRotation DEF RotateRenew, PresentedRow, IInv, RequestsOK, Tokens
  <1>3. /\ Revoke(SpentBy(p)) \in Table
        /\ \A t \in Tokens :
              /\ Revoke(SpentBy(p))[t] # NoRow => refresh_tokens[t] # NoRow
              /\ t # job[p].token => Revoke(SpentBy(p))[t] = refresh_tokens[t]
              /\ refresh_tokens[t] # NoRow =>
                    Revoke(SpentBy(p))[t].family = refresh_tokens[t].family
    BY <1>1, RevokeFacts DEF SpentBy
  <1>4. /\ IssuedRow(job[p].user, job[p].family) \in Row
        /\ IssuedRow(job[p].user, job[p].family) # NoRow
        /\ IssuedRow(job[p].user, job[p].family).family = job[p].family
    BY <1>1, <1>2, IssuedRowFacts
  <1>5. /\ refresh_tokens' \in Table
        /\ refresh_tokens'[next_id] = IssuedRow(job[p].user, job[p].family)
        /\ \A t \in Tokens \ {next_id} : refresh_tokens'[t] = Revoke(SpentBy(p))[t]
    BY <1>1, <1>3, <1>4 DEF RotateRenew, RenewedTable, Table
  <1>6. /\ origin' \in [Tokens -> Origin]
        /\ \A t \in Tokens \ {next_id} : origin'[t] = origin[t]
    BY <1>1, <1>2 DEF RotateRenew, TypeOK, Origin
  <1>7. \A q \in Procs \ {p} :
           phase[q] = "rotate_locked" => job[q].family # job[p].family
    BY <1>1, LockedRotation
  <1>8. /\ Finish(p) /\ next_id' = next_id + 1
        /\ UNCHANGED <<now, grace, login_disabled>>
    BY DEF RotateRenew
  <1>9. \A q \in Procs \ {p} : phase[q] = "rotate_locked" =>
           \A t \in Tokens \ {next_id} :
              \/ refresh_tokens'[t] = refresh_tokens[t]
              \/ /\ refresh_tokens[t] # NoRow
                 /\ refresh_tokens[t].family # job[q].family
    BY <1>2, <1>3, <1>5, <1>7
  <1>10. \A t \in Tokens \ {next_id} : refresh_tokens'[t] # NoRow =>
            refresh_tokens[t] # NoRow /\ refresh_tokens'[t].family = refresh_tokens[t].family
    BY <1>3, <1>5
  <1>11. phase[p] \in MintingPhases
    BY <1>1 DEF MintingPhases
  <1> QED
    BY <1>1, <1>2, <1>4, <1>5, <1>6, <1>7, <1>8, <1>9, <1>10, <1>11, InsertStep

\* A step that has waited for the locks of a user's families disturbs no locked
\* rotation by changing that user's rows.
LEMMA UserRowsUnread ==
    ASSUME IInv, NEW u, UserLockFree(u),
           NEW q \in Procs, phase[q] = "rotate_locked",
           NEW t \in Tokens, refresh_tokens[t] # NoRow, refresh_tokens[t].user = u
    PROVE  refresh_tokens[t].family # job[q].family
  BY NoProcAssumption DEF IInv, LockedReadIsCurrent, UserLockFree, LockFree, FamiliesOf

LEMMA LoginStep ==
    ASSUME IInv, NEW p \in Procs, LoginCommit(p)
    PROVE  IInv'
  <1>1. TypeOK /\ next_id \in Tokens
    BY RoomForMinting DEF IInv, LoginCommit, MintingPhases
  <1>2. job[p] \in Job /\ job[p].user \in Users
    BY <1>1 DEF LoginCommit, IInv, RequestsOK, Job
  <1>3. /\ Swept(job[p].user) \in Table
        /\ \A t \in Tokens :
              /\ Swept(job[p].user)[t] \in {refresh_tokens[t], NoRow}
              /\ Swept(job[p].user)[t] # refresh_tokens[t] =>
                    refresh_tokens[t] # NoRow /\ refresh_tokens[t].user = job[p].user
    BY <1>1, SweptFacts
  <1>4. /\ IssuedRow(job[p].user, next_id) \in Row
        /\ IssuedRow(job[p].user, next_id) # NoRow
        /\ IssuedRow(job[p].user, next_id).family = next_id
    BY <1>1, <1>2, IssuedRowFacts
  <1>5. /\ refresh_tokens' \in Table
        /\ refresh_tokens'[next_id] = IssuedRow(job[p].user, next_id)
        /\ \A t \in Tokens \ {next_id} : refresh_tokens'[t] = Swept(job[p].user)[t]
    BY <1>1, <1>3, <1>4 DEF LoginCommit, Table
  <1>6. /\ origin' \in [Tokens -> Origin]
        /\ \A t \in Tokens \ {next_id} : origin'[t] = origin[t]
    BY <1>1, <1>2 DEF LoginCommit, TypeOK, Origin
  <1>7. \A q \in Procs \ {p} : phase[q] = "rotate_locked" => job[q].family # next_id
    BY <1>1 DEF IInv, RequestsOK, Tokens
  <1>8. /\ Finish(p) /\ next_id' = next_id + 1
        /\ UNCHANGED <<now, grace, login_disabled>>
        /\ UserLockFree(job[p].user)
    BY DEF LoginCommit
  <1>9. \A q \in Procs \ {p} : phase[q] = "rotate_locked" =>
           \A t \in Tokens \ {next_id} :
              \/ refresh_tokens'[t] = refresh_tokens[t]
              \/ /\ refresh_tokens[t] # NoRow
                 /\ refresh_tokens[t].family # job[q].family
    BY <1>3, <1>5, <1>8, UserRowsUnread
  <1>10. \A t \in Tokens \ {next_id} : refresh_tokens'[t] # NoRow =>
            refresh_tokens[t] # NoRow /\ refresh_tokens'[t].family = refresh_tokens[t].family
    BY <1>3, <1>5
  <1>11. next_id <= next_id /\ phase[p] \in MintingPhases
    BY <1>1 DEF Tokens, LoginCommit, MintingPhases
  <1> QED
    BY <1>1, <1>4, <1>5, <1>6, <1>7, <1>8, <1>9, <1>10, <1>11, InsertStep

LEMMA LoginFailsStep ==
    ASSUME IInv, NEW p \in Procs, LoginFailsAfterSweep(p)
    PROVE  IInv'
  <1>1. /\ TypeOK
        /\ Swept(job[p].user) \in Table
        /\ \A t \in Tokens :
              /\ Swept(job[p].user)[t] \in {refresh_tokens[t], NoRow}
              /\ Swept(job[p].user)[t] # refresh_tokens[t] =>
                    refresh_tokens[t] # NoRow /\ refresh_tokens[t].user = job[p].user
    BY SweptFacts DEF IInv
  <1>2. \A q \in Procs \ {p}, t \in Tokens :
           phase[q] = "rotate_locked" =>
              \/ refresh_tokens'[t] = refresh_tokens[t]
              \/ /\ refresh_tokens[t] # NoRow
                 /\ refresh_tokens[t].family # job[q].family
    BY <1>1, UserRowsUnread DEF LoginFailsAfterSweep
  <1> QED
    BY <1>1, <1>2, EndStep DEF LoginFailsAfterSweep

\* Revoking all the rows of a user, once their families are free.
LEMMA RevokeAllFacts ==
    ASSUME IInv, NEW u, UserLockFree(u), refresh_tokens' = RevokeAllOf(u)
    PROVE  /\ refresh_tokens' \in Table
           /\ \A t \in Tokens :
                 /\ (refresh_tokens'[t] = NoRow) <=> (refresh_tokens[t] = NoRow)
                 /\ refresh_tokens[t] # NoRow =>
                       refresh_tokens'[t].family = refresh_tokens[t].family
           /\ \A q \in Procs, t \in Tokens :
                 phase[q] = "rotate_locked" =>
                    \/ refresh_tokens'[t] = refresh_tokens[t]
                    \/ /\ refresh_tokens[t] # NoRow
                       /\ refresh_tokens[t].family # job[q].family
  <1> DEFINE S == {t \in Tokens : Unrevoked(refresh_tokens, t) /\ refresh_tokens[t].user = u}
  <1>1. refresh_tokens' = Revoke(S) /\ TypeOK
    BY DEF RevokeAllOf, IInv
  <1>2. \A t \in S : refresh_tokens[t] # NoRow /\ refresh_tokens[t].user = u
    BY DEF Unrevoked
  <1> HIDE DEF S
  <1>3. /\ Revoke(S) \in Table
        /\ \A t \in Tokens :
              /\ (Revoke(S)[t] = NoRow) <=> (refresh_tokens[t] = NoRow)
              /\ t \notin S => Revoke(S)[t] = refresh_tokens[t]
              /\ refresh_tokens[t] # NoRow =>
                    Revoke(S)[t].family = refresh_tokens[t].family
    BY <1>1, RevokeFacts
  <1>4. ASSUME NEW q \in Procs, NEW t \in Tokens, phase[q] = "rotate_locked", t \in S
        PROVE  refresh_tokens[t] # NoRow /\ refresh_tokens[t].family # job[q].family
    BY <1>2, <1>4, UserRowsUnread
  <1> QED
    BY <1>1, <1>3, <1>4

LEMMA DisableUserRevokeStep ==
    ASSUME IInv, NEW p \in Procs, DisableUserRevoke(p)
    PROVE  IInv'
  BY RevokeAllFacts, EndStep DEF DisableUserRevoke

\* A step of no request, which revokes rows that no locked rotation has read.
LEMMA RevokingStep ==
    ASSUME IInv, UNCHANGED <<now, grace, login_disabled, next_id, requestVars, origin>>,
           refresh_tokens' \in Table,
           \A t \in Tokens :
              /\ (refresh_tokens'[t] = NoRow) <=> (refresh_tokens[t] = NoRow)
              /\ refresh_tokens[t] # NoRow =>
                    refresh_tokens'[t].family = refresh_tokens[t].family,
           \A q \in Procs, t \in Tokens :
              phase[q] = "rotate_locked" =>
                 \/ refresh_tokens'[t] = refresh_tokens[t]
                 \/ /\ refresh_tokens[t] # NoRow
                    /\ refresh_tokens[t].family # job[q].family
    PROVE  IInv'
  <1>1. TypeOK' /\ RequestsOK' /\ IdsFresh'
    BY DEF IInv, TypeOK, RequestsOK, IdsFresh, requestVars
  <1>2. Minting' = Minting
    BY DEF Minting, requestVars
  <1>3. RoomKept'
    BY <1>2 DEF IInv, RoomKept
  <1>4. ASSUME NEW q \in Procs, phase'[q] = "rotate_locked"
        PROVE  /\ lock'[job'[q].family] = q
               /\ seen'[q] = FamilyTable(refresh_tokens', job'[q].family)
    <2>1. phase[q] = "rotate_locked" /\ job'[q] = job[q] /\ seen'[q] = seen[q] /\ lock' = lock
      BY <1>4 DEF requestVars
    <2>2. FamilyTable(refresh_tokens', job[q].family)
             = FamilyTable(refresh_tokens, job[q].family)
      BY <2>1, FamilyTableAgrees
    <2> QED
      BY <2>1, <2>2 DEF IInv, LockedReadIsCurrent
  <1> QED
    BY <1>1, <1>3, <1>4 DEF IInv, LockedReadIsCurrent

LEMMA LogoutStep ==
    ASSUME IInv, NEW s \in Tokens, Logout(s)
    PROVE  IInv'
  <1> DEFINE S == {t \in Tokens : /\ Unrevoked(refresh_tokens, t)
                                  /\ refresh_tokens[t].family = refresh_tokens[s].family}
  <1>1. refresh_tokens' = Revoke(S) /\ TypeOK
    BY DEF Logout, RevokeFamilyLocked, IInv
  <1>2. /\ refresh_tokens' \in Table
        /\ \A t \in Tokens :
              /\ (refresh_tokens'[t] = NoRow) <=> (refresh_tokens[t] = NoRow)
              /\ t \notin S => refresh_tokens'[t] = refresh_tokens[t]
              /\ refresh_tokens[t] # NoRow =>
                    refresh_tokens'[t].family = refresh_tokens[t].family
    BY <1>1, RevokeFacts
  <1>3. \A q \in Procs :
           phase[q] = "rotate_locked" => job[q].family # refresh_tokens[s].family
    BY NoProcAssumption DEF Logout, LockFree, IInv, LockedReadIsCurrent
  <1>4. \A t \in S : refresh_tokens[t] # NoRow
                     /\ refresh_tokens[t].family = refresh_tokens[s].family
    BY DEF Unrevoked
  <1> HIDE DEF S
  <1>5. \A q \in Procs, t \in Tokens :
           phase[q] = "rotate_locked" =>
              \/ refresh_tokens'[t] = refresh_tokens[t]
              \/ /\ refresh_tokens[t] # NoRow
                 /\ refresh_tokens[t].family # job[q].family
    BY <1>2, <1>3, <1>4
  <1> QED
    BY <1>2, <1>5, RevokingStep DEF Logout

LEMMA RevokeAllForUserStep ==
    ASSUME IInv, NEW u \in Users, RevokeAllForUser(u)
    PROVE  IInv'
  BY RevokeAllFacts, RevokingStep DEF RevokeAllForUser

\* A request that begins as a sign-in or as a revocation: it has read nothing of
\* the table.
LEMMA BeginStep ==
    ASSUME IInv, NEW p \in Procs, NEW u \in Users, NEW a \in BOOLEAN,
           NEW ph \in {"login", "revoke_all"}, phase[p] = "idle",
           ph \in MintingPhases => RoomForRow,
           Start(p, ph, UserJob(u, a)),
           login_disabled' \in [Users -> BOOLEAN],
           UNCHANGED <<now, grace, refresh_tokens, next_id, lock, seen, origin>>
    PROVE  IInv'
  <1>1. UserJob(u, a) \in Job
    BY DEF UserJob, Job
  <1>2. TypeOK'
    BY <1>1 DEF IInv, TypeOK, Start, Phases
  <1>3. RequestsOK'
    BY <1>1 DEF IInv, TypeOK, Start, RequestsOK
  <1>4. RoomKept'
    <2>1. TypeOK
      BY DEF IInv
    <2>2. /\ Cardinality(Minting') \in Nat
          /\ Cardinality(Minting') <= Cardinality(Minting) + 1
          /\ ph \notin MintingPhases => Cardinality(Minting') <= Cardinality(Minting)
      BY <2>1, MintingChanges DEF Start
    <2> QED
      BY <2>2, MintingFinite, BoundsAssumption DEF IInv, RoomKept, RoomForRow, TypeOK
  <1>5. IdsFresh' /\ LockedReadIsCurrent'
    BY DEF IInv, TypeOK, Start, IdsFresh, LockedReadIsCurrent
  <1> QED
    BY <1>2, <1>3, <1>4, <1>5 DEF IInv

LEMMA DisableUserStep ==
    ASSUME IInv, NEW p \in Procs, NEW u \in Users, DisableUser(p, u)
    PROVE  IInv'
  <1>1. login_disabled' \in [Users -> BOOLEAN]
    BY DEF DisableUser, IInv, TypeOK
  <1>2. "revoke_all" \notin MintingPhases
    BY DEF MintingPhases
  <1> QED
    BY <1>1, <1>2, BeginStep DEF DisableUser

LEMMA LoginReadStep ==
    ASSUME IInv, NEW p \in Procs, NEW u \in Users, LoginRead(p, u)
    PROVE  IInv'
  <1>1. login_disabled' \in [Users -> BOOLEAN]
    BY DEF LoginRead, IInv, TypeOK, dbVars
  <1> QED
    BY <1>1, BeginStep DEF LoginRead, dbVars

\* Steps that change neither the table nor a request.
LEMMA OtherSteps ==
    ASSUME IInv, (\E u \in Users : EnableUser(u)) \/ Tick \/ UNCHANGED vars
    PROVE  IInv'
  <1>1. UNCHANGED <<grace, refresh_tokens, next_id, requestVars, origin>>
    BY DEF EnableUser, Tick, vars, dbVars
  <1>2. now' \in Instant /\ login_disabled' \in [Users -> BOOLEAN]
    <2>1. CASE \E u \in Users : EnableUser(u)
      BY <2>1 DEF IInv, TypeOK, EnableUser
    <2>2. CASE Tick
      BY <2>2, BoundsAssumption DEF IInv, TypeOK, Tick, dbVars, Instant
    <2>3. CASE UNCHANGED vars
      BY <2>3 DEF IInv, TypeOK, vars, dbVars
    <2> QED
      BY <2>1, <2>2, <2>3
  <1>3. TypeOK' /\ RequestsOK' /\ IdsFresh' /\ LockedReadIsCurrent'
    BY <1>1, <1>2
       DEF IInv, TypeOK, RequestsOK, IdsFresh, LockedReadIsCurrent, requestVars
  <1>4. Minting' = Minting
    BY <1>1 DEF Minting, requestVars
  <1>5. RoomKept'
    BY <1>1, <1>4 DEF IInv, RoomKept
  <1> QED
    BY <1>3, <1>5 DEF IInv

LEMMA NextIInv == IInv /\ [Next]_vars => IInv'
  <1> SUFFICES ASSUME IInv, [Next]_vars PROVE IInv'
    OBVIOUS
  <1>1. ASSUME NEW p \in Procs, NEW t \in Tokens, RotateLookup(p, t) PROVE IInv'
    BY <1>1, RotateLookupStep
  <1>2. ASSUME NEW p \in Procs, NEW u \in Users, DisableUser(p, u) PROVE IInv'
    BY <1>2, DisableUserStep
  <1>3. ASSUME NEW p \in Procs, NEW u \in Users, LoginRead(p, u) PROVE IInv'
    BY <1>3, LoginReadStep
  <1>4. ASSUME NEW p \in Procs, LockFamily(p) PROVE IInv'
    BY <1>4, LockFamilyStep
  <1>5. ASSUME NEW p \in Procs, RotateCommit(p) PROVE IInv'
    BY <1>5, RowMissingStep, TheftStep, ExpiredStep, InactiveStep, RenewStep
       DEF RotateCommit
  <1>6. ASSUME NEW p \in Procs, DisableUserRevoke(p) PROVE IInv'
    BY <1>6, DisableUserRevokeStep
  <1>7. ASSUME NEW p \in Procs, LoginCommit(p) \/ LoginFailsAfterSweep(p) PROVE IInv'
    BY <1>7, LoginStep, LoginFailsStep
  <1>8. ASSUME NEW p \in Procs, Abort(p) PROVE IInv'
    BY <1>8, AbortStep
  <1>9. ASSUME NEW t \in Tokens, Logout(t) PROVE IInv'
    BY <1>9, LogoutStep
  <1>10. ASSUME NEW u \in Users, RevokeAllForUser(u) PROVE IInv'
    BY <1>10, RevokeAllForUserStep
  <1>11. ASSUME (\E u \in Users : EnableUser(u)) \/ Tick \/ UNCHANGED vars PROVE IInv'
    BY <1>11, OtherSteps
  <1> QED
    BY <1>1, <1>2, <1>3, <1>4, <1>5, <1>6, <1>7, <1>8, <1>9, <1>10, <1>11
       DEF Next, Progress

----------------------------------------------------------------------------
(* Theorems *)

\* The inductive invariant holds throughout.
LEMMA Inductive == Spec => []IInv
  BY InitIInv, NextIInv, PTL DEF Spec

\* The state has its types throughout, and no request runs out of row ids.
THEOREM TypeCorrect == Spec => []TypeOK
  <1>1. IInv => TypeOK
    BY DEF IInv
  <1> QED
    BY <1>1, Inductive, PTL

\* What a rotation read under the family lock stays the truth until it commits,
\* whatever logouts, revocations, sweeps and other rotations run meanwhile.
THEOREM LockedReadsAreCurrent == Spec => []LockedReadIsCurrent
  <1>1. IInv => LockedReadIsCurrent
    BY DEF IInv
  <1> QED
    BY <1>1, Inductive, PTL

----------------------------------------------------------------------------
(* Nothing is revived, nothing is spent twice *)

\* The only row a step may add, or leave unrevoked that was not, is the one a
\* renewal or a login inserts.
LEMMA NothingRevived ==
    ASSUME IInv, [Next]_vars, NEW t \in Tokens, Unrevoked(refresh_tokens', t),
           ~(t = next_id /\ \E p \in Procs : RotateRenew(p) \/ LoginCommit(p))
    PROVE  /\ Unrevoked(refresh_tokens, t)
           /\ refresh_tokens'[t].family = refresh_tokens[t].family
  <1> DEFINE Kept == /\ Unrevoked(refresh_tokens, t)
                     /\ refresh_tokens'[t].family = refresh_tokens[t].family
  <1>1. TypeOK
    BY DEF IInv
  <1>2. ASSUME NEW S, refresh_tokens' = Revoke(S) PROVE Kept
    BY <1>1, <1>2, RevokeFacts DEF Unrevoked
  <1>3. ASSUME NEW u, refresh_tokens' = Swept(u) PROVE Kept
    BY <1>1, <1>3, SweptFacts DEF Unrevoked
  <1>4. ASSUME refresh_tokens' = refresh_tokens PROVE Kept
    BY <1>4 DEF Unrevoked
  <1>5. ASSUME NEW p \in Procs, RotateRenew(p) PROVE Kept
    <2>1. refresh_tokens' = [Revoke(SpentBy(p)) EXCEPT
                                ![next_id] = IssuedRow(job[p].user, job[p].family)]
      BY <1>5 DEF RotateRenew, RenewedTable
    <2>2. refresh_tokens'[t] = Revoke(SpentBy(p))[t]
      BY <1>1, <1>5, <2>1, RevokeFacts DEF Table
    <2>3. Unrevoked(Revoke(SpentBy(p)), t)
      BY <2>2 DEF Unrevoked
    <2> QED
      BY <1>1, <2>2, <2>3, RevokeFacts DEF Unrevoked
  <1>6. ASSUME NEW p \in Procs, LoginCommit(p) PROVE Kept
    <2>1. refresh_tokens' = [Swept(job[p].user) EXCEPT
                                ![next_id] = IssuedRow(job[p].user, next_id)]
      BY <1>6 DEF LoginCommit
    <2>2. refresh_tokens'[t] = Swept(job[p].user)[t]
      BY <1>1, <1>6, <2>1, SweptFacts DEF Table
    <2>3. Swept(job[p].user)[t] \in {refresh_tokens[t], NoRow}
      BY <1>1, SweptFacts
    <2> QED
      BY <2>2, <2>3 DEF Unrevoked
  <1> HIDE DEF Kept
  <1>7. ASSUME NEW p \in Procs, RotateCommit(p) PROVE Kept
    BY <1>7, <1>2, <1>4, <1>5
       DEF RotateCommit, RotateRowMissing, RotateTheft, RotateExpired, RotateInactive,
           RevokeFamilyLocked, dbVars
  <1>8. ASSUME NEW p \in Procs, Progress(p) \/ LoginFailsAfterSweep(p) \/ Abort(p)
        PROVE  Kept
    BY <1>8, <1>2, <1>3, <1>4, <1>6, <1>7
       DEF Progress, LockFamily, DisableUserRevoke, LoginFailsAfterSweep, Abort,
           RevokeAllOf, dbVars
  <1>9. ASSUME NEW s \in Tokens, Logout(s) PROVE Kept
    BY <1>9, <1>2 DEF Logout, RevokeFamilyLocked
  <1>10. ASSUME NEW u \in Users, RevokeAllForUser(u) PROVE Kept
    BY <1>10, <1>2 DEF RevokeAllForUser, RevokeAllOf
  <1>11. ASSUME \/ \E p \in Procs : \/ \E s \in Tokens : RotateLookup(p, s)
                                    \/ \E u \in Users : DisableUser(p, u) \/ LoginRead(p, u)
                \/ \E u \in Users : EnableUser(u)
                \/ Tick
                \/ UNCHANGED vars
         PROVE  Kept
    BY <1>11, <1>4
       DEF RotateLookup, DisableUser, LoginRead, EnableUser, Tick, vars, dbVars
  <1>12. Kept
    BY <1>8, <1>9, <1>10, <1>11 DEF Next
  <1> QED
    BY <1>12 DEF Kept

\* A rotation that renews has found an unrevoked row in the family it renews.
LEMMA RenewalSawUnrevoked ==
    ASSUME IInv, NEW p \in Procs, RotateRenew(p)
    PROVE  FamilyUnrevoked(job[p].family)
  <1>1. /\ job[p].token \in Tokens
        /\ \A t \in Tokens : seen[p][t] # NoRow =>
              seen[p][t] = refresh_tokens[t] /\ refresh_tokens[t].family = job[p].family
    BY LockedRotation DEF RotateRenew
  <1>2. CASE PresentedRow(p).revoked_at = NULL
    BY <1>1, <1>2 DEF RotateRenew, PresentedRow, FamilyUnrevoked, Unrevoked
  <1>3. CASE PresentedRow(p).revoked_at # NULL
    <2>1. PICK t \in Tokens : Unrevoked(seen[p], t)
      BY <1>3 DEF RotateRenew, PassesReuseTest, IsBenignRotationRace, Usable
    <2> QED
      BY <1>1, <2>1 DEF FamilyUnrevoked, Unrevoked
  <1> QED
    BY <1>2, <1>3

\* A row that a step adds carries the family its request names.
LEMMA AddedFamily ==
    ASSUME IInv, NEW p \in Procs
    PROVE  /\ RotateRenew(p) =>
                 next_id \in Tokens /\ refresh_tokens'[next_id].family = job[p].family
           /\ LoginCommit(p) =>
                 next_id \in Tokens /\ refresh_tokens'[next_id].family = next_id
  <1>1. TypeOK
    BY DEF IInv
  <1>2. ASSUME RotateRenew(p)
        PROVE  next_id \in Tokens /\ refresh_tokens'[next_id].family = job[p].family
    <2>1. next_id \in Tokens
      BY <1>1, <1>2, RoomForMinting DEF IInv, RotateRenew, MintingPhases
    <2>2. Revoke(SpentBy(p)) \in Table
      BY <1>1, RevokeFacts
    <2>3. refresh_tokens'[next_id] = IssuedRow(job[p].user, job[p].family)
      BY <1>2, <2>1, <2>2 DEF RotateRenew, RenewedTable, Table
    <2> QED
      BY <2>1, <2>3 DEF IssuedRow
  <1>3. ASSUME LoginCommit(p)
        PROVE  next_id \in Tokens /\ refresh_tokens'[next_id].family = next_id
    <2>1. next_id \in Tokens
      BY <1>1, <1>3, RoomForMinting DEF IInv, LoginCommit, MintingPhases
    <2>2. Swept(job[p].user) \in Table
      BY <1>1, SweptFacts
    <2>3. refresh_tokens'[next_id] = IssuedRow(job[p].user, next_id)
      BY <1>3, <2>1, <2>2 DEF LoginCommit, Table
    <2> QED
      BY <2>1, <2>3 DEF IssuedRow
  <1> QED
    BY <1>2, <1>3

LEMMA DeadStaysDead ==
    ASSUME IInv, [Next]_vars, NEW f \in Tokens, Opened(f), ~FamilyUnrevoked(f)
    PROVE  ~FamilyUnrevoked(f)'
  <1> SUFFICES ASSUME NEW t \in Tokens, Unrevoked(refresh_tokens', t),
                      refresh_tokens'[t].family = f
               PROVE  FALSE
    BY DEF FamilyUnrevoked, Unrevoked
  <1>1. CASE t = next_id /\ \E p \in Procs : RotateRenew(p)
    <2>1. PICK p \in Procs : RotateRenew(p)
      BY <1>1
    <2>2. job[p].family = f
      BY <1>1, <2>1, AddedFamily
    <2> QED
      BY <2>1, <2>2, RenewalSawUnrevoked
  <1>2. CASE t = next_id /\ \E p \in Procs : LoginCommit(p)
    <2>1. f = next_id
      BY <1>2, AddedFamily
    <2>2. origin[f] = NoOrigin
      BY <2>1 DEF IInv, IdsFresh, Tokens
    <2> QED
      BY <2>2 DEF Opened, NoOrigin
  <1>3. CASE ~(t = next_id /\ \E p \in Procs : RotateRenew(p) \/ LoginCommit(p))
    BY <1>3, NothingRevived DEF FamilyUnrevoked
  <1> QED
    BY <1>1, <1>2, <1>3

\* A session that has ended stays ended: no request in flight when its last row
\* was revoked or swept, and none that comes later, gives it a usable row again.
THEOREM EndedSessionsStayEnded == Spec => DeadFamilyStaysDead
  <1>1. IInv /\ [Next]_vars =>
           [\A f \in Tokens :
               Opened(f) /\ ~FamilyUnrevoked(f) => ~FamilyUnrevoked(f)']_vars
    BY DeadStaysDead
  <1> QED
    BY <1>1, Inductive, PTL DEF Spec, DeadFamilyStaysDead

\* A token that a renewal spent is an old one, and is not unrevoked any more.
SpentStaySpent ==
    \A s \in Tokens :
        origin[s].kind = "rotated" =>
            /\ origin[s].parent \in Tokens
            /\ origin[s].parent < next_id
            /\ ~Unrevoked(refresh_tokens, origin[s].parent)

\* Only the row just inserted gets a history, and a renewal names in it the
\* token it found unspent in the table.
LEMMA NewHistory ==
    ASSUME IInv, [Next]_vars
    PROVE  /\ next_id' \in Int /\ next_id' >= next_id
           /\ \A s \in Tokens : origin'[s] # origin[s] =>
                 /\ s = next_id
                 /\ next_id' = next_id + 1
                 /\ origin'[s].kind = "rotated" =>
                       \E p \in Procs :
                          /\ RotateRenew(p)
                          /\ origin'[s].parent = job[p].token
                          /\ PresentedRow(p).revoked_at = NULL
  <1>1. TypeOK /\ next_id \in Int
    BY DEF IInv, TypeOK
  <1>2. CASE \E p \in Procs : RotateRenew(p)
    <2>1. PICK p \in Procs : RotateRenew(p)
      BY <1>2
    <2>2. /\ next_id' = next_id + 1
          /\ next_id \in Tokens
      BY <2>1, AddedFamily DEF RotateRenew
    <2>3. /\ \A s \in Tokens : s # next_id => origin'[s] = origin[s]
          /\ origin'[next_id].parent = job[p].token
          /\ origin'[next_id].kind = "rotated" => PresentedRow(p).revoked_at = NULL
      BY <1>1, <2>1, <2>2 DEF RotateRenew, TypeOK
    <2> QED
      BY <1>1, <2>1, <2>2, <2>3
  <1>3. CASE \E p \in Procs : LoginCommit(p)
    <2>1. PICK p \in Procs : LoginCommit(p)
      BY <1>3
    <2>2. /\ next_id' = next_id + 1
          /\ next_id \in Tokens
      BY <2>1, AddedFamily DEF LoginCommit
    <2>3. /\ \A s \in Tokens : s # next_id => origin'[s] = origin[s]
          /\ origin'[next_id].kind = "login"
      BY <1>1, <2>1, <2>2 DEF LoginCommit, TypeOK
    <2> QED
      BY <1>1, <2>2, <2>3
  <1>4. CASE ~\E p \in Procs : RotateRenew(p) \/ LoginCommit(p)
    <2>1. UNCHANGED <<next_id, origin>>
      BY <1>4 DEF Next, Progress, RotateCommit, RotateRowMissing, RotateTheft,
         RotateExpired, RotateInactive, LockFamily, DisableUserRevoke,
         LoginFailsAfterSweep, Abort, Logout, RevokeAllForUser, RotateLookup,
         DisableUser, LoginRead, EnableUser, Tick, vars, dbVars
    <2> QED
      BY <1>1, <2>1
  <1> QED
    BY <1>2, <1>3, <1>4

\* The token a renewal spends: unrevoked before it, revoked after it.
LEMMA RenewalSpends ==
    ASSUME IInv, NEW p \in Procs, RotateRenew(p), PresentedRow(p).revoked_at = NULL
    PROVE  /\ job[p].token \in Tokens
           /\ job[p].token < next_id
           /\ Unrevoked(refresh_tokens, job[p].token)
           /\ ~Unrevoked(refresh_tokens', job[p].token)
  <1>1. TypeOK /\ job[p].token \in Tokens /\ job[p].token < next_id /\ next_id \in Tokens
    BY AddedFamily DEF IInv, RequestsOK, RotateRenew
  <1>2. Unrevoked(refresh_tokens, job[p].token)
    BY LockedRotation DEF RotateRenew, PresentedRow, Unrevoked
  <1>3. job[p].token \in SpentBy(p)
    BY DEF SpentBy
  <1>4. refresh_tokens'[job[p].token] = Revoke(SpentBy(p))[job[p].token]
    BY <1>1, RevokeFacts DEF RotateRenew, RenewedTable, Table, Tokens
  <1>5. ~Unrevoked(Revoke(SpentBy(p)), job[p].token)
    BY <1>1, <1>3, RevokeFacts
  <1> QED
    BY <1>1, <1>2, <1>4, <1>5 DEF Unrevoked

LEMMA SingleUseStep ==
    ASSUME IInv, [Next]_vars, SpentStaySpent, SingleUse
    PROVE  SpentStaySpent' /\ SingleUse'
  <1>1. next_id \in Int /\ next_id' \in Int /\ next_id' >= next_id
    BY NewHistory DEF IInv, TypeOK
  <1>2. ASSUME NEW s \in Tokens, origin'[s].kind = "rotated", origin'[s] # origin[s]
        PROVE  /\ s = next_id
               /\ origin'[s].parent \in Tokens
               /\ origin'[s].parent < next_id
               /\ Unrevoked(refresh_tokens, origin'[s].parent)
               /\ ~Unrevoked(refresh_tokens', origin'[s].parent)
    BY <1>2, NewHistory, RenewalSpends
  <1>3. ASSUME NEW s \in Tokens, origin'[s].kind = "rotated", origin'[s] = origin[s]
        PROVE  /\ origin'[s].parent \in Tokens
               /\ origin'[s].parent < next_id
               /\ ~Unrevoked(refresh_tokens, origin'[s].parent)
               /\ ~Unrevoked(refresh_tokens', origin'[s].parent)
    <2>1. /\ origin'[s].parent \in Tokens
          /\ origin'[s].parent < next_id
          /\ ~Unrevoked(refresh_tokens, origin'[s].parent)
      BY <1>3 DEF SpentStaySpent
    <2>2. origin'[s].parent # next_id
      BY <1>1, <2>1 DEF Tokens
    <2> QED
      BY <2>1, <2>2, NothingRevived
  <1>4. SpentStaySpent'
    BY <1>1, <1>2, <1>3 DEF SpentStaySpent, Tokens
  <1>5. ASSUME NEW s \in Tokens, NEW t \in Tokens,
               origin'[s].kind = "rotated", origin'[t].kind = "rotated",
               origin'[s].parent = origin'[t].parent
        PROVE  s = t
    <2>1. CASE origin'[s] # origin[s] /\ origin'[t] # origin[t]
      BY <1>2, <1>5, <2>1
    <2>2. CASE origin'[s] = origin[s] /\ origin'[t] = origin[t]
      BY <1>5, <2>2 DEF SingleUse
    <2>3. CASE (origin'[s] = origin[s]) # (origin'[t] = origin[t])
      BY <1>2, <1>3, <1>5, <2>3
    <2> QED
      BY <2>1, <2>2, <2>3
  <1> QED
    BY <1>4, <1>5 DEF SingleUse

\* However many requests present a refresh token at once, at most one of them
\* spends it.
THEOREM TokensAreSingleUse == Spec => []SingleUse
  <1>1. Init => SpentStaySpent /\ SingleUse
    BY DEF Init, SpentStaySpent, SingleUse, NoOrigin
  <1>2. IInv /\ [Next]_vars /\ (SpentStaySpent /\ SingleUse)
           => (SpentStaySpent /\ SingleUse)'
    BY SingleUseStep
  <1> QED
    BY <1>1, <1>2, Inductive, PTL DEF Spec

----------------------------------------------------------------------------
(***************************************************************************)
(* What a refresh-token family is to its user, for any users, requests,    *)
(* rows, instants and settings: a session that ends only for a cause, and  *)
(* in which two tabs may race and a thief may not.                         *)
(*                                                                         *)
(* The argument.  Every step does one of seven things to the table         *)
(* (TableStep).  Its rows keep the owner and the family they were issued   *)
(* for and expire a lifetime after their issue (RowsOK); a revoked row was *)
(* spent by the renewal its timestamp names, unless it has expired or its  *)
(* family has ended (RevokedForCause); and a family that has not ended has *)
(* an unrevoked row no older than any row of it that has not expired       *)
(* (Succeeded).                                                            *)
(***************************************************************************)

(* What a step does to the table *)

Family(t) == refresh_tokens[t].family

\* Nothing but time.
Quiet ==
    /\ UNCHANGED <<refresh_tokens, origin, next_id>>
    /\ now' \in Instant /\ now' >= now

\* An update that revokes the rows in S, or a sweep of the expired rows of u.
Revoking(S) == refresh_tokens' = Revoke(S) /\ UNCHANGED <<now, origin, next_id>>
Sweeping(u) == refresh_tokens' = Swept(u) /\ UNCHANGED <<now, origin, next_id>>

UnrevokedOf(f) == {t \in Tokens : Unrevoked(refresh_tokens, t) /\ Family(t) = f}
UnrevokedOfUser(u) == {t \in Tokens : Unrevoked(refresh_tokens, t) /\ refresh_tokens[t].user = u}

\* What the end of a family, of the sessions of a user or of a token writes.
LEMMA TableStep ==
    ASSUME IInv, [Next]_vars
    PROVE  \/ Quiet
           \/ \E p \in Procs : /\ RotateTheft(p) \/ RotateInactive(p)
                               /\ Revoking(UnrevokedOf(job[p].family))
           \/ \E t \in Tokens : /\ Logout(t) /\ refresh_tokens[t] # NoRow
                                /\ Revoking(UnrevokedOf(Family(t)))
           \/ \E u \in Users : /\ \/ RevokeAllForUser(u)
                                  \/ \E p \in Procs : DisableUserRevoke(p) /\ job[p].user = u
                               /\ Revoking(UnrevokedOfUser(u))
           \/ \E p \in Procs : RotateExpired(p) /\ Revoking({job[p].token})
           \/ \E u \in Users : Sweeping(u)
           \/ \E p \in Procs : LoginCommit(p) \/ RotateRenew(p)
  <1>1. TypeOK /\ now \in Instant
    BY DEF IInv, TypeOK
  <1>2. CASE Tick
    BY <1>1, <1>2, BoundsAssumption DEF Tick, Quiet, dbVars, Instant
  <1>3. CASE UNCHANGED vars
    BY <1>1, <1>3 DEF vars, dbVars, Quiet, Instant
  <1>4. ASSUME NEW p \in Procs, DisableUserRevoke(p)
        PROVE  job[p].user \in Users /\ Revoking(UnrevokedOfUser(job[p].user))
    <2>1. job[p].user \in Users
      BY <1>4 DEF DisableUserRevoke, IInv, RequestsOK, Job
    <2> QED
      BY <1>4, <2>1 DEF DisableUserRevoke, Revoking, RevokeAllOf, UnrevokedOfUser
  <1>5. ASSUME NEW p \in Procs, LoginFailsAfterSweep(p) PROVE \E u \in Users : Sweeping(u)
    <2>1. job[p].user \in Users
      BY <1>5 DEF LoginFailsAfterSweep, IInv, RequestsOK, Job
    <2> QED
      BY <1>5, <2>1 DEF LoginFailsAfterSweep, Sweeping
  <1>6. ASSUME NEW p \in Procs, RotateTheft(p) \/ RotateInactive(p)
        PROVE  Revoking(UnrevokedOf(job[p].family))
    BY <1>6 DEF RotateTheft, RotateInactive, Revoking, RevokeFamilyLocked, UnrevokedOf, Family
  <1>7. ASSUME NEW p \in Procs, RotateExpired(p) PROVE Revoking({job[p].token})
    BY <1>7 DEF RotateExpired, Revoking
  <1>8. ASSUME NEW t \in Tokens, Logout(t)
        PROVE  refresh_tokens[t] # NoRow /\ Revoking(UnrevokedOf(Family(t)))
    BY <1>8 DEF Logout, Revoking, RevokeFamilyLocked, UnrevokedOf, Family
  <1>9. ASSUME NEW u \in Users, RevokeAllForUser(u) PROVE Revoking(UnrevokedOfUser(u))
    BY <1>9 DEF RevokeAllForUser, Revoking, RevokeAllOf, UnrevokedOfUser
  <1>10. ASSUME NEW p \in Procs,
                \/ \E t \in Tokens : RotateLookup(p, t)
                \/ \E u \in Users : DisableUser(p, u) \/ LoginRead(p, u)
                \/ LockFamily(p) \/ RotateRowMissing(p) \/ Abort(p)
         PROVE  Quiet
    <2>1. UNCHANGED <<now, refresh_tokens, origin, next_id>>
      BY <1>10 DEF RotateLookup, DisableUser, LoginRead, LockFamily, RotateRowMissing,
         Abort, dbVars
    <2> QED
      BY <1>1, <2>1 DEF Quiet, Instant
  <1>11. ASSUME NEW u \in Users, EnableUser(u) PROVE Quiet
    BY <1>1, <1>11 DEF EnableUser, Quiet, Instant
  <1> QED
    BY <1>2, <1>3, <1>4, <1>5, <1>6, <1>7, <1>8, <1>9, <1>10, <1>11
       DEF Next, Progress, RotateCommit

\* A row revoked is stamped now and otherwise as it was.
LEMMA RevokedRow ==
    ASSUME TypeOK, NEW S, NEW t \in Tokens, refresh_tokens[t] # NoRow
    PROVE  Revoke(S)[t].revoked_at =
               IF t \in S THEN StoredTime(now) ELSE refresh_tokens[t].revoked_at
  <1>1. refresh_tokens[t] \in Row
    BY DEF TypeOK, Table
  <1> QED
    BY <1>1 DEF Revoke, Row

\* A renewal, field by field.
LEMMA RenewEffect ==
    ASSUME IInv, NEW p \in Procs, RotateRenew(p)
    PROVE  /\ next_id \in Tokens /\ refresh_tokens[next_id] = NoRow /\ origin[next_id] = NoOrigin
           /\ next_id' = next_id + 1 /\ now' = now
           /\ refresh_tokens'[next_id] = IssuedRow(job[p].user, job[p].family)
           /\ origin'[next_id] = [kind |-> IF PresentedRow(p).revoked_at = NULL
                                           THEN "rotated" ELSE "race",
                                  parent |-> job[p].token, user |-> job[p].user, at |-> now]
           /\ \A t \in Tokens \ {next_id} :
                 refresh_tokens'[t] = Revoke(SpentBy(p))[t] /\ origin'[t] = origin[t]
  <1>1. TypeOK /\ next_id \in Tokens
    BY AddedFamily DEF IInv
  <1>2. refresh_tokens[next_id] = NoRow /\ origin[next_id] = NoOrigin
    BY <1>1 DEF IInv, IdsFresh, Tokens
  <1>3. Revoke(SpentBy(p)) \in Table
    BY <1>1, RevokeFacts
  <1> QED
    BY <1>1, <1>2, <1>3 DEF RotateRenew, RenewedTable, Table, TypeOK

\* A login, field by field.
LEMMA LoginEffect ==
    ASSUME IInv, NEW p \in Procs, LoginCommit(p)
    PROVE  /\ next_id \in Tokens /\ refresh_tokens[next_id] = NoRow /\ origin[next_id] = NoOrigin
           /\ next_id' = next_id + 1 /\ now' = now /\ job[p].user \in Users
           /\ refresh_tokens'[next_id] = IssuedRow(job[p].user, next_id)
           /\ origin'[next_id] = [kind |-> "login", parent |-> NULL, user |-> job[p].user,
                                  at |-> now]
           /\ \A t \in Tokens \ {next_id} :
                 refresh_tokens'[t] = Swept(job[p].user)[t] /\ origin'[t] = origin[t]
  <1>1. TypeOK /\ next_id \in Tokens
    BY AddedFamily DEF IInv
  <1>2. refresh_tokens[next_id] = NoRow /\ origin[next_id] = NoOrigin
    BY <1>1 DEF IInv, IdsFresh, Tokens
  <1>3. Swept(job[p].user) \in Table
    BY <1>1, SweptFacts
  <1>4. job[p].user \in Users
    BY DEF LoginCommit, IInv, RequestsOK, Job
  <1> QED
    BY <1>1, <1>2, <1>3, <1>4 DEF LoginCommit, Table, TypeOK

\* Every row of the table after a step: one that was there, with its family, its owner
\* and its expiry, or the row just issued.
LEMMA RowsStay ==
    ASSUME IInv, [Next]_vars, NEW t \in Tokens, refresh_tokens'[t] # NoRow
    PROVE  \/ /\ refresh_tokens[t] # NoRow /\ origin'[t] = origin[t]
              /\ refresh_tokens'[t].family = refresh_tokens[t].family
              /\ refresh_tokens'[t].user = refresh_tokens[t].user
              /\ refresh_tokens'[t].expires_at = refresh_tokens[t].expires_at
           \/ t = next_id /\ \E p \in Procs : LoginCommit(p) \/ RotateRenew(p)
  <1>1. TypeOK
    BY DEF IInv
  <1>2. CASE Quiet
    BY <1>2 DEF Quiet
  <1>3. ASSUME NEW S, Revoking(S)
        PROVE  /\ refresh_tokens[t] # NoRow /\ origin'[t] = origin[t]
               /\ refresh_tokens'[t].family = refresh_tokens[t].family
               /\ refresh_tokens'[t].user = refresh_tokens[t].user
               /\ refresh_tokens'[t].expires_at = refresh_tokens[t].expires_at
    BY <1>1, <1>3, RevokeFacts DEF Revoking
  <1>4. ASSUME NEW u, Sweeping(u)
        PROVE  refresh_tokens[t] # NoRow /\ origin'[t] = origin[t] /\ refresh_tokens'[t] = refresh_tokens[t]
    BY <1>1, <1>4, SweptFacts DEF Sweeping
  <1>5. ASSUME NEW p \in Procs, RotateRenew(p), t # next_id
        PROVE  /\ refresh_tokens[t] # NoRow /\ origin'[t] = origin[t]
               /\ refresh_tokens'[t].family = refresh_tokens[t].family
               /\ refresh_tokens'[t].user = refresh_tokens[t].user
               /\ refresh_tokens'[t].expires_at = refresh_tokens[t].expires_at
    <2>1. refresh_tokens'[t] = Revoke(SpentBy(p))[t] /\ origin'[t] = origin[t]
      BY <1>5, RenewEffect
    <2> QED
      BY <1>1, <2>1, RevokeFacts
  <1>6. ASSUME NEW p \in Procs, LoginCommit(p), t # next_id
        PROVE  refresh_tokens[t] # NoRow /\ origin'[t] = origin[t] /\ refresh_tokens'[t] = refresh_tokens[t]
    <2>1. refresh_tokens'[t] = Swept(job[p].user)[t] /\ origin'[t] = origin[t]
      BY <1>6, LoginEffect
    <2>2. Swept(job[p].user)[t] \in {refresh_tokens[t], NoRow}
      BY <1>1, SweptFacts
    <2> QED
      BY <2>1, <2>2
  <1> QED
    BY <1>2, <1>3, <1>4, <1>5, <1>6, TableStep

\* What has been recorded of an id stays recorded.
LEMMA HistoryStays ==
    ASSUME IInv, [Next]_vars, NEW t \in Tokens, origin[t] # NoOrigin
    PROVE  origin'[t] = origin[t]
  <1>1. t # next_id
    BY DEF IInv, IdsFresh, TypeOK, Tokens
  <1> QED
    BY <1>1, NewHistory

\* Time does not run back, and history is written by a login or a renewal alone.
LEMMA TimeAndHistory ==
    ASSUME IInv, [Next]_vars
    PROVE  /\ now \in Instant /\ now' \in Instant /\ now' >= now
           /\ \/ origin' = origin /\ next_id' = next_id
              \/ \E p \in Procs : LoginCommit(p) \/ RotateRenew(p)
  <1>1. now \in Instant
    BY DEF IInv, TypeOK
  <1>2. ASSUME NEW p \in Procs, LoginCommit(p) \/ RotateRenew(p) PROVE now' = now
    BY <1>2 DEF LoginCommit, RotateRenew
  <1>3. CASE Quiet
    BY <1>1, <1>3 DEF Quiet
  <1>4. ASSUME NEW S, Revoking(S) \/ Sweeping(S)
        PROVE  now' = now /\ origin' = origin /\ next_id' = next_id
    BY <1>4 DEF Revoking, Sweeping
  <1>5. now' = now => now' \in Instant /\ now' >= now
    BY <1>1 DEF Instant
  <1> QED
    BY <1>1, <1>2, <1>3, <1>4, <1>5, TableStep

\* The row just issued and what is recorded of it.
LEMMA Issue ==
    ASSUME IInv, NEW p \in Procs
    PROVE  /\ RotateRenew(p) =>
                 /\ next_id \in Tokens
                 /\ refresh_tokens'[next_id] # NoRow
                 /\ refresh_tokens'[next_id].user = job[p].user
                 /\ refresh_tokens'[next_id].family = job[p].family
                 /\ refresh_tokens'[next_id].revoked_at = NULL
                 /\ refresh_tokens'[next_id].expires_at = RefreshExpiry(now)
                 /\ origin'[next_id].kind = (IF PresentedRow(p).revoked_at = NULL
                                             THEN "rotated" ELSE "race")
                 /\ origin'[next_id].at = now /\ origin'[next_id].parent = job[p].token
           /\ LoginCommit(p) =>
                 /\ next_id \in Tokens
                 /\ refresh_tokens'[next_id] # NoRow
                 /\ refresh_tokens'[next_id].user = job[p].user
                 /\ refresh_tokens'[next_id].family = next_id
                 /\ refresh_tokens'[next_id].revoked_at = NULL
                 /\ refresh_tokens'[next_id].expires_at = RefreshExpiry(now)
                 /\ origin'[next_id].kind = "login" /\ origin'[next_id].at = now
                 /\ origin'[next_id].user = job[p].user
  <1>1. TypeOK
    BY DEF IInv
  <1>2. ASSUME NEW u, NEW f
        PROVE  /\ IssuedRow(u, f).user = u /\ IssuedRow(u, f).family = f
               /\ IssuedRow(u, f).revoked_at = NULL
               /\ IssuedRow(u, f).expires_at = RefreshExpiry(now)
    BY DEF IssuedRow
  <1>3. ASSUME RotateRenew(p)
        PROVE  /\ next_id \in Tokens
               /\ refresh_tokens'[next_id] = IssuedRow(job[p].user, job[p].family)
               /\ refresh_tokens'[next_id] # NoRow
               /\ origin'[next_id].kind = (IF PresentedRow(p).revoked_at = NULL
                                           THEN "rotated" ELSE "race")
               /\ origin'[next_id].at = now /\ origin'[next_id].parent = job[p].token
    <2>1. job[p].user \in Users /\ job[p].family \in Tokens
      BY <1>3, LockedRotation DEF RotateRenew
    <2>2. IssuedRow(job[p].user, job[p].family) # NoRow
      BY <1>1, <2>1, IssuedRowFacts
    <2>3. /\ next_id \in Tokens
          /\ refresh_tokens'[next_id] = IssuedRow(job[p].user, job[p].family)
      BY <1>3, RenewEffect
    <2>4. PICK kind \in {"rotated", "race"} :
            /\ kind = (IF PresentedRow(p).revoked_at = NULL THEN "rotated" ELSE "race")
            /\ origin'[next_id] = [kind |-> kind, parent |-> job[p].token, user |-> job[p].user,
                                   at |-> now]
      BY <1>3, RenewEffect
    <2> QED
      BY <2>2, <2>3, <2>4
  <1>4. ASSUME LoginCommit(p)
        PROVE  /\ next_id \in Tokens
               /\ refresh_tokens'[next_id] = IssuedRow(job[p].user, next_id)
               /\ refresh_tokens'[next_id] # NoRow
               /\ origin'[next_id].kind = "login" /\ origin'[next_id].at = now
               /\ origin'[next_id].user = job[p].user
    <2>1. /\ next_id \in Tokens /\ job[p].user \in Users
          /\ refresh_tokens'[next_id] = IssuedRow(job[p].user, next_id)
          /\ origin'[next_id] = [kind |-> "login", parent |-> NULL, user |-> job[p].user,
                                 at |-> now]
      BY <1>4, LoginEffect
    <2>2. IssuedRow(job[p].user, next_id) # NoRow
      BY <1>1, <2>1, IssuedRowFacts
    <2> QED
      BY <2>1, <2>2
  <1> QED
    BY <1>2, <1>3, <1>4

----------------------------------------------------------------------------
(* Rows are what they were issued as *)

RotatingPhases == {"rotate_lock", "rotate_locked"}

\* A row belongs to a family that was opened, and to its owner, and expires a
\* lifetime after its issue; a rotation names such a family.
RowsOK ==
    /\ \A t \in Tokens : origin[t].at <= now
    /\ \A t \in Tokens : refresh_tokens[t] # NoRow =>
          /\ Family(t) \in Tokens /\ Opened(Family(t))
          /\ refresh_tokens[t].user = origin[Family(t)].user
          /\ refresh_tokens[t].expires_at = RefreshExpiry(origin[t].at)
    /\ \A p \in Procs : phase[p] \in RotatingPhases =>
          /\ Opened(job[p].family)
          /\ job[p].user = origin[job[p].family].user

\* A rotation was one before, or has just looked up a row.
LEMMA RotatingStep ==
    ASSUME IInv, [Next]_vars, NEW p \in Procs, phase'[p] \in RotatingPhases
    PROVE  \/ phase[p] \in RotatingPhases /\ job'[p] = job[p]
           \/ \E t \in Tokens : /\ refresh_tokens[t] # NoRow
                               /\ job'[p].family = Family(t)
                               /\ job'[p].user = refresh_tokens[t].user
  <1>1. TypeOK
    BY DEF IInv
  <1>2. CASE phase'[p] = phase[p] /\ job'[p] = job[p]
    BY <1>2
  <1>3. ASSUME NEW q \in Procs, Finish(q)
        PROVE  phase'[p] = phase[p] /\ job'[p] = job[p]
    BY <1>1, <1>3 DEF Finish, TypeOK, RotatingPhases
  <1>4. ASSUME NEW q \in Procs, NEW t \in Tokens, RotateLookup(q, t)
        PROVE  \/ phase[p] \in RotatingPhases /\ job'[p] = job[p]
               \/ /\ refresh_tokens[t] # NoRow
                  /\ job'[p].family = Family(t)
                  /\ job'[p].user = refresh_tokens[t].user
    BY <1>1, <1>4 DEF RotateLookup, Start, TypeOK, Family
  <1>5. ASSUME NEW q \in Procs, LockFamily(q)
        PROVE  phase[p] \in RotatingPhases /\ job'[p] = job[p]
    BY <1>1, <1>5 DEF LockFamily, Goto, TypeOK, RotatingPhases
  <1>6. ASSUME NEW q \in Procs, NEW u \in Users, DisableUser(q, u) \/ LoginRead(q, u)
        PROVE  phase'[p] = phase[p] /\ job'[p] = job[p]
    BY <1>1, <1>6 DEF DisableUser, LoginRead, Start, TypeOK, RotatingPhases
  <1>7. ASSUME NEW q \in Procs,
               RotateCommit(q) \/ DisableUserRevoke(q) \/ LoginCommit(q)
                  \/ LoginFailsAfterSweep(q) \/ Abort(q)
        PROVE  Finish(q)
    BY <1>7 DEF RotateCommit, RotateRowMissing, RotateTheft, RotateExpired, RotateInactive,
       RotateRenew, DisableUserRevoke, LoginCommit, LoginFailsAfterSweep, Abort
  <1>8. CASE \/ \E t \in Tokens : Logout(t)
             \/ \E u \in Users : RevokeAllForUser(u) \/ EnableUser(u)
             \/ Tick \/ UNCHANGED vars
    BY <1>8 DEF Logout, RevokeAllForUser, EnableUser, Tick, vars, requestVars
  <1> QED
    BY <1>2, <1>3, <1>4, <1>5, <1>6, <1>7, <1>8 DEF Next, Progress

LEMMA RowsOKStep == IInv /\ RowsOK /\ [Next]_vars => RowsOK'
  <1> SUFFICES ASSUME IInv, RowsOK, [Next]_vars PROVE RowsOK'
    OBVIOUS
  <1>1. TypeOK /\ now \in Int /\ now' \in Int /\ now' >= now
    BY TimeAndHistory DEF IInv, TypeOK, Instant
  <1>2. ASSUME NEW f \in Tokens, Opened(f)
        PROVE  origin'[f] = origin[f] /\ origin'[f].kind = "login"
    BY <1>2, HistoryStays DEF Opened, NoOrigin
  <1>3. ASSUME NEW t \in Tokens PROVE origin'[t].at <= now'
    <2>1. origin[t].at \in Int /\ origin[t].at <= now
      BY <1>1 DEF RowsOK, TypeOK, Origin, Instant
    <2>2. origin'[t] = origin[t] \/ origin'[t].at = now
      <3>1. origin'[t] # origin[t] =>
              t = next_id /\ \E p \in Procs : LoginCommit(p) \/ RotateRenew(p)
        BY NewHistory, TimeAndHistory
      <3> QED
        BY <3>1, Issue
    <2> QED
      BY <1>1, <2>1, <2>2
  <1>4. ASSUME NEW p \in Procs, RotateRenew(p)
        PROVE  /\ job[p].family \in Tokens /\ Opened(job[p].family)
               /\ job[p].user \in Users /\ job[p].user = origin[job[p].family].user
    BY <1>4, LockedRotation DEF RotateRenew, RowsOK, RotatingPhases
  <1>5. ASSUME NEW t \in Tokens, refresh_tokens'[t] # NoRow
        PROVE  /\ Family(t)' \in Tokens /\ Opened(Family(t))'
               /\ refresh_tokens'[t].user = origin'[Family(t)'].user
               /\ refresh_tokens'[t].expires_at = RefreshExpiry(origin'[t].at)
    <2>1. CASE /\ refresh_tokens[t] # NoRow /\ origin'[t] = origin[t]
               /\ refresh_tokens'[t].family = refresh_tokens[t].family
               /\ refresh_tokens'[t].user = refresh_tokens[t].user
               /\ refresh_tokens'[t].expires_at = refresh_tokens[t].expires_at
      BY <1>2, <2>1 DEF RowsOK, Family, Opened
    <2>2. ASSUME t = next_id, NEW p \in Procs, LoginCommit(p)
          PROVE  /\ Family(t)' = next_id /\ origin'[next_id].kind = "login"
                 /\ refresh_tokens'[t].user = origin'[next_id].user
                 /\ refresh_tokens'[t].expires_at = RefreshExpiry(origin'[t].at)
      BY <2>2, Issue DEF Family
    <2>3. ASSUME t = next_id, NEW p \in Procs, RotateRenew(p)
          PROVE  /\ Family(t)' = job[p].family
                 /\ refresh_tokens'[t].user = job[p].user
                 /\ refresh_tokens'[t].expires_at = RefreshExpiry(origin'[t].at)
      BY <2>3, Issue DEF Family
    <2>4. ASSUME t = next_id, NEW p \in Procs, LoginCommit(p)
          PROVE  /\ Family(t)' \in Tokens /\ Opened(Family(t))'
                 /\ refresh_tokens'[t].user = origin'[Family(t)'].user
                 /\ refresh_tokens'[t].expires_at = RefreshExpiry(origin'[t].at)
      BY <1>5, <2>2, <2>4 DEF Opened
    <2>5. ASSUME t = next_id, NEW p \in Procs, RotateRenew(p)
          PROVE  /\ Family(t)' \in Tokens /\ Opened(Family(t))'
                 /\ refresh_tokens'[t].user = origin'[Family(t)'].user
                 /\ refresh_tokens'[t].expires_at = RefreshExpiry(origin'[t].at)
      BY <1>2, <1>4, <2>3, <2>5 DEF Opened
    <2> QED
      BY <1>5, <2>1, <2>4, <2>5, RowsStay
  <1>6. ASSUME NEW p \in Procs, phase'[p] \in RotatingPhases
        PROVE  /\ Opened(job[p].family)'
               /\ job'[p].user = origin'[job'[p].family].user
    <2>1. CASE phase[p] \in RotatingPhases /\ job'[p] = job[p]
      <3>1. job[p].family \in Tokens /\ Opened(job[p].family)
            /\ job[p].user = origin[job[p].family].user
        BY <2>1 DEF RowsOK, IInv, RequestsOK, RotatingPhases
      <3> QED
        BY <1>2, <2>1, <3>1 DEF Opened
    <2>2. ASSUME NEW t \in Tokens, refresh_tokens[t] # NoRow,
                 job'[p].family = Family(t), job'[p].user = refresh_tokens[t].user
          PROVE  /\ Opened(job[p].family)'
                 /\ job'[p].user = origin'[job'[p].family].user
      BY <1>2, <2>2 DEF RowsOK, Opened
    <2> QED
      BY <1>6, <2>1, <2>2, RotatingStep
  <1> QED
    BY <1>3, <1>5, <1>6 DEF RowsOK

----------------------------------------------------------------------------
(* Why a row is revoked *)

\* The end of a family: none of its rows is left unrevoked.
LEMMA FamilyEnds ==
    ASSUME TypeOK, NEW f, Revoking(UnrevokedOf(f))
    PROVE  ~ \E t \in Tokens : Unrevoked(refresh_tokens', t) /\ refresh_tokens'[t].family = f
  BY RevokeFacts DEF Revoking, UnrevokedOf, Unrevoked, Family

\* The end of a user's sessions ends every family of the user.
LEMMA UserSessionsEnd ==
    ASSUME IInv, RowsOK, NEW u, Revoking(UnrevokedOfUser(u)), NEW s \in Tokens,
           refresh_tokens[s] # NoRow, refresh_tokens[s].user = u
    PROVE  ~ \E t \in Tokens : /\ Unrevoked(refresh_tokens', t)
                             /\ refresh_tokens'[t].family = Family(s)
  <1> SUFFICES ASSUME NEW t \in Tokens, Unrevoked(refresh_tokens', t),
                      refresh_tokens'[t].family = Family(s)
               PROVE  FALSE
    OBVIOUS
  <1>1. TypeOK /\ refresh_tokens' = Revoke(UnrevokedOfUser(u))
    BY DEF IInv, Revoking
  <1>2. Unrevoked(refresh_tokens, t) /\ t \notin UnrevokedOfUser(u) /\ Family(t) = Family(s)
    BY <1>1, RevokeFacts DEF Unrevoked, Family
  <1>3. refresh_tokens[t].user = u
    BY <1>2 DEF RowsOK, Unrevoked
  <1> QED
    BY <1>2, <1>3 DEF UnrevokedOfUser

\* A row lost to a cause: it had expired, its family ends by one of the steps that may
\* end it, or a renewal of its family spends it.
Spent(t) == \E p \in Procs : /\ RotateRenew(p) /\ PresentedRow(p).revoked_at = NULL
                             /\ job[p].token = t /\ job[p].family = Family(t)

FamilyOver(f) ==
    EndsFamily(f) /\ ~ \E t \in Tokens : Unrevoked(refresh_tokens', t) /\ refresh_tokens'[t].family = f

LEMMA RowLost ==
    ASSUME IInv, RowsOK, [Next]_vars, NEW t \in Tokens,
           Unrevoked(refresh_tokens, t), ~Unrevoked(refresh_tokens', t)
    PROVE  Expired(refresh_tokens[t], now) \/ FamilyOver(Family(t)) \/ Spent(t)
  <1>1. /\ TypeOK /\ refresh_tokens[t] # NoRow /\ refresh_tokens[t].revoked_at = NULL
        /\ Family(t) \in Tokens
        /\ refresh_tokens[t].user = origin[Family(t)].user
        /\ refresh_tokens[t] \in Row /\ now \in Int
    BY DEF IInv, TypeOK, Table, RowsOK, Unrevoked, Instant
  <1>2. ASSUME NEW S, refresh_tokens'[t] = Revoke(S)[t] PROVE t \in S
    BY <1>1, <1>2, RevokeFacts DEF Unrevoked
  <1>3. ASSUME NEW p \in Procs, RotateTheft(p) \/ RotateInactive(p),
               Revoking(UnrevokedOf(job[p].family))
        PROVE  FamilyOver(Family(t))
    <2>1. job[p].family = Family(t)
      BY <1>2, <1>3 DEF Revoking, UnrevokedOf
    <2> QED
      BY <1>1, <1>3, <2>1, FamilyEnds DEF FamilyOver, EndsFamily
  <1>4. ASSUME NEW s \in Tokens, Logout(s), refresh_tokens[s] # NoRow,
               Revoking(UnrevokedOf(Family(s)))
        PROVE  FamilyOver(Family(t))
    <2>1. Family(s) = Family(t)
      BY <1>2, <1>4 DEF Revoking, UnrevokedOf
    <2>2. FamilyTable(refresh_tokens, Family(t))[s] # NoRow
      BY <1>4, <2>1 DEF FamilyTable, Family
    <2> QED
      BY <1>1, <1>4, <2>1, <2>2, FamilyEnds DEF FamilyOver, EndsFamily
  <1>5. ASSUME NEW u \in Users,
               RevokeAllForUser(u) \/ \E p \in Procs : DisableUserRevoke(p) /\ job[p].user = u,
               Revoking(UnrevokedOfUser(u))
        PROVE  FamilyOver(Family(t))
    <2>1. refresh_tokens[t].user = u
      BY <1>2, <1>5 DEF Revoking, UnrevokedOfUser
    <2>2. EndsFamily(Family(t))
      BY <1>1, <1>5, <2>1 DEF EndsFamily
    <2> QED
      BY <1>1, <1>5, <2>1, <2>2, UserSessionsEnd DEF FamilyOver
  <1>6. ASSUME NEW p \in Procs, RotateExpired(p), Revoking({job[p].token})
        PROVE  Expired(refresh_tokens[t], now)
    <2>1. t = job[p].token
      BY <1>2, <1>6 DEF Revoking
    <2>2. PresentedRow(p) = refresh_tokens[t]
      BY <1>6, <2>1, LockedRotation DEF RotateExpired, PresentedRow
    <2> QED
      BY <1>6, <2>2 DEF RotateExpired
  <1>7. ASSUME NEW u, refresh_tokens'[t] = Swept(u)[t] PROVE Expired(refresh_tokens[t], now)
    <2>1. refresh_tokens[t].expires_at < now
      BY <1>1, <1>7 DEF Swept, Unrevoked
    <2>2. refresh_tokens[t].expires_at \in Int
      BY <1>1, BoundsAssumption, TtlAssumption DEF Row, Time
    <2> QED
      BY <1>1, <2>1, <2>2 DEF Expired
  <1>8. ASSUME NEW p \in Procs, RotateRenew(p) PROVE Spent(t)
    <2>1. t # next_id
      BY <1>1, <1>8, RenewEffect
    <2>2. t \in SpentBy(p)
      BY <1>2, <1>8, <2>1, RenewEffect
    <2>3. PresentedRow(p).revoked_at = NULL /\ job[p].token = t
      BY <2>2 DEF SpentBy
    <2>4. job[p].family = Family(t)
      BY <1>8, <2>3, LockedRotation DEF RotateRenew, PresentedRow, Family
    <2> QED
      BY <1>8, <2>3, <2>4 DEF Spent
  <1>9. ASSUME NEW p \in Procs, LoginCommit(p) PROVE Expired(refresh_tokens[t], now)
    <2>1. t # next_id
      BY <1>1, <1>9, LoginEffect
    <2> QED
      BY <1>7, <1>9, <2>1, LoginEffect
  <1>10. ~Quiet
    BY DEF Quiet, Unrevoked
  <1>11. ASSUME NEW u, Sweeping(u) PROVE Expired(refresh_tokens[t], now)
    BY <1>7, <1>11 DEF Sweeping
  <1> QED
    BY <1>3, <1>4, <1>5, <1>6, <1>8, <1>9, <1>10, <1>11, TableStep

\* A timestamp is written once, but for a row that has expired.
LEMMA StampMoves ==
    ASSUME IInv, [Next]_vars, NEW t \in Tokens, refresh_tokens[t] # NoRow,
           refresh_tokens'[t] # NoRow,
           refresh_tokens'[t].revoked_at # refresh_tokens[t].revoked_at
    PROVE  /\ refresh_tokens'[t].revoked_at = StoredTime(now)
           /\ now' = now
           /\ Unrevoked(refresh_tokens, t) \/ Expired(refresh_tokens[t], now)
  <1>1. TypeOK
    BY DEF IInv
  <1>2. ASSUME NEW S, refresh_tokens'[t] = Revoke(S)[t]
        PROVE  t \in S /\ refresh_tokens'[t].revoked_at = StoredTime(now)
    BY <1>1, <1>2, RevokedRow
  <1>3. ASSUME NEW S, Revoking(S)
        PROVE  t \in S /\ refresh_tokens'[t].revoked_at = StoredTime(now) /\ now' = now
    BY <1>2, <1>3 DEF Revoking
  <1>4. ASSUME NEW p \in Procs, RotateExpired(p), t \in {job[p].token}
        PROVE  Expired(refresh_tokens[t], now)
    BY <1>4, LockedRotation DEF RotateExpired, PresentedRow
  <1>5. ASSUME NEW p \in Procs, RotateRenew(p)
        PROVE  /\ refresh_tokens'[t].revoked_at = StoredTime(now) /\ now' = now
               /\ Unrevoked(refresh_tokens, t)
    <2>1. t # next_id
      BY <1>5, RenewEffect
    <2>2. t \in SpentBy(p) /\ refresh_tokens'[t].revoked_at = StoredTime(now) /\ now' = now
      BY <1>2, <1>5, <2>1, RenewEffect
    <2>3. PresentedRow(p).revoked_at = NULL /\ job[p].token = t
      BY <2>2 DEF SpentBy
    <2>4. PresentedRow(p) = refresh_tokens[t]
      BY <1>5, <2>3, LockedRotation DEF RotateRenew, PresentedRow
    <2> QED
      BY <2>2, <2>3, <2>4 DEF Unrevoked
  <1>6. ASSUME NEW p \in Procs, LoginCommit(p) PROVE FALSE
    <2>1. t # next_id /\ refresh_tokens'[t] = Swept(job[p].user)[t]
      BY <1>6, LoginEffect
    <2> QED
      BY <2>1 DEF Swept
  <1>7. ~Quiet
    BY DEF Quiet
  <1>8. ASSUME NEW u, Sweeping(u) PROVE FALSE
    BY <1>8 DEF Sweeping, Swept
  <1>9. \A f : t \in UnrevokedOf(f) \/ t \in UnrevokedOfUser(f) => Unrevoked(refresh_tokens, t)
    BY DEF UnrevokedOf, UnrevokedOfUser
  <1> QED
    BY <1>3, <1>4, <1>5, <1>6, <1>7, <1>8, <1>9, TableStep

----------------------------------------------------------------------------
(* What the timestamps of a family tell *)

\* Rounding goes up by half a second at most, and keeps the order of instants.
LEMMA Rounding ==
    /\ TTL \in Int /\ TTL > 0
    /\ \A n \in Instant : /\ n \in Int /\ StoredTime(n) \in Int
                          /\ n <= StoredTime(n) /\ StoredTime(n) <= n + 1
                          /\ RefreshExpiry(n) \in {n + TTL, n + TTL + 1}
                          /\ RefreshExpiry(n) \in Int /\ n + TTL <= RefreshExpiry(n)
                          /\ n < RefreshExpiry(n)
    /\ \A m, n \in Instant : m <= n => RefreshExpiry(m) <= RefreshExpiry(n)
  <1>1. TTL \in Int /\ TTL > 0
    BY TtlAssumption
  <1>2. \A n \in Int : /\ StoredTime(n) \in {n, n + 1} /\ StoredTime(n) \in Int
                      /\ StoredTime(n) % 2 = 0
    BY DEF StoredTime
  <1>3. \A n \in Instant : n \in Int
    BY DEF Instant
  <1>4. \A m, n \in Int : m <= n => StoredTime(m) <= StoredTime(n)
    BY DEF StoredTime
  <1> QED
    BY <1>1, <1>2, <1>3, <1>4 DEF RefreshExpiry

\* A renewal and the token it spends are of one family.
OneFamily ==
    \A s \in Tokens :
        /\ origin[s].kind = "rotated" /\ refresh_tokens[s] # NoRow
        /\ refresh_tokens[origin[s].parent] # NoRow
        => Family(s) = Family(origin[s].parent)

\* A spent token carries a timestamp no older than the renewal that spent it.
Stamped ==
    \A t \in Tokens : refresh_tokens[t] # NoRow =>
        \A s \in Spends(t) : /\ refresh_tokens[t].revoked_at # NULL
                             /\ refresh_tokens[t].revoked_at >= origin[s].at

\* A revoked row has expired, is of a family that has ended, or was spent when its
\* timestamp says.
RevokedForCause ==
    \A t \in Tokens : refresh_tokens[t] # NoRow /\ refresh_tokens[t].revoked_at # NULL =>
        \/ Expired(refresh_tokens[t], now)
        \/ ~FamilyUnrevoked(Family(t))
        \/ \E s \in Spends(t) : refresh_tokens[t].revoked_at = StoredTime(origin[s].at)

\* A row that has not expired is still there, and in a family that has not ended some
\* unrevoked row is no older.
Succeeded ==
    \A s \in Tokens : s < next_id /\ origin[s].at + TTL > now =>
        /\ refresh_tokens[s] # NoRow
        /\ FamilyUnrevoked(Family(s)) =>
              \E t \in Tokens : /\ Unrevoked(refresh_tokens, t) /\ Family(t) = Family(s)
                                /\ origin[t].at >= origin[s].at

\* A token some renewal has spent stays in the table as it was, or is gone.
LEMMA SpentRow ==
    ASSUME IInv, SpentStaySpent, [Next]_vars, NEW s \in Tokens, origin[s].kind = "rotated"
    PROVE  /\ origin'[s] = origin[s]
           /\ origin[s].parent \in Tokens
           /\ refresh_tokens'[origin[s].parent] # NoRow =>
                 /\ refresh_tokens[origin[s].parent] # NoRow
                 /\ refresh_tokens'[origin[s].parent].family = Family(origin[s].parent)
  <1>1. origin'[s] = origin[s]
    BY HistoryStays DEF NoOrigin
  <1>2. origin[s].parent \in Tokens /\ origin[s].parent # next_id
    BY DEF SpentStaySpent, IInv, TypeOK, Tokens
  <1> QED
    BY <1>1, <1>2, RowsStay DEF Family

LEMMA OneFamilyStep ==
    ASSUME IInv, SpentStaySpent, OneFamily, [Next]_vars
    PROVE  OneFamily'
  <1> SUFFICES ASSUME NEW s \in Tokens, origin'[s].kind = "rotated", refresh_tokens'[s] # NoRow,
                      refresh_tokens'[origin'[s].parent] # NoRow
               PROVE  refresh_tokens'[s].family = refresh_tokens'[origin'[s].parent].family
    BY DEF OneFamily, Family
  <1>1. CASE origin[s].kind = "rotated"
    <2>1. /\ origin'[s] = origin[s] /\ refresh_tokens[origin[s].parent] # NoRow
          /\ refresh_tokens'[origin[s].parent].family = Family(origin[s].parent)
      BY <1>1, SpentRow
    <2>2. s # next_id
      BY <1>1 DEF IInv, IdsFresh, TypeOK, Tokens, NoOrigin
    <2>3. refresh_tokens[s] # NoRow /\ refresh_tokens'[s].family = Family(s)
      BY <2>2, RowsStay DEF Family
    <2> QED
      BY <1>1, <2>1, <2>3 DEF OneFamily
  <1>2. CASE origin[s].kind # "rotated"
    <2>1. s = next_id
      BY <1>2, NewHistory
    <2>2. PICK p \in Procs : /\ RotateRenew(p) /\ origin'[s].parent = job[p].token
                             /\ PresentedRow(p).revoked_at = NULL
      BY <1>2, NewHistory
    <2>3. /\ job[p].token \in Tokens /\ job[p].token # next_id
          /\ Family(job[p].token) = job[p].family
      <3>1. job[p].token \in Tokens /\ job[p].token < next_id /\ next_id \in Int
        BY <2>2, RenewalSpends DEF IInv, TypeOK
      <3> QED
        BY <2>2, <3>1, LockedRotation DEF RotateRenew, PresentedRow, Family
    <2>4. refresh_tokens'[job[p].token].family = job[p].family
      BY <2>2, <2>3, RowsStay DEF Family
    <2> QED
      BY <2>1, <2>2, <2>4, Issue
  <1> QED
    BY <1>1, <1>2

\* The type of a row.
LEMMA RowType ==
    ASSUME TypeOK, NEW t \in Tokens
    PROVE  /\ origin[t].at \in Instant /\ now \in Instant
           /\ refresh_tokens[t] # NoRow =>
                 /\ refresh_tokens[t].expires_at \in Int
                 /\ refresh_tokens[t].revoked_at \in Int \cup {NULL}
  <1>1. refresh_tokens[t] # NoRow => refresh_tokens[t] \in Row
    BY DEF TypeOK, Table
  <1>2. \A n \in Time : n \in Int
    BY BoundsAssumption, TtlAssumption DEF Time
  <1> QED
    BY <1>1, <1>2 DEF TypeOK, Origin, Row

LEMMA StampedStep ==
    ASSUME IInv, RowsOK, SpentStaySpent, Stamped, [Next]_vars
    PROVE  Stamped'
  <1> SUFFICES ASSUME NEW t \in Tokens, refresh_tokens'[t] # NoRow, NEW s \in Tokens,
                      origin'[s].kind = "rotated", origin'[s].parent = t
               PROVE  /\ refresh_tokens'[t].revoked_at # NULL
                      /\ refresh_tokens'[t].revoked_at >= origin'[s].at
    BY DEF Stamped, Spends
  <1>1. /\ TypeOK /\ now \in Instant /\ origin[s].at \in Instant /\ origin[s].at <= now
        /\ StoredTime(now) # NULL
    BY RowType, StoredTimeType DEF IInv, RowsOK
  <1>2. CASE origin[s].kind = "rotated"
    <2>1. /\ origin'[s] = origin[s] /\ refresh_tokens[t] # NoRow
          /\ refresh_tokens[t].revoked_at # NULL /\ refresh_tokens[t].revoked_at >= origin[s].at
      BY <1>2, SpentRow DEF Stamped, Spends
    <2>2. \/ refresh_tokens'[t].revoked_at = refresh_tokens[t].revoked_at
          \/ refresh_tokens'[t].revoked_at = StoredTime(now)
      BY <2>1, StampMoves
    <2>3. StoredTime(now) >= origin[s].at
      BY <1>1, Rounding
    <2> QED
      BY <1>1, <2>1, <2>2, <2>3
  <1>3. CASE origin[s].kind # "rotated"
    <2>1. PICK p \in Procs : /\ RotateRenew(p) /\ job[p].token = t
                             /\ PresentedRow(p).revoked_at = NULL
      BY <1>3, NewHistory
    <2>2. s = next_id
      BY <1>3, NewHistory
    <2>3. origin'[s].at = now
      BY <2>1, <2>2, Issue
    <2>4. /\ Unrevoked(refresh_tokens, t) /\ ~Unrevoked(refresh_tokens', t)
      BY <2>1, RenewalSpends
    <2>5. refresh_tokens'[t].revoked_at = StoredTime(now)
      BY <2>4, StampMoves DEF Unrevoked
    <2> QED
      BY <1>1, <2>3, <2>5, Rounding
  <1> QED
    BY <1>2, <1>3

\* A row unrevoked after a step is the one just issued, or was unrevoked before.
LEMMA NoRevival ==
    ASSUME IInv, RowsOK, [Next]_vars, NEW r \in Tokens, Unrevoked(refresh_tokens', r)
    PROVE  \/ Unrevoked(refresh_tokens, r) /\ refresh_tokens'[r].family = Family(r)
           \/ r = next_id /\ \E p \in Procs : LoginCommit(p)
           \/ r = next_id /\ \E p \in Procs : /\ RotateRenew(p)
                                            /\ FamilyUnrevoked(job[p].family)
                                            /\ refresh_tokens'[r].family = job[p].family
  BY NothingRevived, RenewalSawUnrevoked, Issue DEF Family

\* A family that was opened and is unrevoked after a step was unrevoked before.
LEMMA FamilyWasUnrevoked ==
    ASSUME IInv, RowsOK, [Next]_vars, NEW r \in Tokens, Unrevoked(refresh_tokens', r),
           Opened(refresh_tokens'[r].family)
    PROVE  FamilyUnrevoked(refresh_tokens'[r].family)
  <1>1. CASE Unrevoked(refresh_tokens, r) /\ refresh_tokens'[r].family = Family(r)
    BY <1>1 DEF FamilyUnrevoked, Family
  <1>2. ASSUME r = next_id, NEW p \in Procs, LoginCommit(p) PROVE FALSE
    <2>1. refresh_tokens'[r].family = next_id /\ origin[next_id] = NoOrigin
      BY <1>2, Issue, LoginEffect
    <2> QED
      BY <2>1 DEF Opened, NoOrigin
  <1> QED
    BY <1>1, <1>2, NoRevival

LEMMA RevokedForCauseStep ==
    ASSUME IInv, RowsOK, RevokedForCause, [Next]_vars
    PROVE  RevokedForCause'
  <1> SUFFICES ASSUME NEW t \in Tokens, refresh_tokens'[t] # NoRow,
                      refresh_tokens'[t].revoked_at # NULL,
                      ~Expired(refresh_tokens'[t], now'),
                      \E r \in Tokens : /\ Unrevoked(refresh_tokens', r)
                                        /\ refresh_tokens'[r].family = refresh_tokens'[t].family
               PROVE  \E s \in Tokens : /\ origin'[s].kind = "rotated" /\ origin'[s].parent = t
                                        /\ refresh_tokens'[t].revoked_at = StoredTime(origin'[s].at)
    BY DEF RevokedForCause, FamilyUnrevoked, Family, Spends
  <1>1. TypeOK /\ now \in Int /\ now' \in Int /\ now' >= now
    BY TimeAndHistory DEF IInv, Instant
  <1>2. /\ refresh_tokens[t] # NoRow
        /\ refresh_tokens'[t].family = refresh_tokens[t].family
        /\ refresh_tokens'[t].expires_at = refresh_tokens[t].expires_at
    BY Issue, RowsStay
  <1>3. ~Expired(refresh_tokens[t], now)
    BY <1>1, <1>2, RowType DEF Expired
  <1>4. FamilyUnrevoked(Family(t))
    <2>1. Opened(Family(t))
      BY <1>2 DEF RowsOK
    <2>2. PICK r \in Tokens : Unrevoked(refresh_tokens', r) /\ refresh_tokens'[r].family = Family(t)
      BY <1>2 DEF Family
    <2> QED
      BY <2>1, <2>2, FamilyWasUnrevoked
  <1>5. CASE refresh_tokens'[t].revoked_at = refresh_tokens[t].revoked_at
    <2>1. PICK s \in Spends(t) : refresh_tokens[t].revoked_at = StoredTime(origin[s].at)
      BY <1>2, <1>3, <1>4, <1>5 DEF RevokedForCause
    <2>2. origin'[s] = origin[s]
      BY <2>1, HistoryStays DEF Spends, NoOrigin
    <2> QED
      BY <1>5, <2>1, <2>2 DEF Spends
  <1>6. CASE refresh_tokens'[t].revoked_at # refresh_tokens[t].revoked_at
    <2>1. /\ refresh_tokens'[t].revoked_at = StoredTime(now)
          /\ Unrevoked(refresh_tokens, t) /\ ~Unrevoked(refresh_tokens', t)
      BY <1>2, <1>3, <1>6, StampMoves DEF Unrevoked
    <2>2. Spent(t)
      BY <1>2, <1>3, <2>1, RowLost DEF FamilyOver, Family
    <2>3. PICK p \in Procs : /\ RotateRenew(p) /\ PresentedRow(p).revoked_at = NULL
                             /\ job[p].token = t
      BY <2>2 DEF Spent
    <2>4. next_id \in Tokens /\ origin'[next_id].at = now /\ origin'[next_id].parent = t
      BY <2>3, Issue
    <2>5. origin'[next_id].kind = "rotated"
      BY <2>3, Issue
    <2> QED
      BY <2>1, <2>4, <2>5
  <1> QED
    BY <1>5, <1>6

LEMMA SucceededStep ==
    ASSUME IInv, RowsOK, Succeeded, [Next]_vars
    PROVE  Succeeded'
  <1> DEFINE Heir(f, n) ==
        \E t \in Tokens : /\ Unrevoked(refresh_tokens', t) /\ refresh_tokens'[t].family = f
                         /\ origin'[t].at >= n
  <1> SUFFICES ASSUME NEW s \in Tokens, s < next_id', origin'[s].at + TTL > now'
               PROVE  /\ refresh_tokens'[s] # NoRow
                      /\ (\E r \in Tokens : /\ Unrevoked(refresh_tokens', r)
                                            /\ refresh_tokens'[r].family = refresh_tokens'[s].family)
                         => Heir(refresh_tokens'[s].family, origin'[s].at)
    BY DEF Succeeded, FamilyUnrevoked, Family
  <1> HIDE DEF Heir
  <1>1. /\ TypeOK /\ now \in Int /\ now' \in Int /\ now' >= now /\ TTL \in Int
        /\ next_id \in Int /\ origin[s].at \in Instant /\ now \in Instant
    BY TimeAndHistory, RowType, Rounding DEF IInv, TypeOK, Instant
  <1>2. CASE s = next_id
    <2>1. \E p \in Procs : LoginCommit(p) \/ RotateRenew(p)
      BY <1>1, <1>2, TimeAndHistory
    <2>2. refresh_tokens'[s] # NoRow /\ Unrevoked(refresh_tokens', s)
      BY <1>2, <2>1, Issue DEF Unrevoked
    <2>3. origin'[s].at \in Int
      BY <1>1, <1>2, <2>1, Issue
    <2> QED
      BY <2>2, <2>3 DEF Heir
  <1>3. CASE s # next_id
    <2>1. s < next_id /\ origin'[s] = origin[s] /\ origin[s].at + TTL > now
      <3>1. origin'[s] = origin[s]
        BY <1>3, NewHistory
      <3>2. next_id' \in {next_id, next_id + 1}
        BY TimeAndHistory, LoginEffect, RenewEffect
      <3>3. origin[s].at \in Int /\ s \in Int
        <4>1. origin[s].at \in Int
          BY <1>1, Rounding
        <4>2. s \in Int
          BY DEF Tokens
        <4> QED
          BY <4>1, <4>2
      <3>4. s < next_id
        BY <1>1, <1>3, <3>2, <3>3
      <3>5. origin[s].at + TTL > now
        BY <1>1, <3>1, <3>3
      <3> QED
        BY <3>1, <3>4, <3>5
    <2>2. refresh_tokens[s] # NoRow /\ Opened(Family(s))
      BY <2>1 DEF Succeeded, RowsOK
    <2>3. ASSUME NEW t \in Tokens, refresh_tokens[t] # NoRow, origin[t].at >= origin[s].at
          PROVE  ~Expired(refresh_tokens[t], now) /\ refresh_tokens[t].expires_at >= now
      <3>1. origin[t].at \in Instant /\ refresh_tokens[t].expires_at = RefreshExpiry(origin[t].at)
        BY <1>1, <2>3, RowType DEF RowsOK
      <3>2. /\ origin[t].at \in Int /\ origin[s].at \in Int
            /\ RefreshExpiry(origin[t].at) \in Int
            /\ origin[t].at + TTL <= RefreshExpiry(origin[t].at)
        BY <1>1, <3>1, Rounding
      <3> QED
        BY <1>1, <2>1, <2>3, <3>1, <3>2 DEF Expired
    <2>4. refresh_tokens'[s] # NoRow
      <3>1. /\ refresh_tokens[s].expires_at >= now /\ refresh_tokens[s].expires_at \in Int
        <4>1. origin[s].at >= origin[s].at
          BY <1>1, Rounding
        <4> QED
          BY <1>1, <2>2, <2>3, <4>1, RowType
      <3>2. \A u : Swept(u)[s] = refresh_tokens[s]
        BY <1>1, <3>1 DEF Swept
      <3>3. \A S : Revoke(S)[s] # NoRow
        BY <1>1, <2>2, RevokeFacts
      <3>4. \A p \in Procs : /\ LoginCommit(p) => refresh_tokens'[s] = Swept(job[p].user)[s]
                             /\ RotateRenew(p) => refresh_tokens'[s] = Revoke(SpentBy(p))[s]
        BY <1>3, LoginEffect, RenewEffect
      <3> QED
        BY <2>2, <3>2, <3>3, <3>4, TableStep DEF Quiet, Revoking, Sweeping
    <2>5. refresh_tokens'[s].family = Family(s)
      BY <1>3, <2>4, RowsStay DEF Family
    <2>6. ASSUME NEW r \in Tokens, Unrevoked(refresh_tokens', r),
                 refresh_tokens'[r].family = Family(s)
          PROVE  Heir(Family(s), origin[s].at)
      <3>1. FamilyUnrevoked(Family(s))
        BY <2>2, <2>6, FamilyWasUnrevoked
      <3>2. PICK t \in Tokens : /\ Unrevoked(refresh_tokens, t) /\ Family(t) = Family(s)
                                /\ origin[t].at >= origin[s].at
        BY <2>1, <3>1 DEF Succeeded
      <3>3. CASE Unrevoked(refresh_tokens', t)
        <4>1. t # next_id
          BY <3>2 DEF Unrevoked, IInv, IdsFresh, Tokens
        <4>2. refresh_tokens'[t].family = Family(s) /\ origin'[t] = origin[t]
          BY <3>2, <3>3, <4>1, RowsStay DEF Unrevoked, Family
        <4> QED
          BY <3>2, <3>3, <4>2 DEF Heir
      <3>4. CASE ~Unrevoked(refresh_tokens', t)
        <4>1. ~Expired(refresh_tokens[t], now)
          BY <2>3, <3>2 DEF Unrevoked
        <4>2. ~FamilyOver(Family(t))
          BY <2>6, <3>2 DEF FamilyOver
        <4>3. Spent(t)
          BY <3>2, <3>4, <4>1, <4>2, RowLost
        <4>4. PICK p \in Procs : RotateRenew(p) /\ job[p].family = Family(t)
          BY <4>3 DEF Spent
        <4>5. /\ next_id \in Tokens /\ Unrevoked(refresh_tokens', next_id)
              /\ refresh_tokens'[next_id].family = Family(s) /\ origin'[next_id].at = now
          BY <3>2, <4>4, Issue DEF Unrevoked
        <4>6. now >= origin[s].at
          BY <1>1, Rounding DEF RowsOK
        <4> QED
          BY <4>5, <4>6 DEF Heir
      <3> QED
        BY <3>3, <3>4
    <2> QED
      BY <2>1, <2>4, <2>5, <2>6
  <1> QED
    BY <1>2, <1>3

----------------------------------------------------------------------------
(* Theorems: races, thefts and causes *)

History ==
    /\ SpentStaySpent /\ SingleUse
    /\ RowsOK /\ OneFamily /\ Stamped /\ RevokedForCause /\ Succeeded

LEMMA InitHistory == Init => History
  <1> SUFFICES ASSUME Init PROVE History
    OBVIOUS
  <1>1. /\ \A t \in Tokens : /\ refresh_tokens[t] = NoRow /\ origin[t] = NoOrigin
                             /\ origin[t].kind = "none" /\ origin[t].at = 0
        /\ \A p \in Procs : phase[p] = "idle"
        /\ now = 0 /\ next_id = 1
    BY DEF Init, EmptyTable, NoOrigin
  <1>2. SpentStaySpent /\ SingleUse
    BY <1>1 DEF SpentStaySpent, SingleUse
  <1>3. RowsOK
    BY <1>1 DEF RowsOK, RotatingPhases
  <1>4. OneFamily /\ Stamped /\ RevokedForCause
    BY <1>1 DEF OneFamily, Stamped, RevokedForCause
  <1>5. Succeeded
    BY <1>1 DEF Succeeded, Tokens
  <1> QED
    BY <1>2, <1>3, <1>4, <1>5 DEF History

LEMMA HistoryKept == Spec => [](IInv /\ History)
  <1>1. Init => IInv /\ History
    BY InitIInv, InitHistory
  <1>2. (IInv /\ History) /\ [Next]_vars => (IInv /\ History)'
    BY NextIInv, SingleUseStep, RowsOKStep, OneFamilyStep, StampedStep, RevokedForCauseStep,
       SucceededStep DEF History
  <1> QED
    BY <1>1, <1>2, PTL DEF Spec

\* A pair issued for a token already spent: what the table then says of it.
LEMMA RaceSpent ==
    ASSUME IInv, History, NEW p \in Procs, RotateRenew(p), PresentedRow(p).revoked_at # NULL
    PROVE  /\ grace > 0
           /\ \E s \in Spends(job[p].token) : now <= StoredTime(origin[s].at) + grace
  <1>1. /\ TypeOK /\ job[p].token \in Tokens
        /\ PresentedRow(p) = refresh_tokens[job[p].token]
        /\ refresh_tokens[job[p].token] # NoRow
        /\ Family(job[p].token) = job[p].family
    BY LockedRotation DEF IInv, RotateRenew, PresentedRow, Family
  <1>2. /\ grace > 0 /\ now - PresentedRow(p).revoked_at <= grace
        /\ ~Expired(refresh_tokens[job[p].token], now)
    BY <1>1 DEF RotateRenew, PassesReuseTest, IsBenignRotationRace
  <1>3. FamilyUnrevoked(Family(job[p].token))
    BY <1>1, RenewalSawUnrevoked
  <1>4. PICK s \in Spends(job[p].token) :
          refresh_tokens[job[p].token].revoked_at = StoredTime(origin[s].at)
    BY <1>1, <1>2, <1>3 DEF History, RevokedForCause
  <1>5. StoredTime(origin[s].at) \in Int /\ now \in Int /\ grace \in Int
    BY <1>1, <1>4, RowType, Rounding, GraceAssumption DEF TypeOK, Spends
  <1> QED
    BY <1>1, <1>2, <1>4, <1>5

\* A pair issued for a token already spent is the loser's half of a genuine race: some
\* renewal spent the token, and no longer ago than the grace period.
THEOREM RacesHaveWinners == Spec => []RaceHasWinner
  <1>1. Init => RaceHasWinner
    BY DEF Init, RaceHasWinner, NoOrigin
  <1>2. ASSUME IInv, History, RaceHasWinner, [Next]_vars PROVE RaceHasWinner'
    <2> SUFFICES ASSUME NEW t \in Tokens, origin'[t].kind = "race"
                 PROVE  /\ grace' > 0
                        /\ \E s \in Tokens : /\ origin'[s].kind = "rotated"
                                             /\ origin'[s].parent = origin'[t].parent
                                             /\ origin'[t].at <= StoredTime(origin'[s].at) + grace'
      BY DEF RaceHasWinner, Spends
    <2>1. grace' = grace
      BY <1>2 DEF Next, Progress, RotateCommit, RotateRowMissing, RotateTheft, RotateExpired,
         RotateInactive, RotateRenew, LockFamily, DisableUserRevoke, LoginCommit,
         LoginFailsAfterSweep, Abort, Logout, RevokeAllForUser, RotateLookup, DisableUser,
         LoginRead, EnableUser, Tick, vars
    <2>2. \A s \in Tokens : origin[s].kind = "rotated" => origin'[s] = origin[s]
      BY <1>2, HistoryStays DEF NoOrigin
    <2>3. CASE origin[t].kind = "race"
      <3>1. origin'[t] = origin[t]
        BY <1>2, <2>3, HistoryStays DEF NoOrigin
      <3>2. /\ grace > 0
            /\ \E s \in Tokens : /\ origin[s].kind = "rotated"
                                 /\ origin[s].parent = origin[t].parent
                                 /\ origin[t].at <= StoredTime(origin[s].at) + grace
        BY <1>2, <2>3 DEF RaceHasWinner, Spends
      <3> QED
        BY <2>1, <2>2, <3>1, <3>2
    <2>4. CASE origin[t].kind # "race"
      <3>1. t = next_id /\ \E p \in Procs : LoginCommit(p) \/ RotateRenew(p)
        BY <1>2, <2>4, NewHistory, TimeAndHistory
      <3>2. PICK p \in Procs : RotateRenew(p)
        BY <1>2, <3>1, Issue
      <3>3. /\ PresentedRow(p).revoked_at # NULL
            /\ origin'[t].at = now /\ origin'[t].parent = job[p].token
        BY <1>2, <3>1, <3>2, Issue
      <3>4. /\ grace > 0
            /\ \E s \in Spends(job[p].token) : now <= StoredTime(origin[s].at) + grace
        BY <1>2, <3>2, <3>3, RaceSpent
      <3> QED
        BY <2>1, <2>2, <3>3, <3>4 DEF Spends
    <2> QED
      BY <2>3, <2>4
  <1>3. IInv /\ History /\ RaceHasWinner /\ [Next]_vars => RaceHasWinner'
    BY <1>2
  <1> QED
    BY <1>1, <1>3, HistoryKept, PTL DEF Spec

\* A token presented after its race window and before its expiry ends its family, in
\* whichever order the requests that presented it took their locks.
LEMMA StaleReuse ==
    ASSUME IInv, History, NEW p \in Procs, RotateCommit(p), PresentsStale(p),
           ~Expired(PresentedRow(p), now)
    PROVE  ~ \E t \in Tokens : Unrevoked(refresh_tokens', t) /\ refresh_tokens'[t].family = job[p].family
  <1>1. TypeOK /\ PresentedRow(p) # NoRow
    BY DEF IInv, PresentsStale
  <1>2. CASE RotateTheft(p) \/ RotateInactive(p)
    <2>1. Revoking(UnrevokedOf(job[p].family))
      BY <1>2 DEF RotateTheft, RotateInactive, Revoking, RevokeFamilyLocked, UnrevokedOf, Family
    <2> QED
      BY <1>1, <2>1, FamilyEnds
  <1>3. CASE RotateRenew(p)
    <2>1. PICK s \in Spends(job[p].token) : now > StoredTime(origin[s].at) + grace
      BY DEF PresentsStale
    <2>2. s \in Tokens /\ origin[s].kind = "rotated" /\ origin[s].parent = job[p].token
      BY DEF Spends
    <2>3. PresentedRow(p).revoked_at # NULL
      <3>1. ASSUME PresentedRow(p).revoked_at = NULL PROVE FALSE
        <4>1. Unrevoked(refresh_tokens, job[p].token)
          BY <1>3, <3>1, RenewalSpends
        <4> QED
          BY <2>2, <4>1 DEF History, SpentStaySpent
      <3> QED
        BY <3>1
    <2>4. PICK r \in Spends(job[p].token) : now <= StoredTime(origin[r].at) + grace
      BY <1>3, <2>3, RaceSpent
    <2>5. r = s
      BY <2>2, <2>4 DEF Spends, History, SingleUse
    <2>6. StoredTime(origin[s].at) \in Int /\ now \in Int /\ grace \in Int
      BY <1>1, <2>2, RowType, Rounding, GraceAssumption DEF TypeOK
    <2> QED
      BY <2>1, <2>4, <2>5, <2>6
  <1> QED
    BY <1>1, <1>2, <1>3 DEF RotateCommit, RotateRowMissing, RotateExpired

THEOREM StaleTokensEndFamilies == Spec => StaleReuseEndsFamily
  <1>1. IInv /\ History /\ [Next]_vars =>
          [\A p \in Procs, f \in Tokens :
             /\ RotateCommit(p)
             /\ job[p].family = f
             /\ PresentsStale(p)
             /\ ~Expired(PresentedRow(p), now)
             => ~FamilyUnrevoked(f)']_vars
    BY StaleReuse DEF FamilyUnrevoked
  <1> QED
    BY <1>1, HistoryKept, PTL DEF Spec, StaleReuseEndsFamily

\* A token presented again within the grace period of the renewal that spent it is
\* called stolen only if its family had ended.
LEMMA TabsAreNoThieves ==
    ASSUME IInv, History, NEW p \in Procs, RotateTheft(p), FamilyUnrevoked(job[p].family),
           NEW s \in Spends(job[p].token), grace > 0
    PROVE  now > origin[s].at + grace
  <1> SUFFICES ASSUME ~(now > origin[s].at + grace) PROVE FALSE
    OBVIOUS
  <1>1. /\ TypeOK /\ job[p].token \in Tokens
        /\ PresentedRow(p) = refresh_tokens[job[p].token]
        /\ refresh_tokens[job[p].token] # NoRow
        /\ Family(job[p].token) = job[p].family
    BY LockedRotation DEF IInv, RotateTheft, PresentedRow, Family
  <1>2. s \in Tokens /\ origin[s].kind = "rotated" /\ origin[s].parent = job[p].token
    BY DEF Spends
  <1>3. /\ now \in Int /\ grace \in Int /\ origin[s].at \in Int /\ TTL \in Int
        /\ grace + 1 < TTL /\ origin[s].at \in Instant
    BY <1>1, <1>2, RowType, Rounding, GraceAssumption, TtlOutlivesGrace DEF TypeOK
  <1>4. s < next_id /\ origin[s].at + TTL > now
    <2>1. s < next_id
      BY <1>2 DEF IInv, IdsFresh, TypeOK, Tokens, NoOrigin
    <2> QED
      BY <1>3, <2>1
  <1>5. refresh_tokens[s] # NoRow /\ Family(s) = job[p].family
    BY <1>1, <1>2, <1>4 DEF History, Succeeded, OneFamily
  <1>6. PICK t \in Tokens : /\ Unrevoked(refresh_tokens, t) /\ Family(t) = job[p].family
                            /\ origin[t].at >= origin[s].at
    BY <1>2, <1>4, <1>5 DEF History, Succeeded
  <1>7. refresh_tokens[t].expires_at > now
    <2>1. refresh_tokens[t].expires_at = RefreshExpiry(origin[t].at) /\ origin[t].at \in Instant
      BY <1>1, <1>6, RowType DEF History, RowsOK, Unrevoked
    <2>2. /\ origin[t].at \in Int /\ RefreshExpiry(origin[t].at) \in Int
          /\ origin[t].at + TTL <= RefreshExpiry(origin[t].at)
      BY <2>1, Rounding
    <2> QED
      BY <1>3, <1>4, <1>6, <2>1, <2>2
  <1>8. Usable(seen[p], t, now)
    <2>1. seen[p] = FamilyTable(refresh_tokens, job[p].family)
      BY LockedRotation DEF IInv, RotateTheft
    <2>2. seen[p][t] = refresh_tokens[t]
      BY <1>6, <2>1 DEF FamilyTable, Family, Unrevoked
    <2> QED
      BY <1>6, <1>7, <2>2 DEF Usable, Unrevoked
  <1>9. /\ PresentedRow(p).revoked_at # NULL
        /\ ~IsBenignRotationRace(PresentedRow(p).revoked_at, seen[p], now)
    BY DEF RotateTheft, PassesReuseTest
  <1>10. PresentedRow(p).revoked_at \in Int /\ PresentedRow(p).revoked_at >= origin[s].at
    BY <1>1, <1>9, RowType DEF History, Stamped
  <1>11. now - PresentedRow(p).revoked_at <= grace
    BY <1>3, <1>10
  <1> QED
    BY <1>8, <1>9, <1>11 DEF IsBenignRotationRace

THEOREM TabsStaySignedIn == Spec => TabsNeverSignOut
  <1>1. IInv /\ History /\ [Next]_vars =>
          [\A p \in Procs :
             RotateTheft(p) =>
                \/ ~FamilyUnrevoked(job[p].family)
                \/ \A s \in Spends(job[p].token) : grace <= 0 \/ now > origin[s].at + grace]_vars
    <2> SUFFICES ASSUME IInv, History, NEW p \in Procs, RotateTheft(p),
                        FamilyUnrevoked(job[p].family), NEW s \in Spends(job[p].token)
                 PROVE  grace <= 0 \/ now > origin[s].at + grace
      OBVIOUS
    <2>1. grace \in Int
      BY GraceAssumption DEF IInv, TypeOK
    <2> QED
      BY <2>1, TabsAreNoThieves
  <1> QED
    BY <1>1, HistoryKept, PTL DEF Spec, TabsNeverSignOut

\* What becomes of a row that can still be presented: it stays, a step that may end its
\* family ends it, or a renewal leaves its family another such row.
LEMMA UsableFate ==
    ASSUME IInv, RowsOK, [Next]_vars, NEW t \in Tokens, Usable(refresh_tokens, t, now),
           refresh_tokens[t].expires_at > now'
    PROVE  \/ /\ Usable(refresh_tokens', t, now')
              /\ refresh_tokens'[t].family = Family(t)
              /\ refresh_tokens'[t].expires_at = refresh_tokens[t].expires_at
           \/ FamilyOver(Family(t))
           \/ \E p \in Procs : /\ RotateRenew(p) /\ next_id \in Tokens
                               /\ Usable(refresh_tokens', next_id, now')
                               /\ refresh_tokens'[next_id].family = Family(t)
  <1>1. TypeOK /\ now \in Instant /\ now \in Int
    BY Rounding DEF IInv, TypeOK
  <1>2. t # next_id
    BY <1>1 DEF IInv, IdsFresh, TypeOK, Usable, Unrevoked, Tokens
  <1>3. CASE Unrevoked(refresh_tokens', t)
    BY <1>2, <1>3, RowsStay DEF Usable, Unrevoked, Family
  <1>4. CASE ~Unrevoked(refresh_tokens', t)
    <2>1. refresh_tokens[t].expires_at \in Int /\ Unrevoked(refresh_tokens, t)
      BY <1>1, RowType DEF Usable, Unrevoked
    <2>2. ~Expired(refresh_tokens[t], now)
      BY <1>1, <2>1 DEF Expired, Usable
    <2>3. ASSUME NEW p \in Procs, RotateRenew(p), job[p].family = Family(t)
          PROVE  /\ next_id \in Tokens /\ Usable(refresh_tokens', next_id, now')
                 /\ refresh_tokens'[next_id].family = Family(t)
      <3>1. now' = now /\ RefreshExpiry(now) > now
        BY <1>1, <2>3, RenewEffect, Rounding
      <3> QED
        BY <2>3, <3>1, Issue DEF Usable, Unrevoked
    <2> QED
      BY <1>4, <2>1, <2>2, <2>3, RowLost DEF Spent
  <1> QED
    BY <1>3, <1>4

\* SessionEndsForCause (RefreshTokens): a session is lost only to a logout, a reuse, a
\* disabled account, a revocation of all its user's sessions, or time.
THEOREM SessionsEndForCause == Spec => SessionEndsForCause
  <1>1. IInv /\ History /\ [Next]_vars =>
          [\A f \in Tokens :
             FamilyUsable(f) /\ ~FamilyUsable(f)' => now' # now \/ EndsFamily(f)]_vars
    <2> SUFFICES ASSUME IInv, RowsOK, [Next]_vars, NEW f \in Tokens,
                        FamilyUsable(f), ~FamilyUsable(f)', now' = now
                 PROVE  EndsFamily(f)
      BY DEF History
    <2>1. PICK t \in Tokens : Usable(refresh_tokens, t, now) /\ Family(t) = f
      BY DEF FamilyUsable, Family
    <2>2. ~ \E s \in Tokens : Usable(refresh_tokens', s, now') /\ refresh_tokens'[s].family = f
      BY DEF FamilyUsable
    <2> QED
      BY <2>1, <2>2, UsableFate DEF Usable, FamilyOver
  <1> QED
    BY <1>1, HistoryKept, PTL DEF Spec, SessionEndsForCause

----------------------------------------------------------------------------
(* The refinement of Sessions.                                             *)
(*                                                                         *)
(* A session's deadline is the expiry of the row of its family that expires*)
(* last (Latest: there is one while the session is open, which takes an    *)
(* induction of its own).  A step that leaves a family its rows to present *)
(* leaves its session as it was (UndisturbedSame); a row it inserts is the *)
(* family's last to expire (NewRowIsBest); and the steps that revoke leave *)
(* none of the families they name.  What is left is to match each step of  *)
(* TableStep with a step of Sessions.                                      *)

(* Deadlines *)

\* Of the rows of family f that can be presented at n, row t expires last.
Best(table, n, f, t) ==
    /\ Usable(table, t, n) /\ table[t].family = f
    /\ \A s \in Tokens : Usable(table, s, n) /\ table[s].family = f =>
                            table[s].expires_at <= table[t].expires_at

\* A session that is open has a deadline: the row that expires last.
Latest == \A f \in Tokens : FamilyUsable(f) => \E t \in Tokens : Best(refresh_tokens, now, f, t)

\* A row that could be presented before a step and was not inserted by it, or the row
\* the step inserts.
LEMMA UsableBefore ==
    ASSUME IInv, RowsOK, [Next]_vars, NEW t \in Tokens, Usable(refresh_tokens', t, now')
    PROVE  \/ /\ Usable(refresh_tokens, t, now)
              /\ refresh_tokens'[t].family = Family(t)
              /\ refresh_tokens'[t].expires_at = refresh_tokens[t].expires_at
              /\ origin'[t] = origin[t]
           \/ t = next_id /\ \E p \in Procs : LoginCommit(p) \/ RotateRenew(p)
  <1>1. TypeOK /\ now \in Int /\ now' \in Int /\ now' >= now
    BY TimeAndHistory, Rounding DEF IInv, TypeOK
  <1>2. Unrevoked(refresh_tokens', t) /\ refresh_tokens'[t] # NoRow
    BY DEF Usable, Unrevoked
  <1>3. CASE Unrevoked(refresh_tokens, t) /\ t # next_id
    <2>1. refresh_tokens[t].expires_at \in Int
      BY <1>1, <1>3, RowType DEF Unrevoked
    <2> QED
      BY <1>1, <1>2, <1>3, <2>1, RowsStay DEF Usable, Family
  <1>4. t = next_id => ~Unrevoked(refresh_tokens, t)
    BY <1>1 DEF IInv, IdsFresh, TypeOK, Unrevoked, Tokens
  <1> QED
    BY <1>2, <1>3, <1>4, NoRevival

\* A row a step inserts is the one of its family that expires last.
LEMMA NewRowIsBest ==
    ASSUME IInv, RowsOK, [Next]_vars, NEW f, next_id \in Tokens,
           Usable(refresh_tokens', next_id, now'), refresh_tokens'[next_id].family = f
    PROVE  Best(refresh_tokens', now', f, next_id)
  <1>1. TypeOK /\ now \in Instant /\ now \in Int /\ now' \in Int /\ now' >= now
    BY TimeAndHistory, Rounding DEF IInv, TypeOK
  <1>2. \E p \in Procs : LoginCommit(p) \/ RotateRenew(p)
    <2>1. ~Usable(refresh_tokens, next_id, now)
      BY <1>1 DEF IInv, IdsFresh, TypeOK, Usable, Unrevoked
    <2> QED
      BY <2>1, UsableBefore
  <1>3. refresh_tokens'[next_id].expires_at = RefreshExpiry(now)
    BY <1>2, Issue
  <1>4. ASSUME NEW s \in Tokens, Usable(refresh_tokens', s, now'), refresh_tokens'[s].family = f
        PROVE  refresh_tokens'[s].expires_at <= RefreshExpiry(now)
    <2>1. CASE s = next_id
      BY <1>1, <1>3, <2>1, Rounding
    <2>2. CASE s # next_id
      <3>1. /\ refresh_tokens'[s].expires_at = refresh_tokens[s].expires_at
            /\ refresh_tokens[s] # NoRow
        BY <1>4, <2>2, UsableBefore DEF Usable, Unrevoked
      <3>2. refresh_tokens[s].expires_at = RefreshExpiry(origin[s].at) /\ origin[s].at <= now
        BY <3>1 DEF RowsOK
      <3>3. origin[s].at \in Instant
        BY <1>1, RowType
      <3> QED
        BY <1>1, <3>1, <3>2, <3>3, Rounding
    <2> QED
      BY <2>1, <2>2
  <1> QED
    BY <1>3, <1>4 DEF Best

LEMMA LatestStep ==
    ASSUME IInv, RowsOK, Latest, [Next]_vars
    PROVE  Latest'
  <1> SUFFICES ASSUME NEW f \in Tokens, NEW r \in Tokens, Usable(refresh_tokens', r, now'),
                      refresh_tokens'[r].family = f
               PROVE  \E t \in Tokens : Best(refresh_tokens', now', f, t)
    BY DEF Latest, FamilyUsable
  <1>1. TypeOK /\ now \in Instant /\ now \in Int /\ now' \in Int /\ now' >= now
    BY TimeAndHistory, Rounding DEF IInv, TypeOK
  <1>2. CASE next_id \in Tokens /\ Usable(refresh_tokens', next_id, now')
             /\ refresh_tokens'[next_id].family = f
    BY <1>2, NewRowIsBest
  <1>3. CASE ~(next_id \in Tokens /\ Usable(refresh_tokens', next_id, now')
               /\ refresh_tokens'[next_id].family = f)
    <2>1. \A s \in Tokens : Usable(refresh_tokens', s, now') /\ refresh_tokens'[s].family = f =>
             /\ Usable(refresh_tokens, s, now) /\ Family(s) = f
             /\ refresh_tokens'[s].expires_at = refresh_tokens[s].expires_at
      BY <1>3, UsableBefore
    <2>2. FamilyUsable(f)
      BY <2>1 DEF FamilyUsable, Family
    <2>3. PICK t \in Tokens : Best(refresh_tokens, now, f, t)
      BY <2>2 DEF Latest
    <2>4. refresh_tokens[t].expires_at > now'
      <3>1. /\ refresh_tokens[t].expires_at \in Int
            /\ refresh_tokens[r].expires_at \in Int
            /\ refresh_tokens[r].expires_at <= refresh_tokens[t].expires_at
            /\ refresh_tokens[r].expires_at > now'
        BY <1>1, <2>1, <2>3, RowType DEF Best, Family, Usable, Unrevoked
      <3> QED
        BY <1>1, <3>1
    <2>5. /\ Usable(refresh_tokens', t, now') /\ refresh_tokens'[t].family = f
          /\ refresh_tokens'[t].expires_at = refresh_tokens[t].expires_at
      <3>1. ~FamilyOver(f)
        BY DEF FamilyOver, Usable
      <3>2. Usable(refresh_tokens, t, now) /\ Family(t) = f
        BY <2>3 DEF Best, Family
      <3> QED
        BY <1>3, <2>4, <3>1, <3>2, UsableFate
    <2>6. \A s \in Tokens : Usable(refresh_tokens', s, now') /\ refresh_tokens'[s].family = f =>
             refresh_tokens'[s].expires_at <= refresh_tokens'[t].expires_at
      BY <2>1, <2>3, <2>5 DEF Best, Family
    <2> QED
      BY <2>5, <2>6 DEF Best
  <1> QED
    BY <1>2, <1>3

LEMMA TheLargest ==
    ASSUME NEW S, S \subseteq Int, NEW m \in S, \A e \in S : e <= m
    PROVE  (CHOOSE d \in S : \A e \in S : e <= d) = m
  <1>1. ASSUME NEW d \in S, \A e \in S : e <= d
        PROVE  d = m
    <2>1. d <= m /\ m <= d /\ d \in Int /\ m \in Int
      BY <1>1
    <2> QED
      BY <2>1
  <1> QED
    BY <1>1

LEMMA ExpiryType ==
    ASSUME NEW table \in Table, NEW s \in Tokens, NEW n, Usable(table, s, n)
    PROVE  table[s].expires_at \in Int
  <1>1. table[s] \in Row
    BY DEF Usable, Unrevoked, Table
  <1>2. \A row \in Row : row.expires_at \in Int
    BY BoundsAssumption, TtlAssumption DEF Row, Time
  <1> QED
    BY <1>1, <1>2

\* The deadline of a session before and after a step, read from the table.
LEMMA DeadlineBefore ==
    ASSUME TypeOK, NEW f \in Tokens, NEW t \in Tokens, Best(refresh_tokens, now, f, t)
    PROVE  FamilyUsable(f) /\ DeadlineOf(f) = refresh_tokens[t].expires_at
  <1>1. \A s \in Tokens : Usable(refresh_tokens, s, now) => refresh_tokens[s].expires_at \in Int
    BY ExpiryType DEF TypeOK
  <1>2. FamilyUsable(f)
    BY DEF Best, FamilyUsable
  <1>3. /\ UsableExpiries(f) \subseteq Int
        /\ refresh_tokens[t].expires_at \in UsableExpiries(f)
        /\ \A e \in UsableExpiries(f) : e <= refresh_tokens[t].expires_at
    BY <1>1 DEF UsableExpiries, Best
  <1>4. (CHOOSE d \in UsableExpiries(f) : \A e \in UsableExpiries(f) : e <= d)
           = refresh_tokens[t].expires_at
    BY <1>3, TheLargest
  <1> QED
    BY <1>2, <1>4 DEF DeadlineOf

LEMMA DeadlineAfter ==
    ASSUME TypeOK', NEW f \in Tokens, NEW t \in Tokens, Best(refresh_tokens', now', f, t)
    PROVE  FamilyUsable(f)' /\ DeadlineOf(f)' = refresh_tokens'[t].expires_at
  <1>1. \A s \in Tokens : Usable(refresh_tokens', s, now') => refresh_tokens'[s].expires_at \in Int
    BY ExpiryType DEF TypeOK
  <1>2. FamilyUsable(f)'
    BY DEF Best, FamilyUsable
  <1>3. /\ UsableExpiries(f)' \subseteq Int
        /\ refresh_tokens'[t].expires_at \in UsableExpiries(f)'
        /\ \A e \in UsableExpiries(f)' : e <= refresh_tokens'[t].expires_at
    BY <1>1 DEF UsableExpiries, Best
  <1>4. (CHOOSE d \in UsableExpiries(f)' : \A e \in UsableExpiries(f)' : e <= d)
           = refresh_tokens'[t].expires_at
    BY <1>3, TheLargest
  <1> QED
    BY <1>2, <1>4 DEF DeadlineOf

----------------------------------------------------------------------------
(* What a step leaves of a session *)

\* Family f has the same rows to present after the step as before it.
Undisturbed(f) ==
    \A t \in Tokens :
        /\ Usable(refresh_tokens', t, now') /\ refresh_tokens'[t].family = f
              <=> Usable(refresh_tokens, t, now) /\ Family(t) = f
        /\ Usable(refresh_tokens, t, now) /\ Family(t) = f =>
              refresh_tokens'[t].expires_at = refresh_tokens[t].expires_at

Same(f) == (FamilyUsable(f)' <=> FamilyUsable(f)) /\ DeadlineOf(f)' = DeadlineOf(f)

LEMMA UndisturbedSame ==
    ASSUME TypeOK, TypeOK', Latest, NEW f \in Tokens, Undisturbed(f)
    PROVE  Same(f)
  <1>1. FamilyUsable(f)' <=> FamilyUsable(f)
    BY DEF Undisturbed, FamilyUsable, Family
  <1>2. CASE ~FamilyUsable(f)
    BY <1>1, <1>2 DEF Same, DeadlineOf
  <1>3. CASE FamilyUsable(f)
    <2>1. PICK t \in Tokens : Best(refresh_tokens, now, f, t)
      BY <1>3 DEF Latest
    <2>2. Best(refresh_tokens', now', f, t)
      BY <2>1 DEF Best, Undisturbed, Family
    <2>3. refresh_tokens'[t].expires_at = refresh_tokens[t].expires_at
      BY <2>1 DEF Best, Undisturbed, Family
    <2> QED
      BY <1>1, <2>1, <2>2, <2>3, DeadlineBefore, DeadlineAfter DEF Same
  <1> QED
    BY <1>2, <1>3

\* Nothing of a session changes but its status and its deadline, and of these only
\* what the step says.
OwnerOf(f) == IF Opened(f) THEN origin[f].user ELSE NULL

Kept(f) == StatusOf(f)' = StatusOf(f) /\ OwnerOf(f)' = OwnerOf(f) /\ DeadlineOf(f)' = DeadlineOf(f)
GivenDeadline(f) == \E d \in {now + TTL, now + TTL + 1} : DeadlineOf(f)' = d
Closed(f) == StatusOf(f)' = "ended" /\ OwnerOf(f)' = OwnerOf(f) /\ DeadlineOf(f)' = 0

LEMMA MapsToStutter ==
    ASSUME now' = now, \A f \in Tokens : Kept(f)
    PROVE  UNCHANGED Session!sessionVars
  BY DEF Kept, OwnerOf, Session!sessionVars

LEMMA MapsToOpen ==
    ASSUME now' = now, NEW n \in Tokens, NEW u \in Users, StatusOf(n) = "unused",
           StatusOf(n)' = "open", OwnerOf(n)' = u, GivenDeadline(n),
           \A f \in Tokens \ {n} : Kept(f)
    PROVE  Session!Open(n, u)
  BY DEF Kept, OwnerOf, GivenDeadline, Session!Open, Session!NewDeadline

LEMMA MapsToRenew ==
    ASSUME now' = now, NEW n \in Tokens, StatusOf(n) = "open", StatusOf(n)' = "open",
           OwnerOf(n)' = OwnerOf(n), GivenDeadline(n), \A f \in Tokens \ {n} : Kept(f)
    PROVE  Session!Renew(n)
  BY DEF Kept, OwnerOf, GivenDeadline, Session!Renew, Session!NewDeadline

LEMMA MapsToEnd ==
    ASSUME now' = now, NEW n \in Tokens, StatusOf(n) = "open", Closed(n),
           \A f \in Tokens \ {n} : Kept(f)
    PROVE  Session!End(n)
  BY DEF Kept, Closed, OwnerOf, Session!End, Session!Ended

LEMMA MapsToEndAll ==
    ASSUME now' = now, NEW u \in Users,
           \A f \in Tokens : IF StatusOf(f) = "open" /\ OwnerOf(f) = u THEN Closed(f) ELSE Kept(f)
    PROVE  Session!EndAll(u)
  BY DEF Kept, Closed, OwnerOf, Session!EndAll, Session!Ended, Session!OpenSessions

LEMMA MapsToTick ==
    ASSUME now < MaxClock, now' = now + 1,
           \A f \in Tokens : IF StatusOf(f) = "open" /\ DeadlineOf(f) <= now + 1
                             THEN Closed(f) ELSE Kept(f)
    PROVE  Session!Tick
  BY DEF Kept, Closed, OwnerOf, Session!Tick, Session!Ended, Session!OpenSessions

\* The clock moves only by ticking.
LEMMA OnlyTicks ==
    ASSUME [Next]_vars
    PROVE  now' = now \/ Tick
  <1>1. ASSUME NEW p \in Procs,
               \/ \E t \in Tokens : RotateLookup(p, t)
               \/ \E u \in Users : DisableUser(p, u) \/ LoginRead(p, u)
               \/ LockFamily(p) \/ LoginFailsAfterSweep(p) \/ Abort(p)
        PROVE  now' = now
    BY <1>1 DEF RotateLookup, DisableUser, LoginRead, LockFamily, LoginFailsAfterSweep, Abort
  <1>2. ASSUME NEW p \in Procs, RotateCommit(p) \/ DisableUserRevoke(p) \/ LoginCommit(p)
        PROVE  now' = now
    BY <1>2 DEF RotateCommit, RotateRowMissing, RotateTheft, RotateExpired, RotateInactive,
                RotateRenew, DisableUserRevoke, LoginCommit
  <1>3. ASSUME \/ \E t \in Tokens : Logout(t)
               \/ \E u \in Users : RevokeAllForUser(u) \/ EnableUser(u)
        PROVE  now' = now
    BY <1>3 DEF Logout, RevokeAllForUser, EnableUser
  <1> QED
    BY <1>1, <1>2, <1>3 DEF Next, Progress, vars

\* Who opened a session, and whether anybody did, is settled by its login.
LEMMA SameKept ==
    ASSUME NEW f \in Tokens, Same(f),
           \/ origin'[f] = origin[f]
           \/ ~Opened(f) /\ origin'[f].kind # "login"
    PROVE  Kept(f)
  BY DEF Same, Kept, StatusOf, OwnerOf, Opened

LEMMA EndedClosed ==
    ASSUME NEW f \in Tokens, ~FamilyUsable(f)', origin'[f] = origin[f]
    PROVE  /\ StatusOf(f) = "open" => Closed(f)
           /\ ~FamilyUsable(f) => Kept(f)
  BY DEF Closed, Kept, StatusOf, OwnerOf, Opened, DeadlineOf

\* A family with a row to present has been opened.
LEMMA UsableOpened ==
    ASSUME RowsOK, NEW f \in Tokens, FamilyUsable(f)
    PROVE  Opened(f) /\ StatusOf(f) = "open"
  BY DEF RowsOK, FamilyUsable, Usable, Unrevoked, Family, StatusOf

\* The updates that leave every family its rows to present: a token stamped after its
\* expiry, expired rows swept.
LEMMA ExpiredUndisturbed ==
    ASSUME IInv, NEW f \in Tokens,
           \/ \E p \in Procs : RotateExpired(p) /\ Revoking({job[p].token})
           \/ \E u \in Users : Sweeping(u)
    PROVE  Undisturbed(f)
  <1>1. TypeOK /\ now' = now /\ now \in Int
    BY Rounding DEF IInv, TypeOK, Revoking, Sweeping
  <1>2. ASSUME NEW t \in Tokens, Usable(refresh_tokens, t, now) \/ Usable(refresh_tokens', t, now)
        PROVE  refresh_tokens'[t] = refresh_tokens[t]
    <2>1. ASSUME NEW p \in Procs, RotateExpired(p), Revoking({job[p].token})
          PROVE  refresh_tokens'[t] = refresh_tokens[t]
      <3>1. CASE t # job[p].token
        BY <1>1, <2>1, <3>1, RevokeFacts DEF Revoking
      <3>2. CASE t = job[p].token
        <4>1. refresh_tokens[t].expires_at <= now /\ refresh_tokens[t] # NoRow
          BY <2>1, <3>2, LockedRotation DEF RotateExpired, PresentedRow, Expired
        <4>2. refresh_tokens'[t].expires_at <= now
          BY <1>1, <2>1, <4>1, RevokeFacts DEF Revoking
        <4>3. refresh_tokens[t].expires_at \in Int
          BY <1>1, <4>1, RowType
        <4> QED
          BY <1>1, <1>2, <2>1, <4>1, <4>2, <4>3, RevokeFacts DEF Usable, Revoking
      <3> QED
        BY <3>1, <3>2
    <2>2. ASSUME NEW u \in Users, Sweeping(u)
          PROVE  refresh_tokens'[t] = refresh_tokens[t]
      <3>1. refresh_tokens'[t] # NoRow => refresh_tokens'[t] = refresh_tokens[t]
        BY <1>1, <2>2, SweptFacts DEF Sweeping
      <3>2. refresh_tokens'[t] = NoRow => ~Usable(refresh_tokens, t, now)
        <4>1. refresh_tokens[t] # NoRow => refresh_tokens[t].expires_at \in Int
          BY <1>1, RowType
        <4> QED
          BY <1>1, <2>2, <4>1 DEF Sweeping, Swept, Usable, Unrevoked
      <3> QED
        BY <1>2, <3>1, <3>2 DEF Usable, Unrevoked
    <2> QED
      BY <2>1, <2>2
  <1> QED
    BY <1>1, <1>2 DEF Undisturbed, Usable, Unrevoked, Family

\* Revoking rows of other families.
LEMMA OthersUndisturbed ==
    ASSUME IInv, NEW f \in Tokens, NEW S, Revoking(S),
           \A t \in S \cap Tokens : Usable(refresh_tokens, t, now) => Family(t) # f
    PROVE  Undisturbed(f)
  <1>1. TypeOK /\ now' = now
    BY DEF IInv, Revoking
  <1>2. ASSUME NEW t \in Tokens
        PROVE  /\ Usable(refresh_tokens', t, now') /\ refresh_tokens'[t].family = f
                     <=> Usable(refresh_tokens, t, now) /\ Family(t) = f
               /\ Usable(refresh_tokens, t, now) /\ Family(t) = f =>
                     refresh_tokens'[t].expires_at = refresh_tokens[t].expires_at
    <2>1. CASE t \notin S
      BY <1>1, <2>1, RevokeFacts DEF Revoking, Usable, Unrevoked, Family
    <2>2. CASE t \in S
      BY <1>1, <2>2, RevokeFacts DEF Revoking, Usable, Family
    <2> QED
      BY <2>1, <2>2
  <1> QED
    BY <1>2 DEF Undisturbed

\* The rows of the families an insertion does not add to.
LEMMA InsertUndisturbed ==
    ASSUME IInv, RowsOK, [Next]_vars, NEW p \in Procs, LoginCommit(p) \/ RotateRenew(p),
           NEW f \in Tokens, f # refresh_tokens'[next_id].family
    PROVE  Undisturbed(f)
  <1>1. /\ TypeOK /\ now' = now /\ now \in Int
        /\ next_id \in Tokens /\ refresh_tokens[next_id] = NoRow
    BY LoginEffect, RenewEffect, Rounding DEF IInv, TypeOK
  <1>2. ASSUME NEW t \in Tokens, Usable(refresh_tokens', t, now'), refresh_tokens'[t].family = f
        PROVE  Usable(refresh_tokens, t, now) /\ Family(t) = f
    BY <1>2, UsableBefore
  <1>3. ASSUME NEW t \in Tokens, Usable(refresh_tokens, t, now), Family(t) = f
        PROVE  /\ Usable(refresh_tokens', t, now') /\ refresh_tokens'[t].family = f
               /\ refresh_tokens'[t].expires_at = refresh_tokens[t].expires_at
    <2>1. t # next_id /\ refresh_tokens[t].expires_at \in Int
      BY <1>1, <1>3, RowType DEF Usable, Unrevoked
    <2>2. CASE LoginCommit(p)
      <3>1. refresh_tokens'[t] = Swept(job[p].user)[t]
        BY <2>1, <2>2, LoginEffect
      <3>2. refresh_tokens'[t] = refresh_tokens[t]
        BY <1>1, <1>3, <2>1, <3>1 DEF Swept, Usable
      <3> QED
        BY <1>1, <1>3, <3>2 DEF Family, Usable, Unrevoked
    <2>3. CASE RotateRenew(p)
      <3>1. refresh_tokens'[t] = Revoke(SpentBy(p))[t]
        BY <2>1, <2>3, RenewEffect
      <3>2. t \notin SpentBy(p)
        <4>1. refresh_tokens'[next_id].family = job[p].family
          BY <2>3, Issue
        <4> QED
          BY <1>3, <2>3, <4>1, LockedRotation DEF RotateRenew, SpentBy, PresentedRow, Family
      <3>3. refresh_tokens'[t] = refresh_tokens[t]
        BY <1>1, <3>1, <3>2, RevokeFacts
      <3> QED
        BY <1>1, <1>3, <3>3 DEF Family, Usable, Unrevoked
    <2> QED
      BY <2>2, <2>3
  <1> QED
    BY <1>2, <1>3 DEF Undisturbed

----------------------------------------------------------------------------
(* Steps of the table are steps of the sessions *)

\* What the step of the table is to its sessions.
SessionStep == Session!Next \/ UNCHANGED Session!sessionVars

LEMMA TickMaps ==
    ASSUME TypeOK, TypeOK', RowsOK, Latest, Tick
    PROVE  Session!Tick
  <1>1. /\ now < MaxClock /\ now' = now + 1 /\ now \in Int
        /\ refresh_tokens' = refresh_tokens /\ origin' = origin
    BY Rounding DEF Tick, dbVars, TypeOK
  <1>2. ASSUME NEW t \in Tokens
        PROVE  Usable(refresh_tokens', t, now') <=>
                  Usable(refresh_tokens, t, now) /\ refresh_tokens[t].expires_at > now + 1
    <2>1. refresh_tokens[t] # NoRow => refresh_tokens[t].expires_at \in Int
      BY RowType
    <2> QED
      BY <1>1, <2>1 DEF Usable, Unrevoked
  <1>3. ASSUME NEW f \in Tokens
        PROVE  IF StatusOf(f) = "open" /\ DeadlineOf(f) <= now + 1 THEN Closed(f) ELSE Kept(f)
    <2>1. CASE ~FamilyUsable(f)
      <3>1. ~FamilyUsable(f)' /\ StatusOf(f) # "open"
        BY <1>1, <1>2, <2>1 DEF FamilyUsable, StatusOf
      <3> QED
        BY <1>1, <2>1, <3>1, EndedClosed
    <2>2. CASE FamilyUsable(f)
      <3>1. PICK t \in Tokens : Best(refresh_tokens, now, f, t)
        BY <2>2 DEF Latest
      <3>2. DeadlineOf(f) = refresh_tokens[t].expires_at /\ refresh_tokens[t].expires_at \in Int
        BY <3>1, DeadlineBefore, RowType DEF Best, Usable, Unrevoked
      <3>3. CASE refresh_tokens[t].expires_at <= now + 1
        <4>1. ASSUME NEW s \in Tokens, Usable(refresh_tokens', s, now'),
                     refresh_tokens'[s].family = f
              PROVE  FALSE
          <5>1. /\ refresh_tokens[s].expires_at <= refresh_tokens[t].expires_at
                /\ refresh_tokens[s].expires_at > now + 1
                /\ refresh_tokens[s].expires_at \in Int
            BY <1>1, <1>2, <3>1, <4>1, RowType DEF Best, Usable, Unrevoked
          <5> QED
            BY <1>1, <3>2, <3>3, <5>1
        <4>2. ~FamilyUsable(f)'
          BY <4>1 DEF FamilyUsable
        <4>3. Closed(f)
          BY <1>1, <2>2, <4>2, UsableOpened, EndedClosed
        <4> QED
          BY <2>2, <3>2, <3>3, <4>3, UsableOpened
      <3>4. CASE ~(refresh_tokens[t].expires_at <= now + 1)
        <4>1. Best(refresh_tokens', now', f, t)
          <5>1. refresh_tokens[t].expires_at > now + 1
            BY <1>1, <3>2, <3>4
          <5> QED
            BY <1>1, <1>2, <3>1, <5>1 DEF Best
        <4>2. Same(f)
          BY <1>1, <2>2, <3>2, <4>1, DeadlineAfter DEF Same
        <4> QED
          BY <1>1, <3>2, <3>4, <4>2, SameKept
      <3> QED
        BY <3>3, <3>4
    <2> QED
      BY <2>1, <2>2
  <1> QED
    BY <1>1, <1>3, MapsToTick

\* One family is revoked.
LEMMA EndMaps ==
    ASSUME IInv, TypeOK', RowsOK, Latest, NEW f \in Tokens, Revoking(UnrevokedOf(f))
    PROVE  SessionStep
  <1>1. TypeOK /\ now' = now /\ origin' = origin
    BY DEF IInv, Revoking
  <1>2. ASSUME NEW g \in Tokens \ {f}
        PROVE  Kept(g)
    <2>1. Undisturbed(g)
      BY OthersUndisturbed DEF UnrevokedOf
    <2> QED
      BY <1>1, <2>1, UndisturbedSame, SameKept
  <1>3. ~FamilyUsable(f)'
    BY <1>1, FamilyEnds DEF FamilyUsable, Usable
  <1>4. CASE StatusOf(f) = "open"
    <2>1. Closed(f)
      BY <1>1, <1>3, <1>4, EndedClosed
    <2>2. Session!End(f)
      BY <1>1, <1>2, <1>4, <2>1, MapsToEnd
    <2> QED
      BY <2>2 DEF SessionStep, Session!Next
  <1>5. CASE StatusOf(f) # "open"
    <2>1. Kept(f)
      BY <1>1, <1>3, <1>5, EndedClosed, UsableOpened
    <2>2. UNCHANGED Session!sessionVars
      BY <1>1, <1>2, <2>1, MapsToStutter
    <2> QED
      BY <2>2 DEF SessionStep
  <1> QED
    BY <1>4, <1>5

\* All the sessions of a user are revoked.
LEMMA EndAllMaps ==
    ASSUME IInv, TypeOK', RowsOK, Latest, NEW u \in Users, Revoking(UnrevokedOfUser(u))
    PROVE  Session!EndAll(u)
  <1>1. TypeOK /\ now' = now /\ origin' = origin
    BY DEF IInv, Revoking
  <1>2. ASSUME NEW f \in Tokens, FamilyUsable(f), OwnerOf(f) = u
        PROVE  Closed(f)
    <2>1. PICK t \in Tokens : Unrevoked(refresh_tokens, t) /\ Family(t) = f
      BY <1>2 DEF FamilyUsable, Usable, Family
    <2>2. refresh_tokens[t].user = u /\ refresh_tokens[t] # NoRow
      BY <1>2, <2>1, UsableOpened DEF RowsOK, OwnerOf, Unrevoked
    <2>3. ~FamilyUsable(f)'
      BY <2>1, <2>2, UserSessionsEnd DEF FamilyUsable, Usable
    <2> QED
      BY <1>1, <1>2, <2>3, UsableOpened, EndedClosed
  <1>3. ASSUME NEW f \in Tokens, ~(FamilyUsable(f) /\ OwnerOf(f) = u)
        PROVE  Kept(f)
    <2>1. ASSUME NEW t \in UnrevokedOfUser(u) \cap Tokens, Usable(refresh_tokens, t, now),
                 Family(t) = f
          PROVE  FALSE
      BY <1>3, <2>1 DEF RowsOK, UnrevokedOfUser, Unrevoked, FamilyUsable, Family, OwnerOf
    <2>2. Undisturbed(f)
      BY <2>1, OthersUndisturbed
    <2> QED
      BY <1>1, <2>2, UndisturbedSame, SameKept
  <1>4. \A f \in Tokens : StatusOf(f) = "open" <=> FamilyUsable(f)
    BY UsableOpened DEF StatusOf
  <1> QED
    BY <1>1, <1>2, <1>3, <1>4, MapsToEndAll

\* A sign-in opens a session.
LEMMA LoginMaps ==
    ASSUME IInv, TypeOK', RowsOK, Latest, [Next]_vars, NEW p \in Procs, LoginCommit(p)
    PROVE  SessionStep
  <1>1. TypeOK /\ now' = now /\ now \in Instant /\ now \in Int
    BY LoginEffect, Rounding DEF IInv, TypeOK
  <1>2. PICK n \in Tokens : n = next_id
    BY LoginEffect
  <1>3. /\ origin[n] = NoOrigin /\ job[p].user \in Users
        /\ origin'[n].kind = "login" /\ origin'[n].user = job[p].user
        /\ refresh_tokens'[n].family = n
        /\ \A f \in Tokens \ {n} : origin'[f] = origin[f]
    BY <1>2, LoginEffect, Issue
  <1>4. Usable(refresh_tokens', n, now') /\ refresh_tokens'[n].expires_at = RefreshExpiry(now)
    <2>1. RefreshExpiry(now) > now
      BY <1>1, Rounding
    <2> QED
      BY <1>1, <1>2, <2>1, Issue DEF Usable, Unrevoked
  <1>5. FamilyUsable(n)' /\ DeadlineOf(n)' = RefreshExpiry(now)
    <2>1. Best(refresh_tokens', now', n, n)
      BY <1>2, <1>3, <1>4, NewRowIsBest
    <2> QED
      BY <1>4, <2>1, DeadlineAfter
  <1>6. ASSUME NEW f \in Tokens \ {n}
        PROVE  Kept(f)
    <2>1. Undisturbed(f)
      BY <1>2, <1>3, <1>6, InsertUndisturbed
    <2> QED
      BY <1>1, <1>3, <2>1, UndisturbedSame, SameKept
  <1>7. StatusOf(n) = "unused"
    BY <1>3 DEF StatusOf, Opened, NoOrigin
  <1>8. Opened(n)' /\ StatusOf(n)' = "open" /\ OwnerOf(n)' = job[p].user
    BY <1>3, <1>5 DEF StatusOf, OwnerOf, Opened
  <1>9. GivenDeadline(n)
    BY <1>1, <1>5, Rounding DEF GivenDeadline
  <1>10. PICK u \in Users : u = job[p].user
    BY <1>3
  <1>11. Session!Open(n, u)
    BY <1>1, <1>6, <1>7, <1>8, <1>9, <1>10, MapsToOpen
  <1> QED
    BY <1>11 DEF SessionStep, Session!Next

\* A renewal renews the session of its family, which is open.
LEMMA RenewMaps ==
    ASSUME IInv, TypeOK', RowsOK, Latest, [Next]_vars, NEW p \in Procs, RotateRenew(p)
    PROVE  SessionStep
  <1>1. TypeOK /\ now' = now /\ now \in Instant /\ now \in Int
    BY RenewEffect, Rounding DEF IInv, TypeOK
  <1>2. PICK n \in Tokens : n = job[p].family
    BY LockedRotation DEF RotateRenew
  <1>3. /\ next_id \in Tokens /\ origin[next_id] = NoOrigin
        /\ origin'[next_id].kind # "login"
        /\ refresh_tokens'[next_id].family = n
        /\ \A f \in Tokens \ {next_id} : origin'[f] = origin[f]
    BY <1>2, RenewEffect, Issue
  <1>4. /\ Usable(refresh_tokens', next_id, now')
        /\ refresh_tokens'[next_id].expires_at = RefreshExpiry(now)
    <2>1. RefreshExpiry(now) > now
      BY <1>1, Rounding
    <2> QED
      BY <1>1, <2>1, Issue DEF Usable, Unrevoked
  <1>5. FamilyUsable(n)' /\ DeadlineOf(n)' = RefreshExpiry(now)
    <2>1. Best(refresh_tokens', now', n, next_id)
      BY <1>3, <1>4, NewRowIsBest
    <2> QED
      BY <1>3, <1>4, <2>1, DeadlineAfter
  <1>6. ASSUME NEW f \in Tokens \ {n}
        PROVE  Kept(f)
    <2>1. Undisturbed(f)
      BY <1>3, <1>6, InsertUndisturbed
    <2>2. \/ origin'[f] = origin[f]
          \/ ~Opened(f) /\ origin'[f].kind # "login"
      BY <1>3 DEF Opened, NoOrigin
    <2> QED
      BY <1>1, <2>1, <2>2, UndisturbedSame, SameKept
  <1>7. FamilyUsable(n)
    <2>1. /\ job[p].token \in Tokens
          /\ \A t \in Tokens : seen[p][t] # NoRow =>
                seen[p][t] = refresh_tokens[t] /\ refresh_tokens[t].family = n
      BY <1>2, LockedRotation DEF RotateRenew
    <2>2. CASE PresentedRow(p).revoked_at = NULL
      <3>1. PresentedRow(p) = refresh_tokens[job[p].token] /\ refresh_tokens[job[p].token] # NoRow
        BY <2>1 DEF RotateRenew, PresentedRow
      <3>2. refresh_tokens[job[p].token].expires_at \in Int
        BY <1>1, <2>1, <3>1, RowType
      <3>3. refresh_tokens[job[p].token].expires_at > now
        BY <1>1, <3>1, <3>2 DEF RotateRenew, Expired
      <3> QED
        BY <2>1, <2>2, <3>1, <3>3 DEF FamilyUsable, Usable, Unrevoked, PresentedRow, RotateRenew
    <2>3. CASE PresentedRow(p).revoked_at # NULL
      <3>1. PICK t \in Tokens : Usable(seen[p], t, now)
        BY <2>3 DEF RotateRenew, PassesReuseTest, IsBenignRotationRace
      <3> QED
        BY <2>1, <3>1 DEF FamilyUsable, Usable, Unrevoked
    <2> QED
      BY <2>2, <2>3
  <1>8. StatusOf(n) = "open" /\ Opened(n) /\ n # next_id
    BY <1>3, <1>7, UsableOpened DEF Opened, NoOrigin
  <1>9. StatusOf(n)' = "open" /\ OwnerOf(n)' = OwnerOf(n)
    BY <1>3, <1>5, <1>8 DEF StatusOf, OwnerOf, Opened
  <1>10. GivenDeadline(n)
    BY <1>1, <1>5, Rounding DEF GivenDeadline
  <1>11. Session!Renew(n)
    BY <1>1, <1>6, <1>8, <1>9, <1>10, MapsToRenew
  <1> QED
    BY <1>11 DEF SessionStep, Session!Next

LEMMA StepMaps ==
    ASSUME IInv, IInv', RowsOK, Latest, [Next]_vars
    PROVE  SessionStep
  <1>1. TypeOK /\ TypeOK'
    BY DEF IInv
  <1>2. CASE Tick
    BY <1>1, <1>2, TickMaps DEF SessionStep, Session!Next
  <1>3. CASE Quiet /\ now' = now
    <2>1. \A f \in Tokens : Undisturbed(f) /\ origin'[f] = origin[f]
      BY <1>3 DEF Quiet, Undisturbed, Family
    <2>2. \A f \in Tokens : Kept(f)
      BY <1>1, <2>1, UndisturbedSame, SameKept
    <2> QED
      BY <1>3, <2>2, MapsToStutter DEF SessionStep
  <1>4. ASSUME NEW p \in Procs, RotateTheft(p) \/ RotateInactive(p),
               Revoking(UnrevokedOf(job[p].family))
        PROVE  SessionStep
    <2>1. PICK f \in Tokens : f = job[p].family
      BY <1>4, LockedRotation DEF RotateTheft, RotateInactive
    <2> QED
      BY <1>1, <1>4, <2>1, EndMaps
  <1>5. ASSUME NEW t \in Tokens, refresh_tokens[t] # NoRow, Revoking(UnrevokedOf(Family(t)))
        PROVE  SessionStep
    <2>1. PICK f \in Tokens : f = Family(t)
      BY <1>5 DEF RowsOK
    <2> QED
      BY <1>1, <1>5, <2>1, EndMaps
  <1>6. ASSUME NEW u \in Users, Revoking(UnrevokedOfUser(u))
        PROVE  SessionStep
    BY <1>1, <1>6, EndAllMaps DEF SessionStep, Session!Next
  <1>7. CASE \/ \E p \in Procs : RotateExpired(p) /\ Revoking({job[p].token})
             \/ \E u \in Users : Sweeping(u)
    <2>1. now' = now /\ origin' = origin
      BY <1>7 DEF Revoking, Sweeping
    <2>2. ASSUME NEW f \in Tokens
          PROVE  Kept(f)
      <3>1. Undisturbed(f)
        BY <1>7, ExpiredUndisturbed
      <3> QED
        BY <1>1, <2>1, <3>1, UndisturbedSame, SameKept
    <2> QED
      BY <2>1, <2>2, MapsToStutter DEF SessionStep
  <1>8. ASSUME NEW p \in Procs, LoginCommit(p) \/ RotateRenew(p)
        PROVE  SessionStep
    BY <1>1, <1>8, LoginMaps, RenewMaps
  <1> QED
    BY <1>2, <1>3, <1>4, <1>5, <1>6, <1>7, <1>8, OnlyTicks, TableStep

LEMMA InitMaps ==
    ASSUME Init
    PROVE  Session!Init /\ Latest
  <1>1. \A t \in Tokens : refresh_tokens[t] = NoRow /\ origin[t].kind = "none" /\ now = 0
    BY DEF Init, EmptyTable, NoOrigin
  <1>2. \A f \in Tokens : ~FamilyUsable(f) /\ ~Opened(f)
    BY <1>1 DEF FamilyUsable, Usable, Unrevoked, Opened
  <1>3. /\ now = 0
        /\ \A f \in Tokens : StatusOf(f) = "unused" /\ DeadlineOf(f) = 0
    BY <1>2 DEF StatusOf, DeadlineOf, Init
  <1> QED
    BY <1>2, <1>3 DEF Session!Init, Latest

\* ImplementsSessions (RefreshTokens): the table, its locks and its transactions
\* implement sessions that open once, are renewed only while they are open, end one by
\* one, all of a user's together or with time, and stay ended.
THEOREM TableImplementsSessions == Spec => ImplementsSessions
  <1>1. Init => Session!Init /\ Latest
    BY InitMaps
  <1>2. IInv /\ History /\ Latest /\ [Next]_vars => Latest'
    BY LatestStep DEF History
  <1>3. IInv /\ IInv' /\ History /\ Latest /\ [Next]_vars => [Session!Next]_(Session!sessionVars)
    BY StepMaps DEF SessionStep, History
  <1> QED
    BY <1>1, <1>2, <1>3, HistoryKept, PTL DEF Spec, ImplementsSessions, Session!Spec

=============================================================================
