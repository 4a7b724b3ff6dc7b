------------------------------ MODULE Sessions ------------------------------
(***************************************************************************)
(* What the refresh-token service promises of signed-in devices, with no   *)
(* rows, no locks and no requests: a session is opened once, may be renewed*)
(* while it is open and not past its deadline, and once it has ended never *)
(* opens again.                                                            *)
(***************************************************************************)
EXTENDS Integers

CONSTANTS
    Ids,       \* the sessions there may ever be
    Users,     \* their owners
    NoOwner,   \* the owner of a session not opened yet
    MaxClock,  \* bound of the clock
    TTL        \* how long a session lasts without renewal, give or take rounding

VARIABLES now, status, owner, deadline

sessionVars == <<now, status, owner, deadline>>

Init ==
    /\ now = 0
    /\ status = [f \in Ids |-> "unused"]
    /\ owner = [f \in Ids |-> NoOwner]
    /\ deadline = [f \in Ids |-> 0]

\* A new deadline, a lifetime from now, stored in whole seconds.
NewDeadline(f) == \E d \in {now + TTL, now + TTL + 1} : deadline' = [deadline EXCEPT ![f] = d]

\* A sign-in opens a session nobody has used.
Open(f, u) ==
    /\ status[f] = "unused"
    /\ status' = [status EXCEPT ![f] = "open"]
    /\ owner' = [owner EXCEPT ![f] = u]
    /\ NewDeadline(f)
    /\ UNCHANGED now

\* Only a session that is open is renewed, which moves its deadline.
Renew(f) ==
    /\ status[f] = "open"
    /\ NewDeadline(f)
    /\ UNCHANGED <<now, status, owner>>

Ended(S) ==
    /\ status' = [f \in Ids |-> IF f \in S THEN "ended" ELSE status[f]]
    /\ deadline' = [f \in Ids |-> IF f \in S THEN 0 ELSE deadline[f]]

OpenSessions == {f \in Ids : status[f] = "open"}

\* A logout, a reuse of a spent token, a disabled owner: one session ends.
End(f) ==
    /\ status[f] = "open"
    /\ Ended({f})
    /\ UNCHANGED <<now, owner>>

\* A reset or a disabled account: all sessions of one user end, nobody else's.
EndAll(u) ==
    /\ Ended({f \in OpenSessions : owner[f] = u})
    /\ UNCHANGED <<now, owner>>

\* Time passes, and with it the sessions whose deadline has come.
Tick ==
    /\ now < MaxClock
    /\ now' = now + 1
    /\ Ended({f \in OpenSessions : deadline[f] <= now + 1})
    /\ UNCHANGED owner

Next ==
    \/ \E f \in Ids : Renew(f) \/ End(f) \/ \E u \in Users : Open(f, u)
    \/ \E u \in Users : EndAll(u)
    \/ Tick

Spec == Init /\ [][Next]_sessionVars

=============================================================================
