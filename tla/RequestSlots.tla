---------------------------- MODULE RequestSlots ----------------------------
(***************************************************************************)
(* The requests a server has in flight.  Handlers run concurrently, each   *)
(* between two awaits at a time, so a component is a set of slots, each    *)
(* with the phase of its handler and what the handler holds; and a request *)
(* may fail at any await, leaving what it has committed.                   *)
(***************************************************************************)
EXTENDS Integers, FiniteSets, Functions

CONSTANTS
    Procs,         \* request slots
    MaxRequests,   \* bound: requests ever started
    NoJob

ASSUME RequestBounds == MaxRequests \in Nat

VARIABLES
    phase, job,    \* where each request stands, and what it holds
    started,       \* history: requests started
    contended,     \* history: two requests that count as rivals have overlapped
    interrupted    \* history: a request has failed between two of its writes

slotVars == <<phase, job, started, contended, interrupted>>

Serials == 1..MaxRequests

SlotsInit ==
    /\ phase = [p \in Procs |-> "idle"]
    /\ job = [p \in Procs |-> NoJob]
    /\ started = 0
    /\ contended = FALSE
    /\ interrupted = FALSE

SlotsTypeOK ==
    /\ started \in 0..MaxRequests
    /\ {contended, interrupted} \subseteq BOOLEAN
    /\ \A p \in Procs : phase[p] = "idle" <=> job[p] = NoJob

Idle == \A p \in Procs : phase[p] = "idle"

\* The number of the request to come: it names the rows the request inserts.
NextSerial == started + 1

\* A request may begin on the slot.
Free(p) == phase[p] = "idle" /\ started < MaxRequests

InFlight(phases) == {q \in Procs : phase[q] \in phases}

\* The slots in rivals hold requests that write what this one reads, or the reverse.
Start(p, ph, j, rivals) ==
    /\ Free(p)
    /\ started' = NextSerial
    /\ phase' = [phase EXCEPT ![p] = ph]
    /\ job' = [job EXCEPT ![p] = j]
    /\ contended' = (contended \/ rivals # {})
    /\ UNCHANGED interrupted

Goto(p, ph, j) ==
    /\ phase' = [phase EXCEPT ![p] = ph]
    /\ job' = [job EXCEPT ![p] = j]
    /\ UNCHANGED <<started, contended, interrupted>>

Finish(p) == Goto(p, "idle", NoJob)

\* A request of one write, which nothing can come between.
Instant(p) ==
    /\ Free(p)
    /\ started' = NextSerial
    /\ UNCHANGED <<phase, job, contended, interrupted>>

\* The request fails; halfway, if it has written something and not all of it (and a
\* property of the component excepts that).
Fail(p, halfway) ==
    /\ phase[p] # "idle"
    /\ phase' = [phase EXCEPT ![p] = "idle"]
    /\ job' = [job EXCEPT ![p] = NoJob]
    /\ interrupted' = (interrupted \/ halfway)
    /\ UNCHANGED <<started, contended>>

=============================================================================
