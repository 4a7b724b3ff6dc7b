----------------------------- MODULE BatchLoader -----------------------------
(***************************************************************************)
(* The loader of one GraphQL request: batch-loader.ts.  Resolvers ask it   *)
(* for keys; the keys asked for until the batch closes, two turns of the   *)
(* event loop later, go to the database in one query, which answers or     *)
(* rejects them all.  A batch is numbered, and its promise goes by its     *)
(* number.  `values` is what the query found, whole or not.                *)
(***************************************************************************)
EXTENDS Naturals, FiniteSets

CONSTANTS Loads, Keys, NoKey

ASSUME LoaderBounds == IsFiniteSet(Keys) /\ NoKey \notin Keys

VARIABLES
    wanted,        \* the key each resolver has asked for, or NoKey
    got,           \* what each has been answered
    cache,         \* by key, the batch that answers it, 0 while none does
    queue,         \* keys of the batch that is open
    scheduled,     \* the open batch, 0 when there is none
    batches        \* of each batch, where it stands, its keys and what was found

loaderVars == <<wanted, got, cache, queue, scheduled, batches>>

\* Bound: a key opens one batch at most.
Batches == 1..Cardinality(Keys)

LoaderTypeOK ==
    /\ wanted \in [Loads -> Keys \cup {NoKey}]
    /\ got \in [Loads -> {"nothing", "row", "none", "error"}]
    /\ cache \in [Keys -> Batches \cup {0}]
    /\ queue \subseteq Keys
    /\ scheduled \in Batches \cup {0}
    /\ batches \in [Batches -> [state : {"new", "microtask", "tick", "query", "done", "failed"},
                                keys : SUBSET Keys, values : SUBSET Keys]]

LoaderInit ==
    /\ wanted = [c \in Loads |-> NoKey]
    /\ got = [c \in Loads |-> "nothing"]
    /\ cache = [k \in Keys |-> 0]
    /\ queue = {}
    /\ scheduled = 0
    /\ batches = [b \in Batches |-> [state |-> "new", keys |-> {}, values |-> {}]]

Fresh == CHOOSE b \in Batches : batches[b].state = "new"

\* load and schedule: a cached key joins its batch, whatever became of it.
Load(c, k) ==
    /\ wanted[c] = NoKey
    /\ wanted' = [wanted EXCEPT ![c] = k]
    /\ IF cache[k] # 0 THEN UNCHANGED <<cache, queue, scheduled, batches>>
       ELSE LET b == IF scheduled # 0 THEN scheduled ELSE Fresh IN
            /\ queue' = queue \cup {k}
            /\ cache' = [cache EXCEPT ![k] = b]
            /\ scheduled' = b
            /\ batches' = IF scheduled # 0 THEN batches
                          ELSE [batches EXCEPT ![b].state = "microtask"]
    /\ UNCHANGED got

\* The first hop of schedule: the batch is still open.
Microtask(b) ==
    /\ batches[b].state = "microtask"
    /\ batches' = [batches EXCEPT ![b].state = "tick"]
    /\ UNCHANGED <<wanted, got, cache, queue, scheduled>>

\* Mutant: the batch that closes stays the one keys are added to.
StaysOpen(b) == queue' = {} /\ UNCHANGED scheduled

Closed(b) == queue' = {} /\ scheduled' = 0

\* The second hop: the batch closes and its query starts.
Tick(b) ==
    /\ batches[b].state = "tick"
    /\ batches' = [batches EXCEPT ![b].state = "query", ![b].keys = queue]
    /\ Closed(b)
    /\ UNCHANGED <<wanted, got, cache>>

\* A key may be found or not: toOne answers null for one that is not.
Fetched(b, found) ==
    /\ batches[b].state = "query"
    /\ batches' = [batches EXCEPT ![b].state = "done", ![b].values = found]
    /\ UNCHANGED <<wanted, got, cache, queue, scheduled>>

FetchFailed(b) ==
    /\ batches[b].state = "query"
    /\ batches' = [batches EXCEPT ![b].state = "failed"]
    /\ UNCHANGED <<wanted, got, cache, queue, scheduled>>

\* The continuation of load: values.get(key).
Answer(c) ==
    /\ wanted[c] # NoKey /\ got[c] = "nothing"
    /\ LET b == batches[cache[wanted[c]]] IN
       /\ b.state \in {"done", "failed"}
       /\ got' = [got EXCEPT ![c] = IF b.state = "failed" THEN "error"
                                    ELSE IF wanted[c] \in b.values THEN "row" ELSE "none"]
    /\ UNCHANGED <<wanted, cache, queue, scheduled, batches>>

LoaderNext ==
    \/ \E c \in Loads : \/ \E k \in Keys : Load(c, k)
                        \/ Answer(c)
    \/ \E b \in Batches : \/ Microtask(b) \/ Tick(b)
                          \/ \E found \in SUBSET batches[b].keys : Fetched(b, found)
                          \/ FetchFailed(b)

LoaderSpec == LoaderInit /\ [][LoaderNext]_loaderVars

----------------------------------------------------------------------------
\* Every key that was asked for is queried once: by the batch that answers it and
\* by no other, whatever batches overlap and fail.  So no resolver is left waiting
\* or told "none" of a row nobody looked for, and all who want a key get the same.
BatchesSettle ==
    /\ \A c \in Loads : wanted[c] # NoKey =>
          LET b == cache[wanted[c]] IN
          IF batches[b].state \in {"microtask", "tick"}
          THEN scheduled = b /\ wanted[c] \in queue
          ELSE wanted[c] \in batches[b].keys
    /\ \A a, b \in Batches : a # b => batches[a].keys \cap batches[b].keys = {}
    /\ \A c, d \in Loads : wanted[c] = wanted[d] /\ "nothing" \notin {got[c], got[d]} =>
          got[c] = got[d]

=============================================================================
