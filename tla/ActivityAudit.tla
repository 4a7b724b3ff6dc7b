---------------------------- MODULE ActivityAudit ----------------------------
(***************************************************************************)
(* What a mutation records of itself: activity-audit.ts, pub-sub.service.ts*)
(* and the mutations of the resolvers.  A mutation captures the record,    *)
(* writes it, captures it again, notifies the entity's subscribers, inserts*)
(* an activity and notifies those of activities; each step but the writes  *)
(* may fail and must cost the caller nothing.                              *)
(*                                                                         *)
(* A record is named by the mutation that created it, its row by the one   *)
(* that wrote it last, and its lines by those that added them; record 0 is *)
(* from before.  The child tables a snapshot holds are written and read    *)
(* alike, and are one here; a behaviour is about one entity.               *)
(***************************************************************************)
EXTENDS RequestSlots, AuditedMutations

CONSTANTS Absent, CaptureFailed

VARIABLES
    trail,         \* what the entity's mutations are, and what is captured and notified
    records,       \* each record: its row, whether in force, its lines, and those in force
    activities,    \* the activities table
    notified,      \* the mutations an entity or an activity was published for
    replied,       \* what each mutation answered
    written        \* history: what each mutation that wrote did, and on what

auditVars == <<trail, records, activities, notified, replied, written>>

Changes == {"create", "update", "delete"}
Statuses == {"complete", "capture_failed", "not_supported"}

Records == 0..MaxRequests

\* A table is of the record's row, of its snapshots, or in neither.
Part(e, table) ==
    IF table \in Header THEN "header"
    ELSE IF e \in DOMAIN SnapshotOf /\ table \in SnapshotOf[e] THEN "lines" ELSE "unseen"

Trail(e) ==
    [supported |-> e \in DOMAIN SnapshotOf,
     topic |-> e \in Wrappers,
     mutations |-> {[m EXCEPT !.steps = [i \in DOMAIN @ |-> {Part(e, t) : t \in @[i]}]] :
                       m \in MutationsOf[e]}]

AuditTypeOK ==
    /\ \A d \in Records : /\ records[d].row \in Records \cup {Absent}
                          /\ records[d].live \subseteq records[d].lines
    /\ \A a \in activities : a.status \in Statuses /\ a.type \in Changes
    /\ notified \subseteq {"entity", "activity"} \X Serials
    /\ replied \in [Serials -> {"nothing", "done", "error"}]

\* Record 0 has a line in force, and one taken off.
AuditInit ==
    /\ trail \in {Trail(e) : e \in Wrappers \cup Untopical}
    /\ records = [d \in Records |->
          IF d = 0 THEN [row |-> 0, active |-> TRUE, lines |-> {-1, 0}, live |-> {0}, unseen |-> 0]
          ELSE [row |-> Absent, active |-> FALSE, lines |-> {}, live |-> {}, unseen |-> Absent]]
    /\ activities = {}
    /\ notified = {}
    /\ replied = [n \in Serials |-> "nothing"]
    /\ written = <<>>

Writing(d) == {q \in InFlight({"capture_old", "write", "capture_new"}) : job[q].target = d}

\* Mutant: the lines a save took off are captured with the rest.
SeenDropped(d) == [row |-> records[d].row, lines |-> records[d].lines]

\* A snapshot: the row, in force or not, and the lines in force.
Seen(d) == [row |-> records[d].row, lines |-> records[d].live]

\* captureSnapshotSafely.
Captures(d) == {CaptureFailed, IF records[d].row = Absent THEN Absent ELSE Seen(d)}

----------------------------------------------------------------------------

\* A deletion looks for the record first; an update goes by the id alone.
BeginMutation(p, d, m) ==
    /\ CASE m.type = "create" -> d = NextSerial
         [] m.type = "update" -> records[d].row # Absent
         [] m.type = "delete" -> records[d].active
    /\ Start(p, IF m.type # "create" /\ m.told /\ trail.supported THEN "capture_old" ELSE "write",
             [n |-> NextSerial, target |-> d, type |-> m.type, told |-> m.told, left |-> m.steps,
              whole |-> Len(m.steps) = 1, old |-> Absent, new |-> Absent],
             Writing(d))
    /\ UNCHANGED auditVars

CaptureOld(p) ==
    /\ phase[p] = "capture_old"
    /\ \E s \in Captures(job[p].target) : Goto(p, "write", [job[p] EXCEPT !.old = s])
    /\ UNCHANGED auditVars

\* What lines a write leaves in force: of those there were some or none, and perhaps
\* one more.
LinesKept(j, live) ==
    IF j.type = "delete" THEN {{}} ELSE {kept \cup new : kept \in {{}, live}, new \in {{}, {j.n}}}

AfterWrite(j, r, parts, live) ==
    [row |-> IF "header" \in parts THEN j.n ELSE r.row,
     active |-> IF "header" \in parts /\ j.type # "update" THEN j.type = "create" ELSE r.active,
     lines |-> r.lines \cup live,
     live |-> live,
     unseen |-> IF "unseen" \in parts THEN j.n ELSE r.unseen]

\* The mutation is over: what it answers.
Reply(p, answer) ==
    /\ replied' = [replied EXCEPT ![job[p].n] = answer]
    /\ Finish(p)

\* The service call, outside every guard: a transaction, or one of its statements.
WriteRecord(p) ==
    /\ phase[p] = "write"
    /\ LET j == job[p]
           r == records[j.target]
           parts == Head(j.left)
           rest == Tail(j.left)
       IN
       /\ \E live \in IF "lines" \in parts THEN LinesKept(j, r.live) ELSE {r.live} :
             LET after == AfterWrite(j, r, parts, live) IN
             /\ records' = [records EXCEPT ![j.target] = after]
             /\ written' = [n \in DOMAIN written \cup {j.n} |->
                   IF n # j.n THEN written[n]
                   ELSE [before |-> IF n \in DOMAIN written THEN written[n].before ELSE r,
                         after |-> after, all |-> rest = <<>>, whole |-> j.whole]]
       /\ IF rest # <<>> THEN Goto(p, "write", [j EXCEPT !.left = rest]) /\ UNCHANGED replied
          ELSE IF ~j.told THEN Reply(p, "done")
          ELSE /\ Goto(p, IF j.type # "delete" /\ trail.supported THEN "capture_new" ELSE "notify",
                       [j EXCEPT !.left = rest])
               /\ UNCHANGED replied
    /\ UNCHANGED <<trail, activities, notified>>

WriteFails(p) ==
    /\ phase[p] = "write"
    /\ Reply(p, "error")
    /\ UNCHANGED <<trail, records, activities, notified, written>>

CaptureNew(p) ==
    /\ phase[p] = "capture_new"
    /\ \E s \in Captures(job[p].target) : Goto(p, "notify", [job[p] EXCEPT !.new = s])
    /\ UNCHANGED auditVars

\* publishEntity; one that is not delivered only makes `notified` smaller.
PublishEntity(p) ==
    /\ phase[p] = "notify"
    /\ notified' = IF trail.topic THEN notified \cup {<<"entity", job[p].n>>} ELSE notified
    /\ Goto(p, "insert", job[p])
    /\ UNCHANGED <<trail, records, activities, replied, written>>

\* requiredSides: a create has no before, a delete no after.
Missing(s) == s \in {Absent, CaptureFailed}
MissingOld(j) == j.type # "create" /\ Missing(j.old)
MissingNew(j) == j.type # "delete" /\ Missing(j.new)

\* Mutant: what was captured is kept, whatever the other side.
KeptPartial(j) ==
    [status |-> IF ~trail.supported THEN "not_supported"
                ELSE IF MissingOld(j) /\ MissingNew(j) THEN "capture_failed" ELSE "complete",
     old |-> j.old, new |-> j.new]

\* A side that is required and missing discards both.
ResolveSnapshots(j) ==
    IF ~trail.supported THEN [status |-> "not_supported", old |-> Absent, new |-> Absent]
    ELSE IF MissingOld(j) \/ MissingNew(j)
    THEN [status |-> "capture_failed", old |-> Absent, new |-> Absent]
    ELSE [status |-> "complete", old |-> j.old, new |-> j.new]

\* publishActivity: the row, whose title is the record's number if it cannot be
\* built, and only then its subscribers.
InsertActivity(p) ==
    /\ phase[p] = "insert"
    /\ LET j == job[p]
           s == ResolveSnapshots(j)
       IN activities' = activities \cup
             {[n |-> j.n, record |-> j.target, type |-> j.type,
               status |-> s.status, old |-> s.old, new |-> s.new]}
    /\ Goto(p, "publish", job[p])
    /\ UNCHANGED <<trail, records, notified, replied, written>>

\* Without a row nothing is published, and the mutation succeeds all the same.
InsertFails(p) ==
    /\ phase[p] = "insert"
    /\ Reply(p, "done")
    /\ UNCHANGED <<trail, records, activities, notified, written>>

PublishActivity(p) ==
    /\ phase[p] = "publish"
    /\ notified' = notified \cup {<<"activity", job[p].n>>}
    /\ Reply(p, "done")
    /\ UNCHANGED <<trail, records, activities, written>>

\* The server stops: the caller hears nothing.
FailMutation(p) ==
    /\ Fail(p, FALSE)
    /\ UNCHANGED auditVars

AuditNext ==
    \E p \in Procs :
        \/ \E d \in Records, m \in trail.mutations : BeginMutation(p, d, m)
        \/ CaptureOld(p) \/ WriteRecord(p) \/ WriteFails(p) \/ CaptureNew(p)
        \/ PublishEntity(p) \/ InsertActivity(p) \/ InsertFails(p) \/ PublishActivity(p)
        \/ FailMutation(p)

AuditSpec == SlotsInit /\ AuditInit /\ [][AuditNext]_<<slotVars, auditVars>>

----------------------------------------------------------------------------
(* What is claimed of it *)

Shows(s, r) == s.row = r.row /\ s.lines = r.live

\* An activity tells of a write that was committed whole, what is published was
\* stored, a mutation that is not told leaves none, and a caller is told of a failure
\* only if nothing was written, unless its save is not one transaction.  An activity
\* that calls its snapshots complete has both, or the one its type has: the record
\* just before and just after its own writes, lines taken off left out and nothing
\* that mutations write left out, unless another mutation of the record overlapped.
\* Whatever capture, insert or publication fails.
HistoryTruthful ==
    /\ \A n \in Serials :
          LET whole == n \in DOMAIN written /\ written[n].all IN
          /\ replied[n] = "done" \/ <<"entity", n>> \in notified => whole
          /\ replied[n] = "error" /\ n \in DOMAIN written => ~written[n].whole
          /\ <<"activity", n>> \in notified => \E a \in activities : a.n = n
    /\ \A a \in activities :
          /\ a.n \in DOMAIN written /\ written[a.n].all
          /\ IF a.status # "complete" THEN a.old = Absent /\ a.new = Absent
             ELSE /\ a.type # "create" <=> a.old # Absent
                  /\ a.type # "delete" <=> a.new # Absent
                  /\ ~contended =>
                        /\ a.old # Absent => Shows(a.old, written[a.n].before)
                        /\ a.new # Absent => Shows(a.new, written[a.n].after)
                        /\ written[a.n].before.unseen = written[a.n].after.unseen

=============================================================================
