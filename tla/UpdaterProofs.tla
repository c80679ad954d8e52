---------------------------- MODULE UpdaterProofs ----------------------------
(***************************************************************************)
(* Proofs about updates: the types, that the lock keeps updates apart      *)
(* unless one of the two mishaps it is exposed to has happened, and what   *)
(* that gives for the local changes, the schema and the answers.  They     *)
(* hold for any number of requests, commits and failures.                  *)
(***************************************************************************)
EXTENDS UpdaterProperties, TLAPS, FiniteSetTheorems, SequenceTheorems

-----------------------------------------------------------------------------
(* What a handler keeps about itself.                                      *)

LEMMA FieldsTyped ==
  ASSUME NEW r \in Request, NEW pc \in Stages, NEW c \in Commits \cup {None},
         NEW b \in BOOLEAN, NEW a \in {"restore", "release"}
  PROVE  /\ [r EXCEPT !.pc = pc] \in Request
         /\ [r EXCEPT !.pc = pc, !.prev = c] \in Request
         /\ [r EXCEPT !.pc = pc, !.snap = c] \in Request
         /\ [r EXCEPT !.pc = pc, !.new = c] \in Request
         /\ [r EXCEPT !.pc = pc, !.stashed = b] \in Request
         /\ [r EXCEPT !.pc = pc, !.success = b] \in Request
         /\ [r EXCEPT !.pc = pc, !.after = a] \in Request
         /\ [r EXCEPT !.pc = pc, !.new = c, !.success = b] \in Request
         /\ [r EXCEPT !.pc = pc, !.handler = b, !.after = a] \in Request
BY DEF Request

LEMMA NewRequestTyped ==
  /\ NewRequest \in Request
  /\ \A pc \in Stages : [NewRequest EXCEPT !.pc = pc] \in Request
BY DEF NewRequest, Request, Stages, Locked

LEMMA StagesKnown ==
  /\ {"idle", "write", "done", "dead", "commit", "backup", "stash", "fetch",
      "merge", "compare", "current", "migrate", "frontend", "reapply", "record", "reset",
      "unstash", "restore", "release"} \subseteq Stages
BY DEF Stages, Locked

LEMMA BecomesTyped ==
  ASSUME UpdaterTypeOK, NEW u \in Requests, NEW r \in Request, Becomes(u, r)
  PROVE  req' \in [Requests -> Request]
BY DEF UpdaterTypeOK, Becomes

LEMMA MovesTyped ==
  ASSUME UpdaterTypeOK, NEW u \in Requests, NEW pc \in Stages, Moves(u, pc)
  PROVE  req' \in [Requests -> Request]
BY BecomesTyped, FieldsTyped DEF UpdaterTypeOK, Moves

LEMMA EndsTyped ==
  ASSUME UpdaterTypeOK, NEW u \in Requests, NEW pc \in Stages, Ends(u, pc)
  PROVE  req' \in [Requests -> Request]
BY BecomesTyped, NewRequestTyped DEF Ends

LEMMA RollsBackTyped ==
  ASSUME UpdaterTypeOK, NEW u \in Requests, NEW a \in {"restore", "release"},
         RollsBack(u, a)
  PROVE  req' \in [Requests -> Request]
<1>1. req[u] \in Request
  BY DEF UpdaterTypeOK
<1>2. [req[u] EXCEPT !.pc = "reset", !.after = a] \in Request
  BY <1>1, FieldsTyped, StagesKnown
<1> QED BY <1>2, BecomesTyped DEF RollsBack

(* Failures are counted, and mishaps noted, by Works, Notes and Breaks.    *)
LEMMA MishapTyped ==
  ASSUME UpdaterTypeOK, NEW what \in SUBSET Events,
         Works \/ Notes(what) \/ Breaks(what)
  PROVE  faults' \in 0 .. MaxFaults /\ events' \subseteq Events
BY UpdaterAssumption DEF UpdaterTypeOK, Works, Notes, Breaks

LEMMA PopsTyped ==
  ASSUME UpdaterTypeOK, NEW b \in BOOLEAN, PopsIf(b)
  PROVE  /\ stash' \in Seq(Requests \cup {None}) /\ edited' \in BOOLEAN
         /\ faults' \in 0 .. MaxFaults /\ events' \subseteq Events
<1>1. Works \/ Breaks({})
  BY DEF PopsIf, Pops
<1>2. faults' \in 0 .. MaxFaults /\ events' \subseteq Events
  BY <1>1, MishapTyped
<1>3. stash \in Seq(Requests \cup {None}) /\ edited \in BOOLEAN
  BY DEF UpdaterTypeOK
<1>4. stash # <<>> => Tail(stash) \in Seq(Requests \cup {None})
  BY <1>3, HeadTailProperties
<1>5. stash' \in Seq(Requests \cup {None}) /\ edited' \in BOOLEAN
  BY <1>3, <1>4 DEF PopsIf, Pops
<1> QED BY <1>2, <1>5

LEMMA RequestTyped ==
  ASSUME UpdaterTypeOK, NEW u \in Requests, Step(u)
  PROVE  req' \in [Requests -> Request]
<1> DEFINE r == req[u]
<1>a. /\ r \in Request /\ head \in Commits /\ file \in Commits
      /\ r.after \in Stages /\ r.new \in Commits \cup {None}
  BY DEF UpdaterTypeOK, Request, Stages, Locked
<1>1. CASE Ask(u) \/ WriteLock(u) \/ Fetch(u) \/ Merge(u) \/ Reset(u) \/ Unstash(u)
           \/ Restore(u)
  <2>1. \E pc \in Stages : Moves(u, pc)
    BY <1>1, <1>a, StagesKnown DEF Ask, WriteLock, Fetch, Merge, Reset, Unstash, Restore
  <2> QED BY <2>1, MovesTyped
<1>2. CASE ReadCommit(u)
  <2>1. [r EXCEPT !.pc = "backup", !.prev = head] \in Request
    BY <1>a, FieldsTyped, StagesKnown
  <2> QED BY <1>2, <2>1, BecomesTyped, MovesTyped, EndsTyped, StagesKnown DEF ReadCommit
<1>3. CASE Backup(u)
  <2>1. [r EXCEPT !.pc = "stash", !.snap = file] \in Request
    BY <1>a, FieldsTyped, StagesKnown
  <2> QED BY <1>3, <2>1, BecomesTyped, MovesTyped, StagesKnown DEF Backup
<1>4. CASE Stash(u)
  <2>1. [r EXCEPT !.pc = "fetch", !.stashed = TRUE] \in Request
    BY <1>a, FieldsTyped, StagesKnown
  <2> QED BY <1>4, <2>1, BecomesTyped, MovesTyped, StagesKnown DEF Stash
<1>5. CASE Compare(u)
  <2>1. PICK read \in {head, None} :
          Becomes(u, [r EXCEPT !.new = read, !.pc = IF read = r.prev THEN "current"
                                                    ELSE "migrate"])
    BY <1>5 DEF Compare
  <2>2. [r EXCEPT !.new = read, !.pc = IF read = r.prev THEN "current" ELSE "migrate"]
          \in Request
    BY <1>a, StagesKnown DEF Request
  <2> QED BY <2>1, <2>2, BecomesTyped
<1>5a. CASE Current(u)
  <2>1. [r EXCEPT !.pc = "release", !.success = TRUE] \in Request
    BY <1>a, FieldsTyped, StagesKnown
  <2> QED BY <1>5a, <2>1, BecomesTyped DEF Current
<1>6. CASE Migrate(u) \/ Frontend(u)
  <2>1. \/ \E pc \in Stages : Moves(u, pc)
        \/ \E a \in {"restore", "release"} : RollsBack(u, a)
    BY <1>6, StagesKnown DEF Migrate, Frontend
  <2> QED BY <2>1, MovesTyped, RollsBackTyped
<1>7. CASE Reapply(u)
  <2>1. [r EXCEPT !.pc = "record", !.stashed = FALSE] \in Request
    BY <1>a, FieldsTyped, StagesKnown
  <2> QED BY <1>7, <2>1, BecomesTyped DEF Reapply
<1>8. CASE Record(u)
  <2>1. [r EXCEPT !.pc = "release", !.success = TRUE] \in Request
    BY <1>a, FieldsTyped, StagesKnown
  <2> QED BY <1>8, <2>1, BecomesTyped DEF Record
<1>9. CASE Release(u)
  BY <1>9, EndsTyped, StagesKnown DEF Release
<1>10. CASE Raise(u) /\ r.handler
  BY <1>10, MovesTyped, StagesKnown DEF Raise
<1>11. CASE Raise(u) /\ ~r.handler
  <2>1. PICK success \in BOOLEAN :
          Becomes(u, [r EXCEPT !.pc = "reset", !.handler = TRUE, !.after = "release",
                               !.success = success])
    BY <1>11 DEF Raise
  <2>2. [r EXCEPT !.pc = "reset", !.handler = TRUE, !.after = "release",
                  !.success = success] \in Request
    BY <1>a, StagesKnown DEF Request
  <2> QED BY <2>1, <2>2, BecomesTyped
<1> QED
  BY <1>1, <1>2, <1>3, <1>4, <1>5, <1>5a, <1>6, <1>7, <1>8, <1>9, <1>10, <1>11 DEF Step

LEMMA EventsTyped ==
  ASSUME UpdaterTypeOK, NEW u \in Requests, Step(u)
  PROVE  faults' \in 0 .. MaxFaults /\ events' \subseteq Events
<1>1. CASE Works \/ Breaks({})
  BY <1>1, MishapTyped
<1>2. CASE \E what \in SUBSET Events : Notes(what) \/ Breaks(what)
  BY <1>2, MishapTyped
<1>3. CASE Ask(u) \/ Fetch(u) \/ Merge(u) \/ Migrate(u) \/ Frontend(u) \/ Record(u)
           \/ Release(u)
  BY <1>3, <1>1 DEF Ask, Fetch, Merge, Migrate, Frontend, Record, Release
<1>4. CASE Current(u) \/ Reapply(u) \/ Unstash(u)
  BY <1>4, <1>1 DEF Current, Reapply, Unstash, PopsIf, Pops
<1>4a. CASE Compare(u)
  BY <1>4a, <1>1, MishapTyped DEF Compare, Events
<1>5. CASE WriteLock(u)
  BY <1>5, MishapTyped DEF WriteLock, Events
<1>6. CASE ReadCommit(u) \/ Backup(u) \/ Stash(u) \/ Reset(u) \/ Restore(u)
  BY <1>6, MishapTyped, <1>1 DEF ReadCommit, Backup, Stash, Reset, Restore, Events
<1>7. CASE Raise(u)
  BY <1>7, MishapTyped DEF Raise, RaisedAt, Events
<1> QED
  BY <1>3, <1>4, <1>4a, <1>5, <1>6, <1>7 DEF Step

LEMMA LockTyped ==
  ASSUME UpdaterTypeOK, NEW u \in Requests, Step(u)
  PROVE  lock' \in [owner : Requests, old : BOOLEAN] \cup {None}
<1>1. CASE WriteLock(u) \/ Release(u)
  <2>1. [owner |-> u, old |-> FALSE] \in [owner : Requests, old : BOOLEAN]
    OBVIOUS
  <2> QED BY <1>1, <2>1 DEF WriteLock, Release
<1>2. CASE ~(WriteLock(u) \/ Release(u))
  <2>1. lock' = lock
    BY <1>2 DEF Step, Ask, ReadCommit, Backup, Stash, Fetch, Merge, Compare, Current, Migrate,
       Frontend, Reapply, Record, Reset, Unstash, Restore, Raise, Disk
  <2> QED BY <2>1 DEF UpdaterTypeOK
<1> QED BY <1>1, <1>2

LEMMA SchemaTyped == UpdaterTypeOK => schema \in Commits
BY DEF UpdaterTypeOK, schema

LEMMA TreeTyped ==
  ASSUME UpdaterTypeOK, NEW u \in Requests, Step(u)
  PROVE  /\ {fetched', head', file'} \subseteq Commits /\ log' \in Commits \cup {None}
         /\ {edited', untracked'} \subseteq BOOLEAN
         /\ stash' \in Seq(Requests \cup {None})
<1>a. /\ fetched \in Commits /\ head \in Commits /\ schema \in Commits
      /\ file \in Commits /\ log \in Commits \cup {None}
      /\ edited \in BOOLEAN /\ untracked \in BOOLEAN
      /\ stash \in Seq(Requests \cup {None})
      /\ req[u].prev \in Commits \cup {None} /\ req[u].snap \in Commits \cup {None}
      /\ req[u].stashed \in BOOLEAN
  BY SchemaTyped DEF UpdaterTypeOK, Request
<1>1. CASE Ask(u) \/ WriteLock(u) \/ ReadCommit(u) \/ Backup(u) \/ Frontend(u)
           \/ Record(u) \/ Release(u) \/ Raise(u) \/ Compare(u)
  <2>1. UNCHANGED <<fetched, tree, database>>
    BY <1>1 DEF Ask, WriteLock, ReadCommit, Backup, Frontend, Record, Release, Raise,
       Compare, Disk
  <2> QED BY <1>a, <2>1 DEF tree, database
<1>2. CASE Stash(u)
  <2>1. <<u>> \o stash \in Seq(Requests \cup {None})
    BY <1>a
  <2> QED BY <1>2, <1>a, <2>1 DEF Stash, database
<1>3. CASE Fetch(u)
  BY <1>3, <1>a, UpdaterAssumption DEF Fetch, Commits, tree, database
<1>4. CASE Merge(u)
  BY <1>4, <1>a, UpdaterAssumption DEF Merge, database
<1>5. CASE Current(u) \/ Reapply(u) \/ Unstash(u)
  <2>1. /\ UNCHANGED <<fetched, head, untracked, file, log>>
        /\ \E b \in BOOLEAN : PopsIf(b)
    BY <1>5, <1>a DEF Current, Reapply, Unstash, database
  <2> QED BY <2>1, <1>a, PopsTyped
<1>6. CASE Migrate(u)
  BY <1>6, <1>a DEF Migrate, Writes, tree
<1>7. CASE Reset(u)
  BY <1>7, <1>a DEF Reset, database
<1>8. CASE Restore(u)
  BY <1>8, <1>a DEF Restore, tree
<1> QED
  BY <1>1, <1>2, <1>3, <1>4, <1>5, <1>6, <1>7, <1>8 DEF Step

LEMMA StepTyped ==
  ASSUME UpdaterTypeOK, NEW u \in Requests, Step(u)
  PROVE  UpdaterTypeOK'
BY RequestTyped, EventsTyped, LockTyped, TreeTyped DEF UpdaterTypeOK

LEMMA AgeTyped == UpdaterTypeOK /\ Age => UpdaterTypeOK'
BY DEF UpdaterTypeOK, Age, tree, database

LEMMA CheckpointTyped == UpdaterTypeOK /\ Checkpoint => UpdaterTypeOK'
BY DEF UpdaterTypeOK, Checkpoint, tree

LEMMA CrashTyped == UpdaterTypeOK /\ Crash => UpdaterTypeOK'
<1> SUFFICES ASSUME UpdaterTypeOK, Crash PROVE UpdaterTypeOK'
  OBVIOUS
<1>1. req' \in [Requests -> Request]
  BY NewRequestTyped, StagesKnown DEF UpdaterTypeOK, Crash
<1>2. faults' \in 0 .. MaxFaults /\ events' \subseteq Events
  BY MishapTyped DEF Crash, Events
<1> QED BY <1>1, <1>2 DEF UpdaterTypeOK, Crash, Disk, tree, database

LEMMA InitTyped == Init => UpdaterTypeOK
<1> SUFFICES ASSUME Init PROVE UpdaterTypeOK
  OBVIOUS
<1>1. req \in [Requests -> Request]
  BY NewRequestTyped DEF Init
<1>2. stash \in Seq(Requests \cup {None})
  BY DEF Init
<1>3. 0 \in Commits /\ 0 \in 0 .. MaxFaults
  BY UpdaterAssumption DEF Commits
<1>4. edited \in BOOLEAN /\ untracked \in BOOLEAN
  BY DEF Init
<1> QED BY <1>1, <1>2, <1>3, <1>4 DEF Init, UpdaterTypeOK

LEMMA NextTyped == UpdaterTypeOK /\ [Next]_vars => UpdaterTypeOK'
<1> SUFFICES ASSUME UpdaterTypeOK, [Next]_vars PROVE UpdaterTypeOK'
  OBVIOUS
<1>1. CASE UNCHANGED vars
  BY <1>1 DEF UpdaterTypeOK, vars, tree, database
<1> QED
  BY <1>1, StepTyped, AgeTyped, CheckpointTyped, CrashTyped DEF Next

(* The variables keep their types, for any number of requests, commits and *)
(* failures.                                                               *)
THEOREM UpdaterTypeCorrect == Spec => []UpdaterTypeOK
<1>1. Init => UpdaterTypeOK
  BY InitTyped
<1>2. UpdaterTypeOK /\ [Next]_vars => UpdaterTypeOK'
  BY NextTyped
<1> QED
  BY <1>1, <1>2, PTL DEF Spec
-----------------------------------------------------------------------------
(* The inductive invariants.  Each holds until the first of the mishaps    *)
(* that its property excuses, and most of it concerns the one request that *)
(* is updating.                                                            *)

Clean(mishaps) == events \cap mishaps = {}
Overlaps       == {"raced", "expired"}

\* Who updates holds the lock.
HolderInv ==
  Clean(Overlaps) =>
    \A u \in Updating : lock \in [owner : Requests, old : BOOLEAN] /\ lock.owner = u

\* A request that has only looked at the lock has not begun with anything.
FreshInv ==
  \A u \in Requests : req[u].pc \in {"idle", "write", "commit"} =>
    ~req[u].stashed /\ ~req[u].handler /\ ~req[u].success

\* Between stash and re-apply the edit is on top of the stash, not in the tree.
Away == {"fetch", "merge", "compare", "current", "migrate", "frontend", "reapply", "reset", "unstash"}
EditAt(u) ==
  /\ req[u].pc \in {"commit", "backup", "stash"} => ~req[u].stashed
  /\ req[u].pc \in Away =>
       ~edited /\ (req[u].stashed => stash # <<>> /\ stash[1] \in Requests)
EditInv == Clean(Excused) => \A u \in Updating : EditAt(u)

\* What previous_commit, the snapshot, the tree and the database have in common
\* at each stage.
SchemaAt(u) == LET r == req[u] IN
  /\ r.pc \in {"commit", "backup", "stash", "fetch", "merge", "current", "frontend", "reapply",
               "record", "release"} => schema = head
  /\ r.pc \in {"backup", "stash", "fetch", "merge", "current"} => r.prev = head
  /\ r.pc \in {"stash", "fetch", "merge", "current"} => r.snap = schema
  /\ r.pc \in {"compare", "migrate"} => r.prev = schema /\ r.snap = schema
  /\ r.pc = "frontend" => r.prev \in Commits /\ r.snap = r.prev
  /\ r.pc = "reset" => /\ r.prev \in Commits
                       /\ r.after = "restore" => r.snap = r.prev
                       /\ r.after = "release" => r.prev = schema
  /\ r.pc = "unstash" => /\ r.prev = head
                         /\ r.after = "restore" => r.snap = head
                         /\ r.after = "release" => schema = head
  /\ r.pc = "restore" => r.snap = head
  /\ r.pc \in {"commit", "backup", "stash", "fetch", "merge", "compare", "current"} => ~r.handler
SchemaInv ==
  Clean(SchemaMishaps) =>
    (Updating = {} => schema = head) /\ \A u \in Updating : SchemaAt(u)

\* What the answer will say, and what the tree will hold by then.
AnswerMishaps == {"raced", "expired", "no_commit", "late_raise", "rollback_failed"}
AnswerAt(u) == LET r == req[u] IN
  /\ r.pc \in Locked \ {"commit", "release"} => r.prev \in Commits
  /\ r.pc \in {"commit", "backup", "stash", "fetch", "merge", "compare", "current", "migrate",
               "frontend", "reapply", "record"} => ~r.success /\ ~r.handler
  /\ r.pc \in {"backup", "stash", "fetch", "merge", "current", "unstash", "restore"} => r.prev = head
  /\ r.pc \in {"current", "migrate", "frontend", "reapply", "record"} => r.new = head
  /\ r.pc \in {"reset", "unstash", "restore"} => (r.success => r.new = r.prev)
  /\ r.pc = "release" => head = IF r.success THEN r.new ELSE r.prev
AnswerInv == Clean(AnswerMishaps) => \A u \in Updating : AnswerAt(u)
-----------------------------------------------------------------------------
(* What one step of a request changes.                                     *)

LEMMA OthersKept ==
  ASSUME UpdaterTypeOK, NEW u \in Requests, Step(u)
  PROVE  \A v \in Requests : v # u => req'[v] = req[v]
<1>1. \E r : req' = [req EXCEPT ![u] = r]
  <2>1. CASE Ask(u) \/ WriteLock(u) \/ ReadCommit(u) \/ Backup(u) \/ Stash(u) \/ Fetch(u)
             \/ Merge(u) \/ Compare(u) \/ Current(u) \/ Migrate(u)
    BY <2>1 DEF Ask, WriteLock, ReadCommit, Backup, Stash, Fetch, Merge, Compare, Current, Migrate,
       Moves, Ends, RollsBack, Becomes
  <2>2. CASE Frontend(u) \/ Reapply(u) \/ Record(u) \/ Reset(u) \/ Unstash(u) \/ Restore(u)
             \/ Release(u) \/ Raise(u)
    BY <2>2 DEF Frontend, Reapply, Record, Reset, Unstash, Restore, Release, Raise,
       Moves, Ends, RollsBack, Becomes
  <2> QED BY <2>1, <2>2 DEF Step
<1> QED BY <1>1 DEF UpdaterTypeOK

LEMMA AfterMoves ==
  ASSUME UpdaterTypeOK, NEW u \in Requests, NEW pc \in Stages, Moves(u, pc)
  PROVE  /\ req'[u].pc = pc
         /\ req'[u].prev = req[u].prev /\ req'[u].new = req[u].new
         /\ req'[u].snap = req[u].snap /\ req'[u].stashed = req[u].stashed
         /\ req'[u].handler = req[u].handler /\ req'[u].after = req[u].after
         /\ req'[u].success = req[u].success
<1>1. req \in [Requests -> Request] /\ req[u] \in Request
  BY DEF UpdaterTypeOK
<1>2. req'[u] = [req[u] EXCEPT !.pc = pc]
  BY <1>1 DEF Moves, Becomes
<1> QED BY <1>1, <1>2 DEF Request

LEMMA AfterRollsBack ==
  ASSUME UpdaterTypeOK, NEW u \in Requests, NEW a \in {"restore", "release"},
         RollsBack(u, a)
  PROVE  /\ req'[u].pc = "reset" /\ req'[u].after = a
         /\ req'[u].prev = req[u].prev /\ req'[u].new = req[u].new
         /\ req'[u].snap = req[u].snap /\ req'[u].stashed = req[u].stashed
         /\ req'[u].handler = req[u].handler /\ req'[u].success = req[u].success
<1>1. req \in [Requests -> Request] /\ req[u] \in Request
  BY DEF UpdaterTypeOK
<1>2. req'[u] = [req[u] EXCEPT !.pc = "reset", !.after = a]
  BY <1>1 DEF RollsBack, Becomes
<1> QED BY <1>1, <1>2 DEF Request

LEMMA AfterEnds ==
  ASSUME UpdaterTypeOK, NEW u \in Requests, NEW pc \in Stages, Ends(u, pc)
  PROVE  req'[u].pc = pc
BY DEF UpdaterTypeOK, Ends, Becomes, NewRequest

LEMMA AfterBecomes ==
  ASSUME UpdaterTypeOK, NEW u \in Requests, NEW r, Becomes(u, r)
  PROVE  req'[u] = r
BY DEF UpdaterTypeOK, Becomes

(* The fields that the other assignments to a request set and keep.        *)
LEMMA AfterSets ==
  ASSUME UpdaterTypeOK, NEW u \in Requests, NEW r, r = req[u]
  PROVE  /\ Becomes(u, [r EXCEPT !.pc = "backup", !.prev = head]) =>
              /\ req'[u].prev = head /\ req'[u].success = r.success
              /\ req'[u].handler = r.handler /\ req'[u].stashed = r.stashed
         /\ Becomes(u, [r EXCEPT !.pc = "stash", !.snap = file]) =>
              /\ req'[u].pc = "stash" /\ req'[u].snap = file /\ req'[u].success = r.success
              /\ req'[u].handler = r.handler /\ req'[u].stashed = r.stashed
              /\ req'[u].prev = r.prev
         /\ Becomes(u, [r EXCEPT !.pc = "fetch", !.stashed = TRUE]) =>
              /\ req'[u].snap = r.snap /\ req'[u].success = r.success
              /\ req'[u].handler = r.handler /\ req'[u].prev = r.prev
         /\ Becomes(u, [r EXCEPT !.pc = "record", !.stashed = FALSE]) =>
              /\ req'[u].new = r.new /\ req'[u].success = r.success
              /\ req'[u].handler = r.handler /\ req'[u].prev = r.prev
         /\ Becomes(u, [r EXCEPT !.pc = "release", !.success = TRUE]) =>
              /\ req'[u].pc = "release" /\ req'[u].new = r.new /\ req'[u].success
<1>1. r \in Request
  BY DEF UpdaterTypeOK
<1>2. ASSUME Becomes(u, [r EXCEPT !.pc = "backup", !.prev = head])
      PROVE  /\ req'[u].prev = head
             /\ req'[u].success = r.success
             /\ req'[u].handler = r.handler
             /\ req'[u].stashed = r.stashed
  <2>1. req'[u] = [r EXCEPT !.pc = "backup", !.prev = head]
    BY <1>2, AfterBecomes
  <2> QED BY <1>1, <2>1 DEF Request
<1>3. ASSUME Becomes(u, [r EXCEPT !.pc = "stash", !.snap = file])
      PROVE  /\ req'[u].pc = "stash"
             /\ req'[u].snap = file
             /\ req'[u].success = r.success
             /\ req'[u].handler = r.handler
             /\ req'[u].stashed = r.stashed
             /\ req'[u].prev = r.prev
  <2>1. req'[u] = [r EXCEPT !.pc = "stash", !.snap = file]
    BY <1>3, AfterBecomes
  <2> QED BY <1>1, <2>1 DEF Request
<1>4. ASSUME Becomes(u, [r EXCEPT !.pc = "fetch", !.stashed = TRUE])
      PROVE  /\ req'[u].snap = r.snap
             /\ req'[u].success = r.success
             /\ req'[u].handler = r.handler
             /\ req'[u].prev = r.prev
  <2>1. req'[u] = [r EXCEPT !.pc = "fetch", !.stashed = TRUE]
    BY <1>4, AfterBecomes
  <2> QED BY <1>1, <2>1 DEF Request
<1>7. ASSUME Becomes(u, [r EXCEPT !.pc = "record", !.stashed = FALSE])
      PROVE  /\ req'[u].new = r.new
             /\ req'[u].success = r.success
             /\ req'[u].handler = r.handler
             /\ req'[u].prev = r.prev
  <2>1. req'[u] = [r EXCEPT !.pc = "record", !.stashed = FALSE]
    BY <1>7, AfterBecomes
  <2> QED BY <1>1, <2>1 DEF Request
<1>8. ASSUME Becomes(u, [r EXCEPT !.pc = "release", !.success = TRUE])
      PROVE  req'[u].pc = "release" /\ req'[u].new = r.new /\ req'[u].success
  <2>1. req'[u] = [r EXCEPT !.pc = "release", !.success = TRUE]
    BY <1>8, AfterBecomes
  <2> QED BY <1>1, <2>1 DEF Request
<1> QED BY <1>2, <1>3, <1>4, <1>7, <1>8

(* What the comparison of the commits sets.                                *)
LEMMA AfterCompare ==
  ASSUME UpdaterTypeOK, NEW u \in Requests, Compare(u)
  PROVE  /\ req'[u].pc = IF req'[u].new = req[u].prev THEN "current" ELSE "migrate"
         /\ req'[u].new = head \/ "no_commit" \in events'
         /\ req'[u].snap = req[u].snap /\ req'[u].success = req[u].success
         /\ req'[u].handler = req[u].handler /\ req'[u].prev = req[u].prev
         /\ req'[u].stashed = req[u].stashed
<1>1. req[u] \in Request
  BY DEF UpdaterTypeOK
<1>2. PICK read \in {head, None} :
        /\ IF read = None THEN Breaks({"no_commit"}) ELSE Works
        /\ Becomes(u, [req[u] EXCEPT
             !.new = read, !.pc = IF read = req[u].prev THEN "current" ELSE "migrate"])
  BY DEF Compare
<1>3. req'[u] = [req[u] EXCEPT
             !.new = read, !.pc = IF read = req[u].prev THEN "current" ELSE "migrate"]
  BY <1>2, AfterBecomes
<1>4. read = head \/ "no_commit" \in events'
  BY <1>2 DEF Breaks
<1> QED BY <1>1, <1>3, <1>4 DEF Request

(* A step of the try block raised outside the handler, or in it.           *)
LEMMA AfterRaise ==
  ASSUME UpdaterTypeOK, NEW u \in Requests, Raise(u)
  PROVE  /\ req'[u].prev = req[u].prev /\ req'[u].snap = req[u].snap
         /\ req'[u].stashed = req[u].stashed /\ req'[u].new = req[u].new
         /\ req[u].handler => req'[u].pc = "release" /\ req'[u].success = req[u].success
         /\ ~req[u].handler =>
              /\ req'[u].pc = "reset" /\ req'[u].after = "release"
              /\ req'[u].success \in BOOLEAN
              /\ req'[u].success => req[u].pc \in {"current", "record"}
<1>1. req[u] \in Request
  BY DEF UpdaterTypeOK
<1>2. CASE req[u].handler
  BY <1>2, AfterMoves, StagesKnown DEF Raise
<1>3. CASE ~req[u].handler
  <2>1. PICK success \in BOOLEAN :
          /\ success => req[u].pc \in {"current", "record"}
          /\ Becomes(u, [req[u] EXCEPT !.pc = "reset", !.handler = TRUE, !.after = "release",
                         !.success = success])
    BY <1>3 DEF Raise
  <2>2. req'[u] = [req[u] EXCEPT !.pc = "reset", !.handler = TRUE, !.after = "release",
                   !.success = success]
    BY <2>1, AfterBecomes
  <2> QED BY <1>1, <1>3, <2>1, <2>2 DEF Request
<1> QED BY <1>2, <1>3

(* Where a request goes on from each action.                               *)
LEMMA StageAfter ==
  ASSUME UpdaterTypeOK, NEW u \in Requests
  PROVE  /\ Ask(u) => req'[u].pc \in {"write", "done"}
         /\ WriteLock(u) => req'[u].pc = "commit"
         /\ ReadCommit(u) => req'[u].pc \in {"backup", "dead"}
         /\ Backup(u) => req'[u].pc \in {"stash", "release"}
         /\ Stash(u) => req'[u].pc = "fetch"
         /\ Fetch(u) => req'[u].pc \in {"merge", "reset"}
         /\ Merge(u) => req'[u].pc \in {"compare", "reset"}
         /\ Compare(u) => req'[u].pc \in {"current", "migrate"}
         /\ Current(u) => req'[u].pc = "release"
         /\ Migrate(u) => req'[u].pc \in {"frontend", "reset"}
         /\ Frontend(u) => req'[u].pc \in {"reapply", "reset"}
         /\ Reapply(u) => req'[u].pc = "record"
         /\ Record(u) => req'[u].pc = "release"
         /\ Reset(u) => req'[u].pc \in {"unstash", "restore", "release"}
         /\ Unstash(u) => req'[u].pc \in {"restore", "release"}
         /\ Restore(u) => req'[u].pc = "release"
         /\ Release(u) => req'[u].pc = "done"
         /\ Raise(u) => req'[u].pc \in {"reset", "release"}
<1>a. /\ req[u] \in Request /\ req[u].after \in {"restore", "release"}
      /\ req[u].after \in Stages
  BY DEF UpdaterTypeOK, Request, Stages, Locked
<1>1. Ask(u) => req'[u].pc \in {"write", "done"}
  BY AfterMoves, StagesKnown DEF Ask
<1>2. WriteLock(u) => req'[u].pc = "commit"
  BY AfterMoves, StagesKnown DEF WriteLock
<1>3. ReadCommit(u) => req'[u].pc \in {"backup", "dead"}
  <2>1. Becomes(u, [req[u] EXCEPT !.pc = "backup", !.prev = head]) => req'[u].pc = "backup"
    BY <1>a, AfterBecomes DEF Request
  <2> QED BY <2>1, AfterMoves, AfterEnds, StagesKnown DEF ReadCommit
<1>4. Backup(u) => req'[u].pc \in {"stash", "release"}
  <2>1. Becomes(u, [req[u] EXCEPT !.pc = "stash", !.snap = file]) => req'[u].pc = "stash"
    BY <1>a, AfterBecomes DEF Request
  <2> QED BY <2>1, AfterMoves, StagesKnown DEF Backup
<1>5. Stash(u) => req'[u].pc = "fetch"
  <2>1. Becomes(u, [req[u] EXCEPT !.pc = "fetch", !.stashed = TRUE]) => req'[u].pc = "fetch"
    BY <1>a, AfterBecomes DEF Request
  <2> QED BY <2>1, AfterMoves, StagesKnown DEF Stash
<1>6. /\ Fetch(u) => req'[u].pc \in {"merge", "reset"}
      /\ Merge(u) => req'[u].pc \in {"compare", "reset"}
  BY AfterMoves, StagesKnown DEF Fetch, Merge
<1>7. /\ Compare(u) => req'[u].pc \in {"current", "migrate"}
      /\ Current(u) => req'[u].pc = "release"
  BY AfterCompare, AfterSets DEF Current
<1>8. /\ Migrate(u) => req'[u].pc \in {"frontend", "reset"}
      /\ Frontend(u) => req'[u].pc \in {"reapply", "reset"}
  BY AfterMoves, AfterRollsBack, StagesKnown DEF Migrate, Frontend
<1>9. Reapply(u) => req'[u].pc = "record"
  BY <1>a, AfterBecomes DEF Reapply, Request
<1>10. Record(u) => req'[u].pc = "release"
  BY <1>a, AfterBecomes DEF Record, Request
<1>11. /\ Reset(u) => req'[u].pc \in {"unstash", "restore", "release"}
       /\ Unstash(u) => req'[u].pc \in {"restore", "release"}
       /\ Restore(u) => req'[u].pc = "release"
  BY <1>a, AfterMoves, StagesKnown DEF Reset, Unstash, Restore
<1>12. Release(u) => req'[u].pc = "done"
  BY AfterEnds, StagesKnown DEF Release
<1>13. Raise(u) => req'[u].pc \in {"reset", "release"}
  BY AfterRaise
<1> QED
  BY <1>1, <1>2, <1>3, <1>4, <1>5, <1>6, <1>7, <1>8, <1>9, <1>10, <1>11, <1>12, <1>13

LEMMA EventsGrow ==
  ASSUME NEW u \in Requests, Step(u)
  PROVE  events \subseteq events'
BY DEF Step, Ask, WriteLock, ReadCommit, Backup, Stash, Fetch, Merge, Compare, Current, Migrate,
   Frontend, Reapply, Record, Reset, Unstash, Restore, Release, Raise,
   PopsIf, Pops, Works, Notes, Breaks

LEMMA LockKept ==
  ASSUME NEW u \in Requests, Step(u), ~WriteLock(u), ~Release(u)
  PROVE  lock' = lock
BY DEF Step, Ask, ReadCommit, Backup, Stash, Fetch, Merge, Compare, Current, Migrate,
   Frontend, Reapply, Record, Reset, Unstash, Restore, Raise, Disk

LEMMA StagesOf ==
  ASSUME NEW u \in Requests, Step(u)
  PROVE  \/ Ask(u) /\ req[u].pc = "idle"
         \/ WriteLock(u) /\ req[u].pc = "write"
         \/ ~Ask(u) /\ ~WriteLock(u) /\ req[u].pc \in Locked
BY DEF Step, Ask, WriteLock, ReadCommit, Backup, Stash, Fetch, Merge, Compare, Current, Migrate,
   Frontend, Reapply, Record, Reset, Unstash, Restore, Release, Raise, MayRaise, At, Locked

LEMMA AskOutside ==
  ASSUME UpdaterTypeOK, NEW u \in Requests, Ask(u)
  PROVE  u \notin Updating' /\ UNCHANGED <<Disk, faults, events>>
BY DEF UpdaterTypeOK, Ask, Moves, Becomes, Updating, Locked, Works, Request

LEMMA ReleaseOutside ==
  ASSUME UpdaterTypeOK, NEW u \in Requests, Release(u)
  PROVE  u \notin Updating'
BY DEF UpdaterTypeOK, Release, Ends, Becomes, Updating, Locked, NewRequest

(* The step of a request to which nothing has happened so far: it is the   *)
(* only one that updates, or has just found that it is not to.             *)
LEMMA SoleUpdater ==
  ASSUME UpdaterTypeOK, HolderInv, NEW u \in Requests, Step(u), Clean(Overlaps)'
  PROVE  /\ Clean(Overlaps)
         /\ \A v \in Updating' : v = u \/ (Ask(u) /\ v \in Updating /\ req'[v] = req[v])
         /\ WriteLock(u) => Updating = {}
         /\ ~Ask(u) /\ ~WriteLock(u) => Updating = {u}
<1>1. Clean(Overlaps)
  BY EventsGrow DEF Clean
<1>2. WriteLock(u) => Updating = {}
  BY DEF WriteLock, Notes, Clean, Overlaps
<1>3. ASSUME ~Ask(u), ~WriteLock(u) PROVE Updating = {u}
  <2>1. u \in Updating
    BY <1>3, StagesOf DEF Updating
  <2> QED BY <2>1, <1>1 DEF HolderInv
<1>4. ASSUME NEW v \in Updating', v # u
      PROVE  Ask(u) /\ v \in Updating /\ req'[v] = req[v]
  <2>1. v \in Requests
    BY DEF Updating
  <2>2. req'[v] = req[v] /\ v \in Updating
    BY <1>4, <2>1, OthersKept DEF Updating
  <2> QED BY <1>2, <1>3, <1>4, <2>2
<1> QED BY <1>1, <1>2, <1>3, <1>4

-----------------------------------------------------------------------------
(* The lock.                                                               *)

LEMMA HolderStep ==
  ASSUME UpdaterTypeOK, HolderInv, NEW u \in Requests, Step(u)
  PROVE  HolderInv'
<1> SUFFICES ASSUME Clean(Overlaps)', NEW v \in Updating'
             PROVE  (lock \in [owner : Requests, old : BOOLEAN] /\ lock.owner = v)'
  BY DEF HolderInv
<1>1. CASE WriteLock(u)
  <2>1. v = u
    BY <1>1, SoleUpdater
  <2>2. lock' = [owner |-> u, old |-> FALSE]
    BY <1>1 DEF WriteLock
  <2> QED BY <2>1, <2>2
<1>2. CASE Release(u)
  <2>1. ~Ask(u)
    BY <1>2 DEF Release, Ask, At
  <2> QED BY <1>2, <2>1, SoleUpdater, ReleaseOutside
<1>3. CASE ~WriteLock(u) /\ ~Release(u)
  <2>1. lock' = lock
    BY <1>3, LockKept
  <2>2. v \in Updating
    BY <1>3, SoleUpdater, AskOutside
  <2> QED BY <2>1, <2>2, SoleUpdater DEF HolderInv
<1> QED BY <1>1, <1>2, <1>3

LEMMA AgeKeeps ==
  ASSUME UpdaterTypeOK, Age
  PROVE  UNCHANGED <<req, head, edited, stash, schema, events, Updating>>
BY DEF Age, tree, database, schema, Updating

LEMMA CheckpointKeeps ==
  ASSUME UpdaterTypeOK, Checkpoint
  PROVE  UNCHANGED <<req, lock, head, edited, stash, schema, events, Updating>>
BY DEF Checkpoint, tree, schema, Updating

LEMMA CrashEnds ==
  ASSUME UpdaterTypeOK, Crash
  PROVE  /\ Updating' = {}
         /\ \A u \in Requests : req'[u].pc \in {"idle", "write", "commit"} => req'[u] = req[u]
         /\ "crash" \in events'
         /\ UNCHANGED <<head, edited, stash, schema, lock>>
<1>1. \A u \in Requests : req'[u] = IF req[u].pc \in {"idle", "done"} THEN req[u]
                                    ELSE [NewRequest EXCEPT !.pc = "dead"]
  BY DEF Crash
<1>2. [NewRequest EXCEPT !.pc = "dead"].pc = "dead"
  BY DEF NewRequest
<1>3. \A u \in Requests : req'[u].pc \in {"idle", "done", "dead"}
  BY <1>1, <1>2
<1>4. Updating' = {}
  BY <1>3 DEF Updating, Locked
<1> QED BY <1>1, <1>2, <1>4 DEF Crash, Breaks, Disk, tree, database, schema

LEMMA HolderNext == UpdaterTypeOK /\ HolderInv /\ [Next]_vars => HolderInv'
<1> SUFFICES ASSUME UpdaterTypeOK, HolderInv, [Next]_vars PROVE HolderInv'
  OBVIOUS
<1>1. CASE UNCHANGED vars
  BY <1>1 DEF HolderInv, Clean, Updating, vars
<1>2. CASE Age
  <2>1. lock \in [owner : Requests, old : BOOLEAN] =>
          lock' \in [owner : Requests, old : BOOLEAN] /\ lock'.owner = lock.owner
    BY <1>2 DEF Age
  <2> QED BY <1>2, <2>1, AgeKeeps DEF HolderInv, Clean
<1>3. CASE Checkpoint
  BY <1>3, CheckpointKeeps DEF HolderInv, Clean
<1>4. CASE Crash
  BY <1>4, CrashEnds DEF HolderInv
<1> QED BY <1>1, <1>2, <1>3, <1>4, HolderStep DEF Next

LEMMA NoneAtFirst == Init => Updating = {} /\ \A u \in Requests : req[u] = NewRequest
BY DEF Init, Updating, NewRequest, Locked

LEMMA HolderImplies == HolderInv => OneUpdater
<1> SUFFICES ASSUME HolderInv, events \cap {"raced", "expired"} = {}
             PROVE  ~(Cardinality(Updating) > 1)
  BY DEF OneUpdater
<1>1. \A u \in Updating : u = lock.owner
  BY DEF HolderInv, Clean, Overlaps
<1>2. Updating = {} \/ Updating = {lock.owner}
  BY <1>1
<1>3. Cardinality(Updating) = 0 \/ Cardinality(Updating) = 1
  BY <1>2, FS_EmptySet, FS_Singleton
<1> QED BY <1>3

(* Two requests update at the same time only after a race for the lock     *)
(* file or after a lock outlived its 1800 seconds, however many requests   *)
(* there are and whatever fails.                                           *)
THEOREM OneAtATime == Spec => []OneUpdater
<1>1. Init => HolderInv
  BY NoneAtFirst DEF HolderInv
<1>2. UpdaterTypeOK /\ HolderInv /\ [Next]_vars => HolderInv'
  BY HolderNext
<1>3. HolderInv => OneUpdater
  BY HolderImplies
<1> QED
  BY <1>1, <1>2, <1>3, UpdaterTypeCorrect, PTL DEF Spec

(* A step of a request takes the lock along when its owner ends.           *)
LEMMA OwnedStep ==
  ASSUME UpdaterTypeOK, LockOwned, NEW u \in Requests, Step(u)
  PROVE  LockOwned'
<1> SUFFICES ASSUME lock' # None
             PROVE  lock'.owner \in Requests
                    /\ req'[lock'.owner].pc \in Locked \cup {"dead"}
  BY DEF LockOwned, Updating, At
<1>1. CASE WriteLock(u)
  BY <1>1, StageAfter DEF WriteLock, Locked
<1>2. CASE Release(u)
  BY <1>2 DEF Release
<1>3. CASE ~WriteLock(u) /\ ~Release(u)
  <2> DEFINE o == lock.owner
  <2>1. lock' = lock /\ o \in Requests /\ req[o].pc \in Locked \cup {"dead"}
    BY <1>3, LockKept DEF LockOwned, Updating, At, UpdaterTypeOK
  <2>2. CASE o # u
    BY <2>1, <2>2, OthersKept
  <2>3. CASE o = u
    <3>1. ~Ask(u)
      BY <2>1, <2>3 DEF Ask, At, Locked
    <3>2. req'[u].pc \in Locked \cup {"dead"}
      BY <1>3, <3>1, StageAfter DEF Step, Locked
    <3> QED BY <2>1, <2>3, <3>2
  <2> QED BY <2>2, <2>3
<1> QED BY <1>1, <1>2, <1>3

LEMMA OwnedNext == UpdaterTypeOK /\ LockOwned /\ [Next]_vars => LockOwned'
<1> SUFFICES ASSUME UpdaterTypeOK, LockOwned, [Next]_vars PROVE LockOwned'
  OBVIOUS
<1>1. CASE UNCHANGED vars
  BY <1>1 DEF LockOwned, Updating, At, vars
<1>2. CASE Age
  BY <1>2 DEF Age, LockOwned, Updating, At, UpdaterTypeOK
<1>3. CASE Checkpoint
  BY <1>3 DEF Checkpoint, LockOwned, Updating, At
<1>4. CASE Crash
  <2>1. lock' = lock /\ (lock # None => lock.owner \in Requests)
    BY <1>4 DEF Crash, Disk, UpdaterTypeOK
  <2>2. lock # None => req[lock.owner].pc \notin {"idle", "done"}
    BY DEF LockOwned, Updating, At, Locked
  <2>3. lock # None => req'[lock.owner] = [NewRequest EXCEPT !.pc = "dead"]
    BY <1>4, <2>1, <2>2 DEF Crash
  <2> QED BY <2>1, <2>3 DEF LockOwned, At, NewRequest
<1> QED BY <1>1, <1>2, <1>3, <1>4, OwnedStep DEF Next

(* A lock file that is left is of an update under way or of one that died, *)
(* however many requests there are and whatever fails.                     *)
THEOREM LocksGo == Spec => []LockOwned
<1>1. Init => LockOwned
  BY DEF Init, LockOwned
<1> QED
  BY <1>1, OwnedNext, UpdaterTypeCorrect, PTL DEF Spec

-----------------------------------------------------------------------------
(* The local changes.                                                      *)

LEMMA FreshNext == UpdaterTypeOK /\ FreshInv /\ [Next]_vars => FreshInv'
<1> SUFFICES ASSUME UpdaterTypeOK, FreshInv, [Next]_vars PROVE FreshInv'
  OBVIOUS
<1>1. ASSUME NEW u \in Requests, Step(u) PROVE FreshInv'
  <2> SUFFICES ASSUME NEW v \in Requests, req'[v].pc \in {"idle", "write", "commit"}
               PROVE  ~req'[v].stashed /\ ~req'[v].handler /\ ~req'[v].success
    BY DEF FreshInv
  <2>1. CASE v # u
    BY <1>1, <2>1, OthersKept DEF FreshInv
  <2>2. CASE v = u /\ (Ask(u) \/ WriteLock(u))
    BY <2>2, AfterMoves, StagesKnown DEF FreshInv, Ask, WriteLock, At
  <2>3. CASE v = u /\ ~Ask(u) /\ ~WriteLock(u)
    <3>1. req'[u].pc \notin {"idle", "write", "commit"}
      BY <1>1, <2>3, StageAfter DEF Step
    <3> QED BY <2>3, <3>1
  <2> QED BY <2>1, <2>2, <2>3
<1>2. CASE UNCHANGED vars
  BY <1>2 DEF FreshInv, vars
<1>3. CASE Age
  BY <1>3, AgeKeeps DEF FreshInv
<1>4. CASE Checkpoint
  BY <1>4, CheckpointKeeps DEF FreshInv
<1>5. CASE Crash
  BY <1>5, CrashEnds DEF FreshInv
<1> QED BY <1>1, <1>2, <1>3, <1>4, <1>5 DEF Next

LEMMA ExcusedGrow ==
  ASSUME NEW u \in Requests, Step(u), Clean(Excused)'
  PROVE  Clean(Excused) /\ Clean(Overlaps)'
BY EventsGrow DEF Clean, Excused, Overlaps

(* The one request that updates, at each of its steps.                     *)
LEMMA EditAtStep ==
  ASSUME UpdaterTypeOK, NEW u \in Requests, EditAt(u), Step(u), ~Ask(u), ~WriteLock(u),
         Clean(Excused)'
  PROVE  EditAt(u)'
<1> DEFINE r == req[u]
<1>a. /\ req \in [Requests -> Request] /\ r \in Request
      /\ r.after \in {"restore", "release"} /\ stash \in Seq(Requests \cup {None})
  BY DEF UpdaterTypeOK, Request
<1>1. CASE ReadCommit(u) \/ Backup(u)
  <2>1. req'[u].pc \in {"backup", "stash", "release", "dead"}
    BY <1>1, StageAfter
  <2>2. ~r.stashed
    BY <1>1 DEF EditAt, ReadCommit, Backup, At
  <2>3. CASE req'[u].pc \in {"release", "dead"}
    BY <2>3 DEF EditAt, Away
  <2>4. CASE req'[u].stashed = r.stashed
    BY <2>1, <2>2, <2>4 DEF EditAt, Away
  <2>5. /\ Becomes(u, [r EXCEPT !.pc = "backup", !.prev = head]) => req'[u].stashed = r.stashed
        /\ Becomes(u, [r EXCEPT !.pc = "stash", !.snap = file]) => req'[u].stashed = r.stashed
    BY <1>a, AfterBecomes DEF Request
  <2> QED BY <1>1, <2>3, <2>4, <2>5, AfterMoves, AfterEnds, StagesKnown DEF ReadCommit, Backup
<1>2. CASE Stash(u)
  <2>1. CASE edited /\ stash' = <<u>> \o stash /\ edited' = FALSE
             /\ Becomes(u, [r EXCEPT !.pc = "fetch", !.stashed = TRUE])
    <3>1. stash' # <<>> /\ stash'[1] = u
      BY <2>1, <1>a, ConcatProperties
    <3>2. req'[u].pc = "fetch"
      BY <1>2, StageAfter
    <3> QED BY <2>1, <3>1, <3>2 DEF EditAt
  <2>2. CASE ~edited /\ ~untracked /\ Moves(u, "fetch") /\ UNCHANGED <<stash, edited>>
    BY <1>2, <2>2, AfterMoves, StagesKnown DEF EditAt, Stash, At
  <2>3. CASE Notes({"empty_stash"}) \/ Breaks({"unstashed"})
    BY <2>3 DEF Notes, Breaks, Clean, Excused
  <2> QED BY <1>2, <2>1, <2>2, <2>3 DEF Stash
<1>3. CASE Fetch(u) \/ Merge(u) \/ Migrate(u) \/ Frontend(u)
  <2>1. UNCHANGED <<stash, edited>> /\ r.pc \in Away
    BY <1>3 DEF Fetch, Merge, Migrate, Frontend, Disk, tree, At, Away
  <2>2. req'[u].stashed = r.stashed /\ req'[u].pc \notin {"commit", "backup", "stash"}
    BY <1>3, AfterMoves, AfterRollsBack, StagesKnown DEF Fetch, Merge, Migrate, Frontend
  <2> QED BY <2>1, <2>2 DEF EditAt
<1>4. CASE Compare(u)
  <2>1. UNCHANGED <<stash, edited>> /\ r.pc \in Away
    BY <1>4 DEF Compare, Disk, tree, At, Away
  <2>2. req'[u].stashed = r.stashed /\ req'[u].pc \in {"current", "migrate"}
    BY <1>4, AfterCompare
  <2> QED BY <2>1, <2>2 DEF EditAt
<1>5. CASE Current(u) \/ Reapply(u) \/ Record(u) \/ Unstash(u) \/ Restore(u) \/ Release(u)
  <2>1. req'[u].pc \in {"record", "restore", "release", "done"}
    BY <1>5, StageAfter
  <2> QED BY <2>1 DEF EditAt, Away
<1>6. CASE Reset(u)
  <2>1. CASE req'[u].pc \in {"restore", "release"}
    BY <2>1 DEF EditAt, Away
  <2>2. CASE req'[u].pc = "unstash" /\ req'[u].stashed = r.stashed
    <3>1. stash' = stash /\ (edited' = FALSE \/ edited' = edited)
      BY <1>6 DEF Reset
    <3>2. ~edited /\ (r.stashed => stash # <<>> /\ stash[1] \in Requests)
      BY <1>6 DEF EditAt, Reset, At, Away
    <3> QED BY <2>2, <3>1, <3>2 DEF EditAt
  <2>3. r.after \in Stages
    BY <1>a, StagesKnown
  <2> QED BY <1>6, <1>a, <2>1, <2>2, <2>3, AfterMoves, StagesKnown DEF Reset
<1>7. CASE Raise(u)
  <2>1. r.pc \notin {"backup", "stash", "record", "restore"}
    BY <1>7 DEF Raise, RaisedAt, Breaks, Clean, Excused
  <2>2. UNCHANGED <<stash, edited>> /\ r.pc \in Away
    BY <1>7, <2>1 DEF Raise, MayRaise, Disk, tree, Away
  <2>3. req'[u].stashed = r.stashed /\ req'[u].pc \in {"release", "reset"}
    BY <1>7, AfterRaise, StageAfter
  <2> QED BY <2>2, <2>3 DEF EditAt
<1> QED BY <1>1, <1>2, <1>3, <1>4, <1>5, <1>6, <1>7 DEF Step

LEMMA EditStep ==
  ASSUME UpdaterTypeOK, HolderInv, FreshInv, EditInv, NEW u \in Requests, Step(u)
  PROVE  EditInv'
<1> SUFFICES ASSUME Clean(Excused)', NEW v \in Updating' PROVE EditAt(v)'
  BY DEF EditInv
<1>a. Clean(Excused) /\ Clean(Overlaps)'
  BY ExcusedGrow
<1>1. CASE Ask(u)
  <2>1. v \in Updating /\ req'[v] = req[v]
    BY <1>1, <1>a, SoleUpdater, AskOutside
  <2> QED BY <1>1, <1>a, <2>1, AskOutside DEF EditInv, EditAt, Disk, tree
<1>2. CASE WriteLock(u)
  <2>1. v = u /\ req'[u].pc = "commit" /\ req'[u].stashed = req[u].stashed
    <3>1. ~Ask(u)
      BY <1>2 DEF Ask, WriteLock, At
    <3> QED BY <1>2, <1>a, <3>1, SoleUpdater, AfterMoves, StagesKnown DEF WriteLock
  <2>2. ~req[u].stashed
    BY <1>2 DEF FreshInv, WriteLock, At
  <2> QED BY <2>1, <2>2 DEF EditAt, Away
<1>3. CASE ~Ask(u) /\ ~WriteLock(u)
  BY <1>3, <1>a, SoleUpdater, EditAtStep DEF EditInv
<1> QED BY <1>1, <1>2, <1>3

LEMMA EditNext ==
  UpdaterTypeOK /\ HolderInv /\ FreshInv /\ EditInv /\ [Next]_vars => EditInv'
<1> SUFFICES ASSUME UpdaterTypeOK, HolderInv, FreshInv, EditInv, [Next]_vars PROVE EditInv'
  OBVIOUS
<1>1. CASE UNCHANGED vars
  BY <1>1 DEF EditInv, EditAt, Clean, Updating, vars, tree
<1>2. CASE Age
  BY <1>2, AgeKeeps DEF EditInv, EditAt, Clean
<1>3. CASE Checkpoint
  BY <1>3, CheckpointKeeps DEF EditInv, EditAt, Clean
<1>4. CASE Crash
  BY <1>4, CrashEnds DEF EditInv
<1> QED BY <1>1, <1>2, <1>3, <1>4, EditStep DEF Next

(* Taking the newest entry from a stash that has one of an update on top.  *)
LEMMA PopKeepsOwn ==
  ASSUME UpdaterTypeOK, stash # <<>>, stash[1] \in Requests, OwnStash, stash' = Tail(stash)
  PROVE  OwnStash'
<1>1. stash \in Seq(Requests \cup {None})
  BY DEF UpdaterTypeOK
<1>2. Len(stash) \in Nat /\ Len(stash) > 1
  BY <1>1, UpdaterAssumption DEF OwnStash
<1>3. /\ Len(Tail(stash)) = Len(stash) - 1
      /\ \A i \in 1 .. Len(Tail(stash)) : Tail(stash)[i] = stash[i + 1]
  BY <1>1, HeadTailProperties
<1>4. Tail(stash)[Len(stash) - 1] = stash[Len(stash)]
  BY <1>2, <1>3
<1>5. Tail(stash) # <<>>
  BY <1>2, <1>3
<1> QED BY <1>3, <1>4, <1>5 DEF OwnStash

LEMMA ChangesStep ==
  ASSUME UpdaterTypeOK, HolderInv, FreshInv, EditInv, NEW u \in Requests, Step(u),
         Clean(Excused)'
  PROVE  (HasEdit => HasEdit') /\ (OwnStash => OwnStash')
<1> DEFINE r == req[u]
<1>a. stash \in Seq(Requests \cup {None}) /\ r.stashed \in BOOLEAN
  BY DEF UpdaterTypeOK, Request
<1>b. Clean(Excused) /\ Clean(Overlaps)'
  BY ExcusedGrow
<1>1. CASE UNCHANGED <<stash, edited>>
  BY <1>1 DEF HasEdit, OwnStash
<1>2. CASE Stash(u)
  <2>1. CASE stash' = <<u>> \o stash
    <3>1. /\ stash' \in Seq(Requests \cup {None}) /\ Len(stash') = 1 + Len(stash)
          /\ \A i \in 1 .. Len(stash') : stash'[i] = IF i <= 1 THEN u ELSE stash[i - 1]
      BY <2>1, <1>a, ConcatProperties
    <3>2. stash'[1] = u /\ 1 \in 1 .. Len(stash') /\ stash' # <<>>
      BY <3>1, <1>a
    <3>3. stash # <<>> => Len(stash) > 0 /\ stash'[Len(stash')] = stash[Len(stash)]
      BY <3>1, <1>a
    <3> QED BY <3>2, <3>3 DEF HasEdit, OwnStash
  <2> QED BY <1>1, <1>2, <2>1 DEF Stash
<1>3. CASE (Current(u) \/ Reapply(u) \/ Unstash(u)) /\ ~(UNCHANGED <<stash, edited>>)
  <2>1. r.stashed /\ stash # <<>> /\ stash' = Tail(stash) /\ edited' = TRUE
    BY <1>3, <1>a DEF Current, Reapply, Unstash, PopsIf, Pops
  <2>2. u \in Updating /\ r.pc \in Away
    BY <1>3 DEF Current, Reapply, Unstash, At, Updating, Locked, Away
  <2>3. stash[1] \in Requests
    BY <1>b, <2>1, <2>2 DEF EditInv, EditAt
  <2> QED BY <2>1, <2>3, PopKeepsOwn DEF HasEdit
<1>4. CASE Reset(u)
  <2>1. u \in Updating /\ r.pc \in Away
    BY <1>4 DEF Reset, At, Updating, Locked, Away
  <2>2. ~edited
    BY <1>b, <2>1 DEF EditInv, EditAt
  <2>3. stash' = stash /\ edited' = edited
    BY <1>4, <2>2 DEF Reset, UpdaterTypeOK
  <2> QED BY <2>3, <1>1
<1> QED
  BY <1>1, <1>2, <1>3, <1>4 DEF Step, Ask, WriteLock, ReadCommit, Backup, Fetch, Merge,
     Compare, Migrate, Frontend, Record, Restore, Release, Raise, Disk, tree

(* The local changes stay in the tree or in the stash, and the user's own  *)
(* stash where it is, through every failure that is not among those named, *)
(* crashes included, for any number of requests and failures.              *)
THEOREM EditsSurvive == Spec => ChangesKept
<1> DEFINE Inv == UpdaterTypeOK /\ HolderInv /\ FreshInv /\ EditInv
<1>1. Init => Inv
  BY NoneAtFirst, InitTyped DEF HolderInv, FreshInv, EditInv, NewRequest
<1>2. Inv /\ [Next]_vars => Inv'
  BY NextTyped, HolderNext, FreshNext, EditNext
<1>3. ASSUME Inv, [Next]_vars
      PROVE  [events' \cap Excused = {} =>
                (HasEdit => HasEdit') /\ (OwnStash => OwnStash')]_vars
  <2>1. CASE UNCHANGED vars
    BY <2>1
  <2>2. CASE Age \/ Checkpoint \/ Crash
    <3>1. UNCHANGED <<stash, edited>>
      BY <1>3, <2>2, AgeKeeps, CheckpointKeeps, CrashEnds
    <3> QED BY <3>1 DEF HasEdit, OwnStash
  <2>3. CASE \E u \in Requests : Step(u)
    BY <1>3, <2>3, ChangesStep DEF Clean
  <2> QED BY <1>3, <2>1, <2>2, <2>3 DEF Next
<1> QED
  BY <1>1, <1>2, <1>3, PTL DEF Spec, ChangesKept
-----------------------------------------------------------------------------
(* The schema and the code.                                                *)

(* What a connection reads after what can happen to the file and its log.  *)
LEMMA SchemaKept == UNCHANGED database => schema' = schema
BY DEF database, schema

LEMMA WritesSets ==
  ASSUME UpdaterTypeOK, NEW to \in Commits, Writes(to)
  PROVE  schema' = to
BY UpdaterAssumption DEF UpdaterTypeOK, Writes, schema

LEMMA SchemaAtStep ==
  ASSUME UpdaterTypeOK, NEW u \in Requests, SchemaAt(u), Step(u), ~Ask(u), ~WriteLock(u),
         Clean(SchemaMishaps)'
  PROVE  SchemaAt(u)' /\ (req'[u].pc \in {"done", "dead"} => schema' = head')
<1> DEFINE r == req[u]
<1>a. /\ r \in Request /\ head \in Commits /\ schema \in Commits /\ r.after \in Stages
      /\ r.after \in {"restore", "release"}
  BY SchemaTyped DEF UpdaterTypeOK, Request, Stages, Locked
<1>b. \A what \in {"no_commit", "snapshot_lost", "log_passed", "late_raise",
                   "rollback_failed", "restore_raised"} : what \notin events'
  BY DEF Clean, SchemaMishaps, Events
<1>1. CASE ReadCommit(u)
  <2>1. UNCHANGED <<head, schema>> /\ schema = head /\ ~r.handler
    BY <1>1, SchemaKept DEF ReadCommit, Disk, tree, SchemaAt, At
  <2>2. \/ req'[u].pc = "backup" /\ req'[u].prev = head /\ req'[u].handler = r.handler
        \/ req'[u].pc = "dead"
    <3>1. ~Breaks({"no_commit"})
      BY <1>b DEF Breaks
    <3>2. Becomes(u, [r EXCEPT !.pc = "backup", !.prev = head]) \/ Ends(u, "dead")
      BY <1>1, <3>1 DEF ReadCommit
    <3>3. CASE Ends(u, "dead")
      BY <3>3, AfterEnds, StagesKnown
    <3>4. CASE Becomes(u, [r EXCEPT !.pc = "backup", !.prev = head])
      <4>1. req'[u] = [r EXCEPT !.pc = "backup", !.prev = head]
        BY <3>4, AfterBecomes
      <4> QED BY <1>a, <4>1 DEF Request
    <3> QED BY <3>2, <3>3, <3>4
  <2> QED BY <2>1, <2>2 DEF SchemaAt
<1>2. CASE Backup(u)
  <2>1. UNCHANGED <<head, schema>> /\ schema = head /\ ~r.handler /\ r.prev = head
    BY <1>2, SchemaKept DEF Backup, Disk, tree, SchemaAt, At
  <2>2. \/ /\ req'[u].pc = "stash" /\ req'[u].prev = r.prev /\ req'[u].handler = r.handler
           /\ req'[u].snap = schema
        \/ req'[u].pc = "release"
    <3>1. ~Breaks({"snapshot_lost"})
      BY <1>b DEF Breaks
    <3>2. CASE Moves(u, "release")
      BY <3>2, AfterMoves, StagesKnown
    <3>3. CASE /\ Becomes(u, [r EXCEPT !.pc = "stash", !.snap = file])
               /\ Notes(IF log = None THEN {} ELSE {"log_passed"})
      <4>1. file = schema
        BY <1>b, <3>3 DEF Notes, schema
      <4> QED BY <3>3, <4>1, AfterSets
    <3> QED BY <1>2, <3>1, <3>2, <3>3 DEF Backup
  <2> QED BY <2>1, <2>2 DEF SchemaAt
<1>3. CASE Stash(u)
  <2>1. /\ UNCHANGED <<head, schema>> /\ schema = head /\ ~r.handler /\ r.prev = head
        /\ r.snap = schema
    BY <1>3, SchemaKept DEF Stash, SchemaAt, At
  <2>2. req'[u].prev = r.prev /\ req'[u].handler = r.handler /\ req'[u].snap = r.snap
    BY <1>3, AfterMoves, AfterSets, StagesKnown DEF Stash
  <2>3. req'[u].pc = "fetch"
    BY <1>3, StageAfter
  <2> QED BY <2>1, <2>2, <2>3 DEF SchemaAt
<1>4. CASE Fetch(u) \/ Merge(u)
  <2>1. schema' = schema /\ ~r.handler /\ schema = head /\ r.prev = head /\ r.snap = schema
    BY <1>4, SchemaKept DEF Fetch, Merge, tree, SchemaAt, At
  <2>2. /\ req'[u].prev = r.prev /\ req'[u].handler = r.handler /\ req'[u].snap = r.snap
        /\ req'[u].after = r.after
    BY <1>4, AfterMoves, StagesKnown DEF Fetch, Merge
  <2>3. \/ req'[u].pc = "merge" /\ head' = head
        \/ req'[u].pc \in {"compare", "reset"}
    BY <1>4, StageAfter DEF Fetch, tree
  <2> QED BY <1>a, <2>1, <2>2, <2>3 DEF SchemaAt
<1>5. CASE Compare(u)
  <2>1. UNCHANGED <<head, schema>> /\ r.prev = schema /\ r.snap = schema /\ ~r.handler
    BY <1>5, SchemaKept DEF Compare, Disk, tree, SchemaAt, At
  <2>2. \/ head = r.prev /\ req'[u].pc = "current"
        \/ req'[u].pc = "migrate"
    BY <1>5, <1>b, AfterCompare
  <2>3. req'[u].prev = r.prev /\ req'[u].snap = r.snap /\ req'[u].handler = r.handler
    BY <1>5, AfterCompare
  <2> QED BY <2>1, <2>2, <2>3 DEF SchemaAt
<1>5a. CASE Current(u)
  <2>1. UNCHANGED <<head, schema>> /\ schema = head
    BY <1>5a, SchemaKept DEF Current, SchemaAt, At
  <2>2. req'[u].pc = "release"
    BY <1>5a, StageAfter
  <2> QED BY <2>1, <2>2 DEF SchemaAt
<1>6. CASE Migrate(u)
  <2>1. head' = head /\ r.prev \in Commits /\ r.snap = r.prev
    BY <1>6, <1>a, SchemaTyped DEF Migrate, tree, SchemaAt, At
  <2>2. CASE Moves(u, "frontend") /\ Writes(head)
    <3>1. schema' = head
      BY <1>a, <2>2, WritesSets
    <3> QED BY <2>1, <2>2, <3>1, AfterMoves, StagesKnown DEF SchemaAt
  <2>3. CASE RollsBack(u, "restore")
    BY <2>1, <2>3, AfterRollsBack DEF SchemaAt
  <2> QED BY <1>6, <2>2, <2>3 DEF Migrate
<1>7. CASE Frontend(u)
  <2>1. UNCHANGED <<head, schema>> /\ schema = head /\ r.prev \in Commits /\ r.snap = r.prev
    BY <1>7, SchemaKept DEF Frontend, Disk, tree, SchemaAt, At
  <2>2. CASE Moves(u, "reapply")
    BY <2>1, <2>2, AfterMoves, StagesKnown DEF SchemaAt
  <2>3. CASE RollsBack(u, "restore")
    BY <2>1, <2>3, AfterRollsBack DEF SchemaAt
  <2> QED BY <1>7, <2>2, <2>3 DEF Frontend
<1>8. CASE Reapply(u) \/ Record(u) \/ Release(u)
  <2>1. UNCHANGED <<head, schema>> /\ schema = head
    BY <1>8, SchemaKept DEF Reapply, Record, Release, Disk, tree, SchemaAt, At
  <2>2. req'[u].pc \in {"record", "release", "done"}
    BY <1>8, StageAfter
  <2> QED BY <2>1, <2>2 DEF SchemaAt
<1>9. CASE Reset(u)
  <2>1. /\ schema' = schema /\ r.prev \in Commits /\ r.prev # None
        /\ r.after = "restore" => r.snap = r.prev
        /\ r.after = "release" => r.prev = schema
    BY <1>9, SchemaKept, UpdaterAssumption DEF Reset, SchemaAt, At
  <2>2. head' = r.prev /\ Moves(u, "unstash")
    BY <1>9, <1>b, <2>1 DEF Reset, Breaks
  <2> QED BY <2>1, <2>2, AfterMoves, StagesKnown DEF SchemaAt
<1>10. CASE Unstash(u)
  <2>1. /\ UNCHANGED <<head, schema>>
        /\ r.after = "restore" => r.snap = head
        /\ r.after = "release" => schema = head
    BY <1>10, SchemaKept DEF Unstash, SchemaAt, At
  <2>2. req'[u].pc = r.after /\ req'[u].snap = r.snap
    BY <1>10, <1>a, AfterMoves DEF Unstash
  <2> QED BY <1>a, <2>1, <2>2 DEF SchemaAt
<1>11. CASE Restore(u)
  <2>1. head' = head /\ r.snap = head /\ head # None
    BY <1>11, <1>a, UpdaterAssumption DEF Restore, tree, SchemaAt, At
  <2>2. schema' = head
    BY <1>11, <1>b, <2>1 DEF Restore, Notes, Breaks, schema
  <2>3. req'[u].pc = "release"
    BY <1>11, StageAfter
  <2> QED BY <2>1, <2>2, <2>3 DEF SchemaAt
<1>12. CASE Raise(u)
  <2>1. r.pc \in {"backup", "stash", "fetch", "merge", "compare", "current"}
    BY <1>12, <1>b DEF Raise, MayRaise, RaisedAt, Breaks
  <2>2. UNCHANGED <<head, schema>> /\ r.prev = schema /\ ~r.handler
    BY <1>12, <2>1, SchemaKept DEF Raise, Disk, tree, SchemaAt
  <2>3. req'[u].pc = "reset" /\ req'[u].after = "release" /\ req'[u].prev = r.prev
    BY <1>12, <2>2, AfterRaise
  <2> QED BY <1>a, <2>2, <2>3 DEF SchemaAt
<1> QED
  BY <1>1, <1>2, <1>3, <1>4, <1>5, <1>5a, <1>6, <1>7, <1>8, <1>9, <1>10, <1>11, <1>12 DEF Step

LEMMA SchemaStep ==
  ASSUME UpdaterTypeOK, HolderInv, FreshInv, SchemaInv, NEW u \in Requests, Step(u)
  PROVE  SchemaInv'
<1> SUFFICES ASSUME Clean(SchemaMishaps)'
             PROVE  /\ Updating' = {} => schema' = head'
                    /\ \A v \in Updating' : SchemaAt(v)'
  BY DEF SchemaInv
<1>a. Clean(SchemaMishaps) /\ Clean(Overlaps)'
  BY EventsGrow DEF Clean, SchemaMishaps, Overlaps, Events
<1>1. CASE Ask(u)
  <2>1. UNCHANGED <<head, schema>>
    BY <1>1, AskOutside, SchemaKept DEF Disk, tree
  <2>2. \A v \in Updating' : v \in Updating /\ req'[v] = req[v]
    BY <1>1, <1>a, SoleUpdater, AskOutside
  <2>3. \A v \in Updating : v # u /\ v \in Updating'
    BY <1>1, OthersKept DEF Ask, At, Updating, Locked
  <2> QED BY <1>a, <2>1, <2>2, <2>3 DEF SchemaInv, SchemaAt
<1>2. CASE WriteLock(u)
  <2>1. UNCHANGED <<head, schema>> /\ schema = head
    BY <1>2, <1>a, SoleUpdater, SchemaKept DEF WriteLock, tree, SchemaInv
  <2>2. req'[u].pc = "commit" /\ ~req'[u].handler
    BY <1>2, AfterMoves, StagesKnown DEF WriteLock, FreshInv, At
  <2>3. \A v \in Updating' : v = u
    BY <1>2, <1>a, SoleUpdater DEF Ask, WriteLock, At
  <2> QED BY <2>1, <2>2, <2>3 DEF SchemaAt
<1>3. CASE ~Ask(u) /\ ~WriteLock(u)
  <2>1. Updating = {u} /\ \A v \in Updating' : v = u
    BY <1>3, <1>a, SoleUpdater
  <2>2. SchemaAt(u)' /\ (req'[u].pc \in {"done", "dead"} => schema' = head')
    BY <1>3, <1>a, <2>1, SchemaAtStep DEF SchemaInv
  <2>3. Updating' = {} => req'[u].pc \in {"done", "dead"}
    BY <1>3, StageAfter DEF Step, Updating, Locked
  <2> QED BY <2>1, <2>2, <2>3
<1> QED BY <1>1, <1>2, <1>3

LEMMA SchemaNext ==
  UpdaterTypeOK /\ HolderInv /\ FreshInv /\ SchemaInv /\ [Next]_vars => SchemaInv'
<1> SUFFICES ASSUME UpdaterTypeOK, HolderInv, FreshInv, SchemaInv, [Next]_vars
             PROVE  SchemaInv'
  OBVIOUS
<1>1. CASE UNCHANGED vars
  BY <1>1 DEF SchemaInv, SchemaAt, Clean, Updating, vars, tree, database, schema
<1>2. CASE Age
  BY <1>2, AgeKeeps DEF SchemaInv, SchemaAt, Clean
<1>3. CASE Checkpoint
  BY <1>3, CheckpointKeeps DEF SchemaInv, SchemaAt, Clean
<1>4. CASE Crash
  BY <1>4, CrashEnds DEF SchemaInv, Clean, SchemaMishaps, Events
<1> QED BY <1>1, <1>2, <1>3, <1>4, SchemaStep DEF Next

(* Whichever of backup, stash, fetch, merge, migration and frontend fails, *)
(* code and schema belong together again when nobody is updating, unless   *)
(* one of the named mishaps happened.                                      *)
THEOREM SchemaFollowsCode == Spec => []SchemaMatches
<1> DEFINE Inv == UpdaterTypeOK /\ HolderInv /\ FreshInv /\ SchemaInv
<1>1. Init => Inv
  <2>1. Init => schema = head
    BY DEF Init, schema
  <2> QED
    BY <2>1, NoneAtFirst, InitTyped DEF HolderInv, FreshInv, SchemaInv, NewRequest
<1>2. Inv /\ [Next]_vars => Inv'
  BY NextTyped, HolderNext, FreshNext, SchemaNext
<1>3. Inv => SchemaMatches
  BY DEF SchemaInv, SchemaMatches, Clean, SchemaMishaps
<1> QED
  BY <1>1, <1>2, <1>3, PTL DEF Spec
-----------------------------------------------------------------------------
(* The answers.                                                            *)

LEMMA AnswerAtStep ==
  ASSUME UpdaterTypeOK, NEW u \in Requests, AnswerAt(u), Step(u), ~Ask(u), ~WriteLock(u),
         Clean(AnswerMishaps)'
  PROVE  AnswerAt(u)'
<1> DEFINE r == req[u]
<1>a. /\ r \in Request /\ head \in Commits /\ r.after \in Stages
      /\ r.after \in {"restore", "release"}
  BY DEF UpdaterTypeOK, Request, Stages, Locked
<1>b. \A what \in {"no_commit", "late_raise", "rollback_failed"} : what \notin events'
  BY DEF Clean, AnswerMishaps
<1>1. CASE ReadCommit(u)
  <2>1. head' = head /\ ~r.handler /\ ~r.success
    BY <1>1 DEF ReadCommit, Disk, tree, AnswerAt, At
  <2>2. \/ /\ req'[u].pc = "backup" /\ req'[u].prev = head /\ req'[u].handler = r.handler
           /\ req'[u].success = r.success
        \/ req'[u].pc = "dead"
    <3>1. ~Breaks({"no_commit"})
      BY <1>b DEF Breaks
    <3>2. Becomes(u, [r EXCEPT !.pc = "backup", !.prev = head]) \/ Ends(u, "dead")
      BY <1>1, <3>1 DEF ReadCommit
    <3>3. CASE Ends(u, "dead")
      BY <3>3, AfterEnds, StagesKnown
    <3>4. CASE Becomes(u, [r EXCEPT !.pc = "backup", !.prev = head])
      <4>1. req'[u] = [r EXCEPT !.pc = "backup", !.prev = head]
        BY <3>4, AfterBecomes
      <4> QED BY <1>a, <4>1 DEF Request
    <3> QED BY <3>2, <3>3, <3>4
  <2> QED BY <1>a, <2>1, <2>2 DEF AnswerAt, Locked
<1>2. CASE Backup(u)
  <2>1. head' = head /\ ~r.handler /\ ~r.success /\ r.prev = head
    BY <1>2 DEF Backup, Disk, tree, AnswerAt, At
  <2>2. req'[u].prev = r.prev /\ req'[u].handler = r.handler /\ req'[u].success = r.success
    <3>1. CASE Moves(u, "stash") \/ Moves(u, "release")
      BY <3>1, AfterMoves, StagesKnown
    <3>2. CASE Becomes(u, [r EXCEPT !.pc = "stash", !.snap = file])
      BY <3>2, AfterSets
    <3> QED BY <1>2, <3>1, <3>2 DEF Backup
  <2>3. req'[u].pc \in {"stash", "release"}
    BY <1>2, StageAfter
  <2> QED BY <1>a, <2>1, <2>2, <2>3 DEF AnswerAt
<1>3. CASE Stash(u) \/ Fetch(u) \/ Merge(u)
  <2>1. ~r.handler /\ ~r.success /\ r.prev = head
    BY <1>3 DEF Stash, Fetch, Merge, AnswerAt, At
  <2>2. req'[u].prev = r.prev /\ req'[u].handler = r.handler /\ req'[u].success = r.success
    BY <1>3, AfterMoves, AfterSets, StagesKnown DEF Stash, Fetch, Merge
  <2>3. \/ req'[u].pc \in {"fetch", "merge"} /\ head' = head
        \/ req'[u].pc \in {"compare", "reset"}
    BY <1>3, StageAfter DEF Stash, Fetch, tree
  <2> QED BY <1>a, <2>1, <2>2, <2>3 DEF AnswerAt
<1>4. CASE Compare(u)
  <2>1. head' = head /\ ~r.handler /\ ~r.success /\ r.prev \in Commits
    BY <1>4 DEF Compare, Disk, tree, AnswerAt, At, Locked
  <2>2. /\ req'[u].pc \in {"current", "migrate"} /\ req'[u].new = head
        /\ req'[u].pc = "current" => r.prev = head
        /\ req'[u].prev = r.prev /\ req'[u].handler = r.handler
        /\ req'[u].success = r.success
    BY <1>4, <1>b, AfterCompare
  <2> QED BY <2>1, <2>2 DEF AnswerAt
<1>4a. CASE Current(u)
  <2>1. head' = head /\ r.new = head
    BY <1>4a DEF Current, AnswerAt, At
  <2>2. req'[u].pc = "release" /\ req'[u].new = r.new /\ req'[u].success
    BY <1>4a, AfterSets DEF Current
  <2> QED BY <2>1, <2>2 DEF AnswerAt
<1>5. CASE Migrate(u) \/ Frontend(u)
  <2>1. head' = head /\ ~r.handler /\ ~r.success /\ r.prev \in Commits /\ r.new = head
    BY <1>5 DEF Migrate, Frontend, Disk, tree, AnswerAt, At, Locked
  <2>2. /\ req'[u].prev = r.prev /\ req'[u].handler = r.handler
        /\ req'[u].success = r.success /\ req'[u].new = r.new
    BY <1>5, AfterMoves, AfterRollsBack, StagesKnown DEF Migrate, Frontend
  <2>3. req'[u].pc \in {"frontend", "reapply", "reset"}
    BY <1>5, StageAfter
  <2> QED BY <2>1, <2>2, <2>3 DEF AnswerAt
<1>6. CASE Reapply(u)
  <2>1. head' = head /\ ~r.handler /\ ~r.success /\ r.prev \in Commits /\ r.new = head
    BY <1>6 DEF Reapply, AnswerAt, At, Locked
  <2>2. /\ req'[u].prev = r.prev /\ req'[u].handler = r.handler
        /\ req'[u].success = r.success /\ req'[u].new = r.new
    BY <1>6, AfterSets DEF Reapply
  <2>3. req'[u].pc = "record"
    BY <1>6, StageAfter
  <2> QED BY <2>1, <2>2, <2>3 DEF AnswerAt
<1>7. CASE Record(u)
  <2>1. head' = head /\ r.new = head
    BY <1>7 DEF Record, Disk, tree, AnswerAt, At
  <2>2. req'[u].pc = "release" /\ req'[u].new = r.new /\ req'[u].success
    BY <1>7, AfterSets, StageAfter DEF Record
  <2> QED BY <2>1, <2>2 DEF AnswerAt
<1>8. CASE Reset(u)
  <2>1. r.prev \in Commits /\ r.prev # None /\ (r.success => r.new = r.prev)
    BY <1>8, UpdaterAssumption DEF Reset, AnswerAt, At, Locked
  <2>2. head' = r.prev /\ Moves(u, "unstash")
    BY <1>8, <1>b, <2>1 DEF Reset, Breaks
  <2> QED BY <2>1, <2>2, AfterMoves, StagesKnown DEF AnswerAt
<1>9. CASE Unstash(u) \/ Restore(u)
  <2>1. /\ head' = head /\ r.prev \in Commits /\ r.prev = head
        /\ r.success => r.new = r.prev
    BY <1>9 DEF Unstash, Restore, tree, AnswerAt, At, Locked
  <2>2. req'[u].prev = r.prev /\ req'[u].success = r.success /\ req'[u].new = r.new
    BY <1>9, <1>a, AfterMoves, StagesKnown DEF Unstash, Restore
  <2>3. req'[u].pc \in {"restore", "release"}
    BY <1>9, StageAfter
  <2> QED BY <2>1, <2>2, <2>3 DEF AnswerAt
<1>10. CASE Release(u)
  <2>1. req'[u].pc = "done"
    BY <1>10, StageAfter
  <2> QED BY <2>1 DEF AnswerAt, Locked
<1>11. CASE Raise(u)
  <2>1. r.pc \in {"backup", "stash", "fetch", "merge", "compare", "current", "restore"}
    BY <1>11, <1>b DEF Raise, MayRaise, RaisedAt, Breaks
  <2>2. /\ head' = head /\ r.prev \in Commits
        /\ req'[u].prev = r.prev /\ req'[u].new = r.new
    BY <1>11, <2>1, AfterRaise DEF Raise, Disk, tree, AnswerAt, Locked
  <2>3. CASE r.handler
    <3>1. r.pc = "restore" /\ r.prev = head /\ (r.success => r.new = r.prev)
      BY <2>1, <2>3 DEF AnswerAt
    <3>2. req'[u].pc = "release" /\ req'[u].success = r.success
      BY <1>11, <2>3, AfterRaise
    <3> QED BY <2>2, <3>1, <3>2 DEF AnswerAt
  <2>4. CASE ~r.handler
    <3>1. req'[u].pc = "reset" /\ (req'[u].success => r.pc = "current")
      BY <1>11, <2>1, <2>4, AfterRaise
    <3>2. r.pc = "current" => r.new = r.prev
      BY DEF AnswerAt
    <3> QED BY <2>2, <3>1, <3>2 DEF AnswerAt
  <2> QED BY <2>3, <2>4
<1> QED
  BY <1>1, <1>2, <1>3, <1>4, <1>4a, <1>5, <1>6, <1>7, <1>8, <1>9, <1>10, <1>11 DEF Step

LEMMA AnswerStep ==
  ASSUME UpdaterTypeOK, HolderInv, FreshInv, AnswerInv, NEW u \in Requests, Step(u)
  PROVE  AnswerInv'
<1> SUFFICES ASSUME Clean(AnswerMishaps)', NEW v \in Updating' PROVE AnswerAt(v)'
  BY DEF AnswerInv
<1>a. Clean(AnswerMishaps) /\ Clean(Overlaps)'
  BY EventsGrow DEF Clean, AnswerMishaps, Overlaps
<1>1. CASE Ask(u)
  <2>1. v \in Updating /\ req'[v] = req[v] /\ head' = head
    BY <1>1, <1>a, SoleUpdater, AskOutside DEF Disk, tree
  <2> QED BY <1>a, <2>1 DEF AnswerInv, AnswerAt
<1>2. CASE WriteLock(u)
  <2>1. ~req[u].handler /\ ~req[u].success /\ ~Ask(u)
    BY <1>2 DEF FreshInv, WriteLock, Ask, At
  <2>2. v = u
    BY <1>2, <1>a, <2>1, SoleUpdater
  <2>3. req'[u].pc = "commit" /\ ~req'[u].handler /\ ~req'[u].success
    BY <1>2, <2>1, AfterMoves, StagesKnown DEF WriteLock
  <2> QED BY <2>2, <2>3 DEF AnswerAt
<1>3. CASE ~Ask(u) /\ ~WriteLock(u)
  BY <1>3, <1>a, SoleUpdater, AnswerAtStep DEF AnswerInv
<1> QED BY <1>1, <1>2, <1>3

LEMMA AnswerNext ==
  UpdaterTypeOK /\ HolderInv /\ FreshInv /\ AnswerInv /\ [Next]_vars => AnswerInv'
<1> SUFFICES ASSUME UpdaterTypeOK, HolderInv, FreshInv, AnswerInv, [Next]_vars
             PROVE  AnswerInv'
  OBVIOUS
<1>1. CASE UNCHANGED vars
  BY <1>1 DEF AnswerInv, AnswerAt, Clean, Updating, vars, tree
<1>2. CASE Age
  BY <1>2, AgeKeeps DEF AnswerInv, AnswerAt, Clean
<1>3. CASE Checkpoint
  BY <1>3, CheckpointKeeps DEF AnswerInv, AnswerAt, Clean
<1>4. CASE Crash
  BY <1>4, CrashEnds DEF AnswerInv
<1> QED BY <1>1, <1>2, <1>3, <1>4, AnswerStep DEF Next

(* A request that ends leaves the commit it answers with, or the one it    *)
(* found, unless one of the named mishaps happened.                        *)
THEOREM AnswersHold == Spec => AnswersTruly
<1> DEFINE Inv == UpdaterTypeOK /\ HolderInv /\ FreshInv /\ AnswerInv
<1>1. Init => Inv
  BY NoneAtFirst, InitTyped DEF HolderInv, FreshInv, AnswerInv, NewRequest
<1>2. Inv /\ [Next]_vars => Inv'
  BY NextTyped, HolderNext, FreshNext, AnswerNext
<1>3. Inv => (Clean(AnswerMishaps) => \A u \in Requests : At(u, "release") =>
                head = IF req[u].success THEN req[u].new ELSE req[u].prev)
  BY DEF AnswerInv, AnswerAt, Updating, Locked, At
<1>4. Inv => [events \cap {"raced", "expired", "no_commit", "late_raise",
                           "rollback_failed"} = {}
                => \A u \in Requests : At(u, "release") /\ At(u, "done")'
                     => head = IF req[u].success THEN req[u].new ELSE req[u].prev]_vars
  BY <1>3 DEF Clean, AnswerMishaps
<1> QED
  BY <1>1, <1>2, <1>4, PTL DEF Spec, AnswersTruly
=============================================================================
