------------------------------- MODULE Updater -------------------------------
(***************************************************************************)
(* Updates of the installed program (backend/updater.py): requests that    *)
(* guard themselves with a lock file, back up, stash local changes, merge  *)
(* the new code, migrate the database, build the frontend, and roll back   *)
(* what fails, step by step in one working tree.                           *)
(*                                                                         *)
(* Abstractions.  A command (git, pip, npm, alembic) is one step that      *)
(* works, fails or raises.  A commit is a number, and needs the schema of  *)
(* that number.  The local changes are one edit of tracked files and,      *)
(* beside it, untracked files.  The database is SQLite in WAL mode with     *)
(* connections open (db/session.py:32): commits go to the log beside the    *)
(* file and a checkpoint moves them into it; of both the model keeps the    *)
(* schema.  The texts of the answer are left out.                           *)
(***************************************************************************)
EXTENDS Integers, Sequences

CONSTANTS
  Requests,   (* the requests to update                                    *)
  Tags,       (* the commits that carry a version tag                      *)
  MaxRelease, (* the newest commit that is ever published                  *)
  MaxFaults,  (* bound on failures: commands that fail or raise, crashes   *)
  None        (* no value                                                  *)

Commits == 0 .. MaxRelease

ASSUME UpdaterAssumption ==
  /\ MaxRelease \in Nat /\ MaxFaults \in Nat
  /\ Tags \subseteq Commits
  /\ None \notin Commits \cup Requests

VARIABLES
  req,      (* the requests                                                *)
  lock,     (* the lock file: its owner and whether it is 1800 s old       *)
  fetched,  (* the newest commit fetched of those that are published       *)
  head,     (* the commit the working tree is at                           *)
  edited,   (* does the working tree hold the local edit                   *)
  untracked,(* are there untracked files                                   *)
  stash,    (* the stack of stashes: who pushed each                       *)
  file,     (* the schema in the database file                             *)
  log,      (* the schema committed to its log and not yet in the file     *)
  faults,   (* how many failures there were                                *)
  events    (* history: what has gone wrong so far                         *)

tree == <<head, edited, untracked, stash>>
database == <<file, log>>
vars == <<req, lock, fetched, tree, database, faults, events>>

Events == {"raced", "expired", "no_commit", "snapshot_lost", "log_passed", "unstashed",
           "empty_stash", "late_raise", "rollback_failed", "restore_raised", "crash"}

\* The schema a connection reads: the log has precedence over the file.
schema == IF log = None THEN file ELSE log

\* Between the lock and its release.
Locked  == {"commit", "backup", "stash", "fetch", "merge", "compare", "current", "migrate",
            "frontend", "reapply", "record", "reset", "unstash", "restore",
            "release"}
Stages  == {"idle", "write", "done", "dead"} \cup Locked

Request == [pc      : Stages,
            prev    : Commits \cup {None},  \* previous_commit
            new     : Commits \cup {None},  \* new_commit
            snap    : Commits \cup {None},  \* the schema in db_snapshot
            stashed : BOOLEAN,
            handler : BOOLEAN,              \* in the except clause
            after   : {"restore", "release"},
            success : BOOLEAN]

NewRequest == [pc |-> "idle", prev |-> None, new |-> None, snap |-> None,
               stashed |-> FALSE, handler |-> FALSE, after |-> "release",
               success |-> FALSE]

\* The installation is at commit 0; the user has stashed something himself.
Init ==
  /\ req = [u \in Requests |-> NewRequest]
  /\ lock = None
  /\ fetched = 0 /\ head = 0
  /\ edited \in BOOLEAN /\ untracked \in (IF edited THEN {FALSE} ELSE BOOLEAN)
  /\ stash = <<None>>
  /\ file = 0 /\ log = None
  /\ faults = 0 /\ events = {}
-----------------------------------------------------------------------------
At(u, pc)       == req[u].pc = pc
Becomes(u, r)   == req' = [req EXCEPT ![u] = r]
Moves(u, pc)    == Becomes(u, [req[u] EXCEPT !.pc = pc])
Ends(u, pc)     == Becomes(u, [NewRequest EXCEPT !.pc = pc])
Updating        == {u \in Requests : req[u].pc \in Locked}

\* A command fails, or does not, and what that means.
Works         == UNCHANGED <<faults, events>>
Notes(what)   == events' = events \cup what /\ UNCHANGED faults
Breaks(what)  == /\ faults < MaxFaults
                 /\ faults' = faults + 1
                 /\ events' = events \cup what

Disk == <<lock, fetched, tree, database>>

\* A lock that keeps others out.
Fresh(l) == l # None /\ ~l.old

\* Variant: a request that is refused releases the lock, too.
AskReleases(u) ==
  /\ At(u, "idle")
  /\ Moves(u, IF Fresh(lock) THEN "release" ELSE "write")
  /\ Works /\ UNCHANGED Disk

\* The endpoint and _acquire_lock both look at the lock, and the second look
\* decides; the file is written in a further step.
Ask(u) ==
  /\ At(u, "idle")
  /\ Moves(u, IF Fresh(lock) THEN "done" ELSE "write")
  /\ Works /\ UNCHANGED Disk

WriteLock(u) ==
  /\ At(u, "write")
  /\ lock' = [owner |-> u, old |-> FALSE]
  /\ Notes((IF Fresh(lock) THEN {"raced"} ELSE {})
           \cup (IF ~Fresh(lock) /\ Updating # {} THEN {"expired"} ELSE {}))
  /\ Moves(u, "commit")
  /\ UNCHANGED <<fetched, tree, database>>

\* A git call that raises here is outside the try block: nothing more is done
\* for the request, as if the process had died.
ReadCommit(u) ==
  /\ At(u, "commit")
  /\ \/ Becomes(u, [req[u] EXCEPT !.pc = "backup", !.prev = head]) /\ Works
     \/ Moves(u, "backup") /\ Breaks({"no_commit"})
     \/ Ends(u, "dead") /\ Breaks({})
  /\ UNCHANGED Disk

\* Rows and database file.  The copy is of the file alone, without its log;
\* there is none of a database that is not SQLite.
Backup(u) ==
  /\ At(u, "backup")
  /\ \/ /\ Becomes(u, [req[u] EXCEPT !.pc = "stash", !.snap = file])
        /\ Notes(IF log = None THEN {} ELSE {"log_passed"})
     \/ Moves(u, "stash") /\ Breaks({"snapshot_lost"})
     \/ Moves(u, "release") /\ Breaks({})
  /\ UNCHANGED Disk
-----------------------------------------------------------------------------
(* The stash.  Untracked files count as changes, and stay where they are:  *)
(* a push that has nothing to push reports success.                        *)

Stash(u) ==
  /\ At(u, "stash")
  /\ \/ /\ edited
        /\ stash' = <<u>> \o stash /\ edited' = FALSE
        /\ Becomes(u, [req[u] EXCEPT !.pc = "fetch", !.stashed = TRUE])
        /\ Works
     \/ /\ ~edited /\ untracked
        /\ Becomes(u, [req[u] EXCEPT !.pc = "fetch", !.stashed = TRUE])
        /\ Notes({"empty_stash"})
        /\ UNCHANGED <<stash, edited>>
     \/ /\ ~edited /\ ~untracked
        /\ Moves(u, "fetch") /\ Works
        /\ UNCHANGED <<stash, edited>>
     \/ /\ edited \/ untracked
        /\ Moves(u, "fetch") /\ Breaks({"unstashed"})
        /\ UNCHANGED <<stash, edited>>
  /\ UNCHANGED <<lock, fetched, head, untracked, database>>

\* git stash pop takes the newest entry, whoever pushed it; on a conflict
\* the entry stays.
Pops ==
  \/ stash = <<>> /\ UNCHANGED <<stash, edited>> /\ Works
  \/ stash # <<>> /\ stash' = Tail(stash) /\ edited' = TRUE /\ Works
  \/ stash # <<>> /\ UNCHANGED <<stash, edited>> /\ Breaks({})

PopsIf(stashed) == IF stashed THEN Pops ELSE Works /\ UNCHANGED <<stash, edited>>
-----------------------------------------------------------------------------
Fetch(u) ==
  /\ At(u, "fetch")
  /\ \/ Moves(u, "merge") /\ fetched' \in fetched .. MaxRelease /\ Works
     \/ Moves(u, "reset") /\ Breaks({}) /\ UNCHANGED fetched
  /\ UNCHANGED <<lock, tree, database>>

\* The newest commit is merged, or the tag the client asked for checked out.
Merge(u) ==
  /\ At(u, "merge")
  /\ \/ /\ head' \in {c \in Tags : c <= fetched} \cup {IF head < fetched THEN fetched ELSE head}
        /\ Moves(u, "compare") /\ Works
     \/ Moves(u, "reset") /\ Breaks({}) /\ UNCHANGED head
  /\ UNCHANGED <<lock, fetched, edited, untracked, stash, database>>

\* new_commit, which may be None.  A pip that fails is ignored.
Compare(u) ==
  /\ At(u, "compare")
  /\ \E read \in {head, None} :
       /\ IF read = None THEN Breaks({"no_commit"}) ELSE Works
       /\ Becomes(u, [req[u] EXCEPT
            !.new = read, !.pc = IF read = req[u].prev THEN "current" ELSE "migrate"])
  /\ UNCHANGED Disk

\* Variant: it returns before the block that releases the lock.
CurrentKeepsLock(u) ==
  /\ At(u, "current")
  /\ PopsIf(req[u].stashed)
  /\ Ends(u, "done")
  /\ UNCHANGED <<lock, fetched, head, untracked, database>>

\* Nothing is new: success is noted before the stash is re-applied.
Current(u) ==
  /\ At(u, "current")
  /\ PopsIf(req[u].stashed)
  /\ Becomes(u, [req[u] EXCEPT !.pc = "release", !.success = TRUE])
  /\ UNCHANGED <<lock, fetched, head, untracked, database>>

RollsBack(u, after) == Becomes(u, [req[u] EXCEPT !.pc = "reset", !.after = after])

\* What a migration to a schema commits, it commits to the log.
Writes(to) == log' = (IF to = schema THEN log ELSE to) /\ UNCHANGED file

\* Variant: a migration that fails only rolls back the code.
MigrateCodeOnly(u) ==
  /\ At(u, "migrate")
  /\ \/ schema <= head /\ Writes(head) /\ Moves(u, "frontend") /\ Works
     \/ schema > head /\ Writes(schema) /\ RollsBack(u, "release") /\ Works
     \/ (\E to \in {schema, head} : Writes(to)) /\ RollsBack(u, "release") /\ Breaks({})
  /\ UNCHANGED <<lock, fetched, tree>>

\* Alembic refuses a database whose revision the code does not have; a
\* migration that fails may have changed the schema.
Migrate(u) ==
  /\ At(u, "migrate")
  /\ \/ schema <= head /\ Writes(head) /\ Moves(u, "frontend") /\ Works
     \/ schema > head /\ Writes(schema) /\ RollsBack(u, "restore") /\ Works
     \/ (\E to \in {schema, head} : Writes(to)) /\ RollsBack(u, "restore") /\ Breaks({})
  /\ UNCHANGED <<lock, fetched, tree>>

\* Variant: a frontend that does not build only restores the database.
FrontendKeepsCode(u) ==
  /\ At(u, "frontend")
  /\ \/ Moves(u, "reapply") /\ Works
     \/ Moves(u, "restore") /\ Breaks({})
  /\ UNCHANGED Disk

Frontend(u) ==
  /\ At(u, "frontend")
  /\ \/ Moves(u, "reapply") /\ Works
     \/ RollsBack(u, "restore") /\ Breaks({})
  /\ UNCHANGED Disk

Reapply(u) ==
  /\ At(u, "reapply")
  /\ PopsIf(req[u].stashed)
  /\ Becomes(u, [req[u] EXCEPT !.pc = "record", !.stashed = FALSE])
  /\ UNCHANGED <<lock, fetched, head, untracked, database>>

\* The answer says success before the history is written.
Record(u) ==
  /\ At(u, "record")
  /\ Becomes(u, [req[u] EXCEPT !.pc = "release", !.success = TRUE])
  /\ Works /\ UNCHANGED Disk
-----------------------------------------------------------------------------
\* Variant: the stash is popped before the reset.
ResetPopped(u) ==
  /\ At(u, "reset")
  /\ head' = IF req[u].prev = None THEN head ELSE req[u].prev
  /\ edited' = FALSE
  /\ stash' = IF req[u].stashed /\ stash # <<>> THEN Tail(stash) ELSE stash
  /\ Moves(u, req[u].after)
  /\ Works
  /\ UNCHANGED <<lock, fetched, untracked, database>>

\* Variant: it resets to a commit it does not know.
ResetBlindly(u) ==
  /\ At(u, "reset")
  /\ head' = req[u].prev /\ edited' = FALSE
  /\ Moves(u, "unstash") /\ Works
  /\ UNCHANGED <<lock, fetched, untracked, stash, database>>

\* _rollback: git reset --hard takes the edit of the working tree along.
Reset(u) ==
  /\ At(u, "reset")
  /\ \/ /\ req[u].prev = None
        /\ Moves(u, req[u].after) /\ Works /\ UNCHANGED <<head, edited>>
     \/ /\ req[u].prev # None
        /\ head' = req[u].prev /\ edited' = FALSE
        /\ Moves(u, "unstash") /\ Works
     \/ /\ req[u].prev # None
        /\ Moves(u, "unstash") /\ Breaks({"rollback_failed"}) /\ UNCHANGED <<head, edited>>
  /\ UNCHANGED <<lock, fetched, untracked, stash, database>>

Unstash(u) ==
  /\ At(u, "unstash")
  /\ PopsIf(req[u].stashed)
  /\ Moves(u, req[u].after)
  /\ UNCHANGED <<lock, fetched, head, untracked, database>>

\* The copy goes over the file; the log stays, and what it holds with it.
Restore(u) ==
  /\ At(u, "restore")
  /\ Moves(u, "release")
  /\ \/ req[u].snap = None /\ Works /\ UNCHANGED file
     \/ /\ req[u].snap # None
        /\ file' = req[u].snap
        /\ Notes(IF log = None THEN {} ELSE {"log_passed"})
     \/ Breaks({"snapshot_lost"}) /\ UNCHANGED file
  /\ UNCHANGED <<lock, fetched, tree, log>>

\* The file goes, whoever wrote it.
Release(u) ==
  /\ At(u, "release")
  /\ lock' = None
  /\ Ends(u, "done")
  /\ Works /\ UNCHANGED <<fetched, tree, database>>

\* What an exception that reaches the handler is noted as, by its stage.
RaisedAt(pc) ==
  CASE pc \in {"backup", "stash"} -> {"unstashed"}
    [] pc \in {"frontend", "reapply", "record"} -> {"late_raise"}
    [] pc \in {"reset", "unstash"} -> {"rollback_failed"}
    [] pc = "restore" -> {"restore_raised"}
    [] OTHER -> {}

\* The stages that run a command or touch the disk outside of a try block of
\* their own.
MayRaise(r) ==
  \/ r.pc \in {"backup", "stash", "fetch", "merge", "compare", "frontend", "record"}
  \/ r.pc \in {"current", "reapply", "unstash"} /\ r.stashed
  \/ r.pc = "reset" /\ r.prev # None
  \/ r.pc = "restore" /\ r.snap # None

\* A command of the try block raises, a time-out mostly, or a directory that
\* cannot be made or looked into: the handler rolls back the code, and the
\* code only; success may have been noted already.  In the handler nothing is
\* left to do.
Raise(u) ==
  /\ MayRaise(req[u])
  /\ Breaks(RaisedAt(req[u].pc))
  /\ IF req[u].handler THEN Moves(u, "release")
     ELSE \E success \in BOOLEAN :
       /\ success => req[u].pc \in {"current", "record"}
       /\ At(u, "current") => success
       /\ Becomes(u, [req[u] EXCEPT
            !.pc = "reset", !.handler = TRUE, !.after = "release", !.success = success])
  /\ UNCHANGED Disk

Step(u) ==
  \/ Ask(u) \/ WriteLock(u) \/ ReadCommit(u) \/ Backup(u)
  \/ Stash(u) \/ Fetch(u) \/ Merge(u) \/ Compare(u) \/ Current(u) \/ Migrate(u)
  \/ Frontend(u) \/ Reapply(u) \/ Record(u) \/ Reset(u) \/ Unstash(u) \/ Restore(u)
  \/ Release(u) \/ Raise(u)
-----------------------------------------------------------------------------
\* 1800 seconds pass.
Age ==
  /\ lock # None /\ ~lock.old
  /\ lock' = [lock EXCEPT !.old = TRUE]
  /\ UNCHANGED <<req, fetched, tree, database, faults, events>>

\* The frames of the log go into the file: after a thousand pages, or with
\* the last connection.
Checkpoint ==
  /\ log # None
  /\ file' = log /\ log' = None
  /\ UNCHANGED <<req, lock, fetched, tree, faults, events>>

Crash ==
  /\ Updating # {}
  /\ Breaks({"crash"})
  /\ req' = [u \in Requests |->
               IF req[u].pc \in {"idle", "done"} THEN req[u] ELSE [NewRequest EXCEPT !.pc = "dead"]]
  /\ UNCHANGED Disk

Next == (\E u \in Requests : Step(u)) \/ Age \/ Checkpoint \/ Crash

Spec == Init /\ [][Next]_vars
=============================================================================
