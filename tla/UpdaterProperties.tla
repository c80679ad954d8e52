------------------------- MODULE UpdaterProperties ---------------------------
(* What an update promises, and which mishaps break the promise.           *)
EXTENDS Updater, FiniteSets

UpdaterTypeOK ==
  /\ req \in [Requests -> Request]
  /\ lock \in [owner : Requests, old : BOOLEAN] \cup {None}
  /\ {fetched, head, file} \subseteq Commits /\ log \in Commits \cup {None}
  /\ {edited, untracked} \subseteq BOOLEAN
  /\ stash \in Seq(Requests \cup {None})
  /\ faults \in 0 .. MaxFaults
  /\ events \subseteq Events

(* Two requests update at the same time only if one wrote the lock between *)
(* the other's look at it and its write, or if the lock outlived its 1800  *)
(* seconds while its owner still worked.                                   *)
OneUpdater ==
  Cardinality(Updating) > 1 => events \cap {"raced", "expired"} # {}

(* The user's edit is in the working tree or in the stash, and what he had *)
(* stashed himself stays there, whatever fails and wherever the process    *)
(* dies; but an exception before the stash, a stash that fails, a push     *)
(* that had nothing to push, an exception after the stash was re-applied,  *)
(* or a second update at the same time may cost him either.                *)
Excused   == {"raced", "expired", "unstashed", "empty_stash", "late_raise", "restore_raised"}
HasEdit   == edited \/ \E n \in 1 .. Len(stash) : stash[n] \in Requests
OwnStash  == stash # <<>> /\ stash[Len(stash)] = None
ChangesKept ==
  [][events' \cap Excused = {} => (HasEdit => HasEdit') /\ (OwnStash => OwnStash')]_vars

(* No failure costs the user his edit: "Git stash of local changes before  *)
(* pull" is one of the safety guarantees (updater.py:9).                   *)
EditsGuaranteed ==
  [][events' \cap {"raced", "expired"} = {} => (HasEdit => HasEdit')]_vars

(* When no request is under way the database has the schema the code       *)
(* needs, whichever of backup, fetch, merge, migration and frontend        *)
(* failed; a missing snapshot, a copy that passes by the log of the        *)
(* database, an exception after the migration, a failure of the rollback   *)
(* itself, a crash or a second update may leave them apart.                *)
SchemaMishaps == Events \ {"unstashed", "empty_stash"}
SchemaMatches == Updating = {} /\ events \cap SchemaMishaps = {} => schema = head

(* A request that ends well leaves the commit it answers with, and one     *)
(* that fails the commit it found; not after a commit that could not be    *)
(* read, an exception past the last step, a failed rollback, or beside a   *)
(* second update.                                                          *)
AnswersTruly ==
  [][events \cap {"raced", "expired", "no_commit", "late_raise", "rollback_failed"} = {}
     => \A u \in Requests : At(u, "release") /\ At(u, "done")'
          => head = IF req[u].success THEN req[u].new ELSE req[u].prev]_vars

(* However updates end, early or late, by an answer or by an exception,    *)
(* the lock file goes with its owner: one that is left is of an update     *)
(* under way, or of one that died with the process or by an exception      *)
(* between the lock and the try block (510-515).                           *)
LockOwned == lock # None => lock.owner \in Updating \/ At(lock.owner, "dead")
=============================================================================
