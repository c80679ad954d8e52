-------------------------- MODULE BackupProperties --------------------------
(* What exports and restores promise.                                      *)
EXTENDS BackupRestore

BackupTypeOK ==
  /\ row  \in [Ids -> Rows]
  /\ file \in [Backups -> (SUBSET Items) \cup {None}]
  /\ job  \in [Admins -> Job]

(* No interleaving of imports, restores and deletes leaves a row without   *)
(* its parent: the store checks it, and deletes cascade or are refused.    *)
ReferencesHold ==
  \A i \in Ids : Exists(i) => Admissible(row[i].kind, row[i].parent)

(* A row that was there when an export began, and still is when its file   *)
(* is written, is in the file, whatever clients do meanwhile.              *)
ExportComplete ==
  [][\A a \in Admins : WriteFile(a) =>
       \A i \in job[a].before :
         Exists(i) /\ row[i].kind \in {Exported[n] : n \in DOMAIN Exported}
           => i \in {x.id : x \in job[a].items}]_vars

(* When a restore starts to import, every row of an exported kind that it  *)
(* found and that is still there was named in the log as not deleted: rows *)
(* that clients add or delete meanwhile make the clearing miss nothing.    *)
RestoreReplaces ==
  \A a \in Admins : At(a, {"restore"}, "create") =>
    \A i \in job[a].before :
      row[i].kind \in {Exported[n] : n \in DOMAIN Exported}
        => i \in job[a].skipped

(* Restores, imports and exports come to an end.                           *)
RestoreCompletes == \A a \in Admins : job[a].op # "idle" ~> job[a].op = "idle"

(* Nobody writes while a request is served: each of its steps changes job, *)
(* and no client's does.                                                   *)
Alone ==
  Init /\ [][Next /\ ((\E a \in Admins : job[a].op # "idle") => job' # job)]_vars

(* A restore that finds the very rows its file holds imports all of them   *)
(* again: "export -> import round-trips are lossless" (admin.py:136).      *)
RoundTripLossless ==
  \A a \in Admins :
    /\ At(a, {"restore"}, "create") /\ job[a].items = {}
    /\ job[a].before = {x.id : x \in file[job[a].name]}
    => job[a].imported = file[job[a].name]
=============================================================================
