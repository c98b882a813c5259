----------------------------- MODULE MCClients ------------------------------
(***************************************************************************)
(* Small instances, for TLC, of clients of other services and of the       *)
(* counting of downloads: the GitHub app's token, secret scanning, and the *)
(* jobs from the logs of the CDNs to the archive.                          *)
(* They share no state, so a behaviour is one of one of them, chosen in    *)
(* the initial state; the others stay where they begin.                    *)
(***************************************************************************)
EXTENDS InstallationToken, SecretScanning, Downloads

VARIABLE part

\* Requests, tasks and workers of a kind are interchangeable.
MCSymmetry ==
  {p @@ q @@ r : p \in Permutations(Reports), q \in Permutations(Updaters),
                 r \in Permutations(Archivers)}

\* A part that stays where it begins has one beginning.
MCInit ==
  /\ part \in {"app", "scan", "downloads", "archives"}
  /\ AppInit /\ (part # "app" => installed = 1)
  /\ ScanInit /\ known \in IF part = "scan" THEN {{}, Secrets} ELSE {{}}
  /\ DownloadsInit

\* Bound: at most two runs of UpdateDownloads and ArchiveVersionDownloads at the same
\* time; in one part not two of the archive, in the other nothing but the archive.
FewRuns ==
  LET updates == Cardinality({u \in Updaters : updRun[u].pc # "idle"})
      archives == Cardinality({a \in Archivers : archRun[a].pc # "idle"})
  IN IF part = "archives" THEN updates = 0 ELSE archives <= 1 /\ updates + archives <= 2

MCNext ==
  /\ UNCHANGED part
  /\ \/ part = "app" /\ AppNext
     \/ part # "app" /\ UNCHANGED appVars
  /\ \/ part = "scan" /\ ScanNext
     \/ part # "scan" /\ UNCHANGED scanVars
  /\ \/ part \in {"downloads", "archives"} /\ DownloadsNext /\ FewRuns'
     \/ part \notin {"downloads", "archives"} /\ UNCHANGED downloadVars

MCSpec == MCInit /\ [][MCNext]_<<part, appVars, scanVars, downloadVars>>

-----------------------------------------------------------------------------
\* Two crates; the log files mention a version "v9" that does not exist.
MCCrateOf == [v \in {"v1", "v2"} |-> IF v = "v1" THEN "c1" ELSE "c2"]

Line(kind, columns, method, status, agent, version, encoded, date) ==
  [kind |-> kind, columns |-> columns, method |-> method, status |-> status,
   agent |-> agent, path |-> [version |-> version, encoded |-> encoded], date |-> date]

MCFormat == LET f == [l1 |-> "#", l2 |-> "<", bad |-> "?", odd |-> "#", index |-> "<"]
            IN [l \in Logs |-> f[l]]

MCExtension == [l \in Logs |-> IF l = "odd" THEN "log" ELSE IF l = "l1" THEN "gz" ELSE "zst"]

MCLines ==
  [l1 |-> << Line("version", 1, "", 0, "", "", 0, 0),
             Line("fields", 5, "", 0, "", "", 0, 0),
             Line("comment", 0, "", 0, "", "", 0, 0),
             Line("values", 5, "GET", 200, "cargo", "v1", 2, 1),
             Line("values", 5, "GET", 200, "none", "v1", 0, 1),
             Line("values", 4, "GET", 200, "cargo", "v1", 0, 1),
             Line("values", 5, "GET", 404, "cargo", "v1", 0, 1),
             Line("values", 5, "GET", 200, "other", "v1", 0, 1),
             Line("values", 5, "GET", 200, "cargo", "v9", 0, 1),
             Line("values", 5, "GET", 200, "cargo", "v1", 0, 99) >>,
   l2 |-> << Line("json", 0, "GET", 200, "cargo", "v1", 1, 1),
             Line("json", 0, "HEAD", 200, "cargo", "v1", 0, 1),
             Line("json", 0, "GET", 200, "cargo", "v1", 2, 1),
             Line("text", 0, "GET", 200, "cargo", "v1", 0, 1),
             Line("json", 0, "GET", 200, "cargo", "v2", 0, 1) >>,
   bad |-> << >>, odd |-> << >>,
   index |-> << Line("json", 0, "GET", 200, "cargo", "", 0, 1) >>]

MCRecords == LET r == [m1 |-> {"l1", "index"}, m2 |-> {"l2"}, m3 |-> {"bad", "odd"}]
             IN [m \in Messages |-> r[m]]
=============================================================================
