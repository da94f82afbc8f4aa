---------------------------- MODULE HostFilesProofs ----------------------------
(***************************************************************************)
(* Theorems about HostFilesEngine, for any set of jobs and any number of    *)
(* stops, failing calls and edits by other programs.                        *)
(*                                                                          *)
(* What makes a removal safe is a chain of facts: an identity on record is  *)
(* at most as new as the file it was taken from (Recorded), so that a file  *)
(* which still has its recorded identity was not touched since; and for     *)
(* each step that removes a name by such an identity, the invariant says    *)
(* which other name the file then still has.  The same parts tell, at each  *)
(* place of the engine, what the journal holds (Evidence, Journaled), where *)
(* the favorite points (Favorite) and what a rollback has left to undo      *)
(* (Undoable).  One lemma for each action follows, then the theorems.       *)
(***************************************************************************)
EXTENDS HostFilesEngine, TLAPS

-----------------------------------------------------------------------------
(* The inductive invariant                                                  *)

\* Where a run, a rollback and a recovery can be.
Restoring == {"restore", "restored", "unbackup", "unbox", "restore-backup-cleaned", "conclude"}
Linked == {"favorites-1", "unlink-check", "source-unlink-authorized", "unlink-source",
           "source-unlinked", "favorites-2", "finalize"}
FileRun == {"begin", "stage-planned", "open", "streaming", "stream", "staged", "quarantine",
            "backup-planned", "mkdir", "backup-reserved", "rename", "quarantined", "publish",
            "publishing", "unlink-stage", "unstaged", "record", "published", "unbackup",
            "unbox", "finish", "move-favorites", "move-source"}
SpecialRun == {"begin", "prepared", "quarantine", "backup-planned", "mkdir", "backup-reserved",
               "link-backup", "backup-linked", "unlink-destination", "quarantined",
               "link-source", "linked", "unbackup", "unbox", "backup-cleaned", "favorites-3",
               "finish"} \union Linked
FileRecovery == Restoring \union {"recover-stage", "recovery-stage-cleaned", "recover-look",
                                  "recover-publication", "recovery-destination-cleaned"}
SpecialRecovery ==
  Restoring \union {"recover-special", "abort", "source-unlink-authorized", "unlink-source",
                    "source-unlinked", "favorites-2", "finalize", "backup-cleaned",
                    "favorites-3", "finish"}
Control ==
  /\ op.mode = "run" => op.pc \in (IF Special THEN SpecialRun ELSE FileRun)
  /\ op.mode = "undo" => op.pc \in Restoring \/ (~ Special /\ op.pc \in {"undo-stage", "undo-publication"})
  /\ op.mode = "abort" => Special /\ op.pc \in Restoring \union {"abort"}
  /\ op.mode = "recover" => op.pc \in (IF Special THEN SpecialRecovery ELSE FileRecovery)
  /\ op.mode \in {"down", "ready", "broken"} => op.pc = "idle"
  /\ op.mode \in {"run", "undo", "abort"} => crashes = 0 /\ answer = "none"
  /\ op.mode \in {"down", "recover"} => crashes > 0
  /\ op.pc = "begin" => rec = None /\ jrn = None
  /\ op.pc \notin {"begin", "idle"} => rec # None

\* Which inodes the paths name.
Naming ==
  /\ at["source"] \in {None, "src", "foreign"}
  /\ at["stage"] \in {None, "new", "foreign"}
  /\ at["box"] \in {None, "dir"}
  /\ at["backup"] \in {None, "old", "foreign"}
  /\ at["destination"] # "dir"
  /\ at["destination"] = "new" => ~ Special
  /\ at["destination"] = "src" => Special

\* What a record says of the objects of a job `j`, `dest` being the object at the
\* destination and `t` the stamps.
Recorded(r, j, dest, t) ==
  /\ r.backup => j.replace
  /\ r.owned["stage"].ino \in {None, "new"} /\ r.owned["stage"].stamp <= t["new"]
  /\ r.owned["box"].ino \in {None, "dir"}
  /\ r.owned["backup"].ino \in {None, "old"} /\ r.owned["backup"].stamp <= t["old"]
  /\ r.source.ino = "src" /\ r.source.stamp <= t["src"]
  /\ j.kind # "special" /\ r.published = NoId => r.owned["destination"].ino \in {None, "new"}
  /\ j.kind = "special" => r.published.ino \in {None, "src", "old"}
  /\ r.published.ino = "old" =>
       r.published.stamp <= t["old"] /\ (r.published.stamp = t["old"] => dest = "old")
  /\ j.kind = "special" /\ r.published.ino = "src" => (r.source.stamp = t["src"] => dest = "src")
Sound(r) == r # None => Recorded(r, job, at["destination"], stamp)

Forward == {"linked", "source-unlink-authorized", "source-unlinked", "backup-cleaned"}
\* A rename that goes forward, in the run or after a stop.
Completing == op.mode = "run" \/ (op.mode = "recover" /\ rec.phase = "source-unlinked")
Renaming ==
  /\ op.pc \in Linked \union {"linked", "backup-cleaned", "abort"} => rec.published.ino = "src"
  /\ Special /\ op.pc \in {"unbackup", "unbox"} /\ Completing => rec.published.ino = "src"
  /\ Special /\ jrn # None => (jrn.phase \in Forward /\ jrn.published # NoId => jrn.published.ino = "src")
  /\ op.pc \in {"favorites-2", "finalize"} /\ op.mode = "recover" => rec.phase = "source-unlinked"
  /\ op.pc = "recover-special" => rec = jrn
  /\ ~ Special => /\ rec # None => rec.phase # "source-unlinked"
                  /\ jrn # None => jrn.phase # "source-unlinked"

\* What of the private objects is there, and what the journal knows of it.
Before == {"begin", "stage-planned", "prepared", "open", "streaming", "stream", "staged",
           "quarantine", "backup-planned", "mkdir"}
Reserved == {"backup-reserved", "rename", "link-backup"}
Unstaged == {"begin", "stage-planned", "open", "unstaged", "record", "published", "finish",
             "move-favorites", "move-source"}
Unboxed == {"finish", "backup-cleaned", "favorites-3", "move-favorites", "move-source"}
Evidence ==
  /\ at["stage"] # None => jrn # None /\ ~ Special
  /\ at["box"] # None \/ at["backup"] # None => jrn # None /\ jrn.backup
  /\ rec # None /\ jrn # None => (jrn.backup => rec.backup)
  /\ op.pc \in Before => at["box"] = None
  /\ op.pc \in Before \union Reserved \union {"unbox"} => at["backup"] = None
  /\ op.pc \in Unstaged => at["stage"] = None
  /\ op.mode = "run" /\ op.pc \in {"unbackup", "unbox"} => at["stage"] = None
  /\ op.mode \in {"undo", "recover"} /\ op.ok =>
       op.pc \in {"undo-stage", "recover-stage"} \/ at["stage"] = None
  /\ op.pc \in Unboxed => at["box"] = None /\ at["backup"] = None
  /\ op.ok /\ op.pc = "restore-backup-cleaned" => at["box"] = None /\ at["backup"] = None
  /\ op.ok /\ op.pc = "conclude" =>
       (op.mode = "undo" /\ rec.published # NoId) \/ (at["box"] = None /\ at["backup"] = None)

\* How far the journal is.
Journaled ==
  /\ op.mode \in {"run", "abort", "recover"} =>
       \/ op.pc \in {"begin", "stage-planned", "prepared", "move-favorites", "move-source"}
       \/ jrn # None
  /\ op.pc = "backup-planned" => rec.backup
  /\ op.pc \in {"mkdir"} \union Reserved => jrn # None /\ jrn.backup
  /\ op.pc \in {"unbackup"} \union Linked => jrn # None /\ jrn.published # NoId
  /\ op.pc \in {"restored", "published"} => rec.published # NoId
  /\ op.pc = "recover-look" => jrn.published = rec.published
  /\ op.mode = "undo" /\ op.pc \in {"restored", "unbackup", "unbox", "restore-backup-cleaned"} =>
       rec.published # NoId
  /\ op.pc \in {"undo-publication", "recover-publication"} => rec.published = NoId
  /\ op.pc \in {"publishing", "unlink-stage"}
       /\ rec.owned["stage"] = [ino |-> "new", stamp |-> stamp["new"]] => at["destination"] = "new"
  /\ op.pc \in {"backup-linked", "unlink-destination"}
       /\ rec.owned["backup"] = [ino |-> "old", stamp |-> stamp["old"]] => at["backup"] = "old"
  /\ op.mode = "run" /\ ~ Special =>
       op.pc \in {"begin", "stage-planned", "open", "streaming", "stream"} \/ whole
  /\ op.pc \in {"move-favorites", "move-source"} => job.kind = "move" /\ jrn = None

\* Before the favorites follow, or once the rename is being undone.
Untold ==
  \/ op.mode = "run" /\ Special /\ op.pc \in Before \union Reserved \union
       {"backup-linked", "unlink-destination", "quarantined", "link-source", "linked", "favorites-1"}
  \/ op.mode \in {"undo", "abort"}
  \/ op.pc = "abort"
  \/ /\ op.mode = "recover" /\ Special /\ op.ok
     /\ \/ op.pc \in {"restore", "restored", "restore-backup-cleaned", "conclude"}
        \/ op.pc \in {"unbackup", "unbox"} /\ ~ Completing
\* From when they follow.
Told ==
  \/ op.pc \in (Linked \ {"favorites-1"}) \union {"backup-cleaned", "favorites-3", "move-source"}
  \/ op.pc = "finish" /\ Special
  \/ op.pc \in {"unbackup", "unbox"} /\ Special /\ Completing
\* The favorite follows the file.
Favorite ==
  /\ fav.path = None <=> ~ job.favorite
  /\ fav.pending => fav.path = "destination" /\ Special /\ jrn # None
  /\ ~ Special /\ fav.path = "destination" => jrn = None /\ op.pc \in {"move-source", "idle"}
  /\ edits = 0 /\ fav.path # None => at[fav.path] # None
  /\ edits = 0 /\ op.pc \in {"linked", "favorites-1"} => at["destination"] # None
  /\ Untold => fav.path # "destination"
  /\ Told => fav.path # "source"
  /\ op.pc = "finish" => ~ fav.pending

\* What a rollback can still undo.
InPlace == at["destination"] = (IF job.replace THEN "old" ELSE None)
Undoable ==
  /\ op.pc = "begin" => at["destination"] # "new" /\ (edits = 0 => InPlace)
  /\ op.pc \in {"stage-planned", "open"} => rec.published = NoId
  /\ op.mode = "run" /\ op.pc \in Reserved \union
        {"mkdir", "backup-linked", "unlink-destination", "quarantined"} => rec.backup
  /\ op.mode = "run" /\ op.pc \in {"publish", "link-source", "linked", "favorites-1"} =>
        (rec.backup <=> job.replace)
  /\ op.mode = "abort" => (rec.backup <=> job.replace)
  /\ op.mode \in {"run", "undo"} /\ rec # None /\ rec.published = NoId =>
       /\ ~ rec.backup /\ edits = 0 => InPlace \/ (at["destination"] = "new" /\ ~ job.replace)
       /\ at["destination"] = "new" => rec.owned["destination"] # NoId
  /\ op.mode = "undo" /\ op.ok /\ rec.published = NoId =>
       /\ job.kind = "copy" /\ op.pc \in {"restore", "conclude"} => at["destination"] # "new"
       /\ op.pc = "conclude" => ~ rec.backup
  /\ ~ Special /\ rec # None /\ rec.published # NoId =>
       (op.mode = "run" \/ op.pc = "undo-stage" => at["stage"] = None)
  /\ op.mode \in {"run", "undo"} /\ jrn = None /\ rec # None =>
       \/ op.pc \in {"move-favorites", "move-source"}
       \/ ~ rec.backup /\ rec.published = NoId /\ at["destination"] # "new"
  /\ op.mode = "abort" /\ op.ok /\ edits = 0 =>
       /\ op.pc = "restore" => at["destination"] = None
       /\ op.pc \in Restoring \ {"restore"} => InPlace

FailedClean ==
  answer = "failed" /\ jrn = None /\ crashes = 0 /\ job.kind \in {"copy", "special"} =>
    /\ at["stage"] # "new" /\ at["destination"] # "new" /\ at["box"] # "dir"
    /\ edits = 0 => InPlace

FilesInv ==
  /\ TypeOK /\ Control /\ Naming /\ Sound(rec) /\ Sound(jrn) /\ Renaming /\ Evidence
  /\ Journaled /\ Favorite /\ Undoable /\ FailedClean

-----------------------------------------------------------------------------
(* Records and the disk                                                     *)

LEMMA IdLemma ==
  ASSUME TypeOK, NEW p \in Paths
  PROVE  /\ Id(p) \in Ids /\ Id(p).ino = at[p]
         /\ at[p] # None => Id(p).stamp = stamp[at[p]] /\ stamp[at[p]] \in Nat
         /\ Id(p) = NoId <=> at[p] = None
  BY HostFilesAssumption DEF TypeOK, Id, Ids, NoId

(* bind: a new name for an inode                                            *)
LEMMA BindLemma ==
  ASSUME TypeOK, NEW p \in Paths, NEW i \in Inodes, Bind(p, i)
  PROVE  /\ at' \in [Paths -> Inodes \union {None}] /\ stamp' \in [Inodes -> Nat]
         /\ \A q \in Paths : at'[q] = IF q = p THEN i ELSE at[q]
         /\ \A j \in Inodes : stamp'[j] = IF j = i \/ (p = "backup" /\ j = "dir") THEN stamp[j] + 1 ELSE stamp[j]
<1>1. at' \in [Paths -> Inodes \union {None}] /\ \A q \in Paths : at'[q] = IF q = p THEN i ELSE at[q]
  BY DEF TypeOK, Bind
<1>2. stamp' = [j \in Inodes |-> IF j \in {i} \union Inside(p) THEN stamp[j] + 1 ELSE stamp[j]]
  BY DEF Bind, Touch
<1> QED  BY <1>1, <1>2 DEF TypeOK, Inside

(* unlink: a name goes                                                      *)
LEMMA UnlinkLemma ==
  ASSUME TypeOK, NEW p \in Paths, Unlink(p)
  PROVE  /\ at' \in [Paths -> Inodes \union {None}] /\ stamp' \in [Inodes -> Nat]
         /\ \A q \in Paths : at'[q] = IF q = p THEN None ELSE at[q]
         /\ \A j \in Inodes :
              stamp'[j] = IF j = at[p] \/ (p = "backup" /\ j = "dir") THEN stamp[j] + 1 ELSE stamp[j]
<1>1. at' \in [Paths -> Inodes \union {None}] /\ \A q \in Paths : at'[q] = IF q = p THEN None ELSE at[q]
  BY DEF TypeOK, Unlink
<1>2. stamp' = [j \in Inodes |-> IF j \in {at[p]} \union Inside(p) THEN stamp[j] + 1 ELSE stamp[j]]
  BY DEF Unlink, Touch
<1> QED  BY <1>1, <1>2 DEF TypeOK, Inside

(* What a record remembers of the names `ps`, and keeps of the others        *)
LEMMA RememberLemma ==
  ASSUME at' \in [Paths -> Inodes \union {None}], stamp' \in [Inodes -> Nat],
         NEW r \in Records, NEW ps, NEW new, new = Remembering(r, ps)
  PROVE  /\ new \in Records
         /\ new.phase = r.phase /\ new.backup = r.backup
         /\ new.published = r.published /\ new.source = r.source
         /\ \A p \in Paths \ ps : new.owned[p] = r.owned[p]
         /\ \A p \in Paths \intersect ps : new.owned[p] = Id(p)'
<1> DEFINE o == [p \in Paths |-> IF p \in ps THEN Id(p)' ELSE r.owned[p]]
<1>1. \A p \in Paths : Id(p)' \in Ids
  BY DEF Id, Ids
<1>2. o \in [Paths -> Ids]
  BY <1>1 DEF Records
<1>3. new = [r EXCEPT !.owned = o]
  BY DEF Remembering
<1>4. \A p \in Paths : o[p] = IF p \in ps THEN Id(p)' ELSE r.owned[p]
  OBVIOUS
<1> HIDE DEF o
<1> QED  BY <1>2, <1>3, <1>4 DEF Records

(* ... and when it loses a name that it owned                               *)
LEMMA UnownedLemma ==
  ASSUME TypeOK, rec # None, NEW p \in Paths,
         at' \in [Paths -> Inodes \union {None}], stamp' \in [Inodes -> Nat],
         NEW new, new = Unowned(p)
  PROVE  /\ new \in Records
         /\ new.phase = rec.phase /\ new.backup = rec.backup /\ new.source = rec.source
         /\ new.owned[p] = NoId
         /\ \A q \in Paths \ {p} :
              new.owned[q] = IF rec.owned[q] = Id(p) /\ at[p] # None /\ at[q] = at[p]
                             THEN Id(q)' ELSE rec.owned[q]
         /\ new.published = IF rec.published = Id(p) /\ rec.owned["destination"] = rec.published
                                 /\ at[p] # None
                            THEN Id("destination")' ELSE rec.published
<1> DEFINE o == [q \in Paths |->
                   IF q = p THEN NoId
                   ELSE IF rec.owned[q] = Id(p) /\ at[p] # None /\ at[q] = at[p]
                        THEN Id(q)' ELSE rec.owned[q]]
           f == IF rec.published = Id(p) /\ rec.owned["destination"] = rec.published /\ at[p] # None
                THEN Id("destination")' ELSE rec.published
<1>1. \A q \in Paths : Id(q)' \in Ids
  BY DEF Id, Ids
<1>2. rec \in Records /\ NoId \in Ids /\ "destination" \in Paths
  BY DEF TypeOK, NoId, Ids, Paths
<1>3. o \in [Paths -> Ids] /\ f \in Ids
  BY <1>1, <1>2 DEF Records
<1>4. new = [rec EXCEPT !.owned = o, !.published = f]
  BY <1>2 DEF Unowned, Records
<1>5. \A q \in Paths : o[q] = IF q = p THEN NoId
                   ELSE IF rec.owned[q] = Id(p) /\ at[p] # None /\ at[q] = at[p]
                        THEN Id(q)' ELSE rec.owned[q]
  OBVIOUS
<1> HIDE DEF o
<1>6. f = IF rec.published = Id(p) /\ rec.owned["destination"] = rec.published /\ at[p] # None
          THEN Id("destination")' ELSE rec.published
  OBVIOUS
<1> HIDE DEF f
<1>7. new \in Records /\ new.phase = rec.phase /\ new.backup = rec.backup /\ new.source = rec.source
      /\ new.owned = o /\ new.published = f
  BY <1>2, <1>3, <1>4 DEF Records
<1> QED  BY <1>5, <1>6, <1>7

(* A record stays true while the stamps only grow, and grow for the old file *)
(* and the source whenever they leave the destination                       *)
LEMMA RecordKept ==
  ASSUME NEW r \in Records, NEW j, NEW d, NEW e,
         NEW t \in [Inodes -> Nat], NEW u \in [Inodes -> Nat],
         \A i \in Inodes : t[i] <= u[i],
         \A i \in {"old", "src"} : d = i => e = i \/ t[i] < u[i],
         Recorded(r, j, d, t)
  PROVE  Recorded(r, j, e, u)
<1>1. r.owned["stage"].stamp \in Nat /\ r.owned["backup"].stamp \in Nat
      /\ r.published.stamp \in Nat /\ r.source.stamp \in Nat
  BY DEF Records, Ids, Paths
<1>2. /\ t["new"] \in Nat /\ t["old"] \in Nat /\ t["src"] \in Nat
      /\ u["new"] \in Nat /\ u["old"] \in Nat /\ u["src"] \in Nat
      /\ t["new"] <= u["new"] /\ t["old"] <= u["old"] /\ t["src"] <= u["src"]
  BY DEF Inodes
<1> QED  BY <1>1, <1>2 DEF Recorded

(* ... and whatever its phase                                               *)
LEMMA PhaseKept ==
  ASSUME NEW r \in Records, NEW j, NEW d, NEW t, NEW n, Recorded(r, j, d, t),
         NEW ph \in Phases \union {"recovery-pending"}, n = [r EXCEPT !.phase = ph]
  PROVE  /\ n \in Records /\ Recorded(n, j, d, t) /\ n.phase = ph
         /\ n.backup = r.backup /\ n.owned = r.owned
         /\ n.published = r.published /\ n.source = r.source
<1>1. n \in Records /\ n.phase = ph /\ n.backup = r.backup /\ n.owned = r.owned
      /\ n.published = r.published /\ n.source = r.source
  BY DEF Records
<1> QED  BY <1>1 DEF Recorded

(* Where each step belongs                                                  *)
LEMMA PlaceLemma ==
  ASSUME FilesInv
  PROVE  /\ op.pc \in {"stage-planned", "open", "streaming", "stream", "staged", "rename", "publish",
                       "publishing", "unlink-stage", "unstaged", "record", "published",
                       "move-favorites", "move-source"} => op.mode = "run" /\ ~ Special
         /\ op.pc \in {"prepared", "link-backup", "backup-linked", "unlink-destination", "link-source",
                       "linked", "favorites-1", "unlink-check"} => op.mode = "run" /\ Special
         /\ op.pc \in {"begin", "quarantine", "backup-planned", "mkdir", "backup-reserved",
                       "quarantined"} => op.mode = "run"
         /\ op.pc \in {"source-unlink-authorized", "unlink-source", "source-unlinked", "favorites-2",
                       "finalize", "backup-cleaned", "favorites-3"} =>
              Special /\ op.mode \in {"run", "recover"}
         /\ op.pc = "finish" => op.mode = "run" \/ (op.mode = "recover" /\ Special)
         /\ op.pc = "recover-special" => op.mode = "recover" /\ Special
         /\ op.pc \in {"recover-stage", "recovery-stage-cleaned", "recover-look", "recover-publication",
                       "recovery-destination-cleaned"} => op.mode = "recover" /\ ~ Special
         /\ op.pc \in {"undo-stage", "undo-publication"} => op.mode = "undo" /\ ~ Special
         /\ op.pc = "abort" => Special /\ op.mode \in {"abort", "recover"}
         /\ op.pc \in {"restore", "restored", "restore-backup-cleaned", "conclude"} =>
              op.mode \in {"undo", "abort", "recover"}
         /\ op.pc \in {"unbackup", "unbox"} => op.mode \in {"run", "undo", "abort", "recover"}
         /\ op.mode = "abort" => Special
         /\ op.pc # "idle" => op.mode \notin {"down", "ready", "broken"}
  BY DEF FilesInv, TypeOK, Modes, Control, Restoring, SpecialRun, FileRun, SpecialRecovery,
         FileRecovery, Linked

-----------------------------------------------------------------------------
(* Steps outside the operation                                              *)

LEMMA InitStep == ASSUME Init PROVE FilesInv
<1>1. job \in Jobs /\ job.kind \in Kinds /\ job.replace \in BOOLEAN /\ job.favorite \in BOOLEAN
      /\ (job.kind = "upload" => ~ job.favorite)
  BY HostFilesAssumption DEF Init
<1>2. /\ at \in [Paths -> Inodes \union {None}]
      /\ at["source"] = IF job.kind # "upload" THEN "src" ELSE None
      /\ at["destination"] = IF job.replace THEN "old" ELSE None
      /\ at["stage"] = None /\ at["box"] = None /\ at["backup"] = None
  BY HostFilesAssumption DEF Init, Paths, Inodes
<1>3. /\ rec = None /\ jrn = None /\ crashes = 0 /\ edits = 0 /\ answer = "none"
      /\ op.pc = "begin" /\ op.mode = "run" /\ op.ok = TRUE
      /\ fav.path = (IF job.favorite THEN "source" ELSE None) /\ fav.pending = FALSE
  BY DEF Init
<1>4. None \notin Inodes \union Paths
  BY HostFilesAssumption
<1>5. TypeOK
  <2>1. stamp \in [Inodes -> Nat] /\ whole \in BOOLEAN
    BY DEF Init
  <2>2. op \in [pc : Places, mode : Modes, ok : BOOLEAN]
    BY DEF Init, Places, Modes
  <2>3. fav \in [path : {"source", "destination", None}, pending : BOOLEAN]
    BY DEF Init
  <2>4. crashes \in 0 .. MaxCrashes /\ faults \in 0 .. MaxFaults /\ edits \in 0 .. MaxEdits
    BY HostFilesAssumption DEF Init
  <2> QED  BY <1>1, <1>2, <1>3, <2>1, <2>2, <2>3, <2>4 DEF TypeOK
<1>6. Control
  BY <1>3 DEF Control, SpecialRun, FileRun
<1>7. Naming
  BY <1>2, <1>4 DEF Naming, Inodes
<1>8. Sound(rec) /\ Sound(jrn) /\ Renaming /\ Journaled
  BY <1>3 DEF Sound, Renaming, Journaled, Linked, Reserved
<1>9. Evidence
  BY <1>2, <1>3 DEF Evidence
<1>11. Undoable /\ FailedClean
  BY <1>2, <1>3, <1>4 DEF Undoable, FailedClean, InPlace, Inodes, Reserved
<1>10. Favorite
  BY <1>1, <1>2, <1>3, <1>4
  DEF Favorite, Told, Untold, Linked, Before, Reserved, Special, Inodes, Paths, Kinds
<1> QED  BY <1>5, <1>6, <1>7, <1>8, <1>9, <1>10, <1>11 DEF FilesInv

LEMMA CrashStep == ASSUME FilesInv, Crash PROVE FilesInv'
<1> USE DEF FilesInv, Crash, disk
<1>1. /\ op' \in [pc : Places, mode : Modes, ok : BOOLEAN]
      /\ op'.pc = "idle" /\ op'.mode = "down" /\ rec' = None
  BY DEF TypeOK, Places, Modes
<1>8. crashes' \in 0 .. MaxCrashes /\ crashes' > 0
  BY HostFilesAssumption DEF TypeOK
<1>2. TypeOK'
  BY <1>1, <1>8 DEF TypeOK
<1>3. Control' /\ Naming'
  BY <1>1, <1>8 DEF Control, Naming, Special
<1>4. Sound(rec)' /\ Sound(jrn)'
  BY <1>1 DEF Sound
<1>5. Renaming' /\ Evidence' /\ Journaled'
  BY <1>1 DEF Renaming, Evidence, Journaled, Special, Linked, Before, Reserved, Unstaged, Unboxed
<1>6. Favorite'
  BY <1>1 DEF Favorite, Told, Untold, Special, Linked, Before, Reserved
<1>7. Undoable' /\ FailedClean'
  BY <1>1, <1>8 DEF Undoable, FailedClean, Reserved
<1> QED  BY <1>2, <1>3, <1>4, <1>5, <1>6, <1>7

LEMMA RecoverStep == ASSUME FilesInv, Recover PROVE FilesInv'
<1> USE DEF FilesInv, Recover, disk, bounds
<1>1. CASE jrn = None
  <2>1. /\ op' \in [pc : Places, mode : Modes, ok : BOOLEAN]
        /\ op'.pc = "idle" /\ op'.mode = "ready" /\ rec' = None
    BY <1>1 DEF TypeOK, Places, Modes
  <2>2. TypeOK' /\ Control' /\ Naming'
    BY <1>1, <2>1 DEF TypeOK, Control, Naming, Special
  <2>3. Sound(rec)' /\ Sound(jrn)'
    BY <1>1, <2>1 DEF Sound
  <2>4. Renaming' /\ Evidence' /\ Journaled'
    BY <1>1, <2>1 DEF Renaming, Evidence, Journaled, Special, Linked, Before, Reserved, Unstaged, Unboxed
  <2>5. Favorite'
    BY <1>1, <2>1 DEF Favorite, Told, Untold, Special, Linked, Before, Reserved
  <2>6. Undoable' /\ FailedClean'
    BY <1>1, <2>1 DEF Undoable, FailedClean, Reserved, InPlace, Control
  <2> QED  BY <2>2, <2>3, <2>4, <2>5, <2>6
<1>2. CASE jrn # None
  <2>1. /\ op' \in [pc : Places, mode : Modes, ok : BOOLEAN]
        /\ op'.pc = (IF Special THEN "recover-special" ELSE "recover-stage")
        /\ op'.mode = "recover" /\ op'.ok = TRUE /\ rec' = jrn /\ crashes > 0
    BY <1>2 DEF TypeOK, Places, Modes, Control
  <2>2. TypeOK' /\ Control' /\ Naming'
    BY <1>2, <2>1 DEF TypeOK, Control, Naming, Special, SpecialRecovery, FileRecovery
  <2>3. Sound(rec)' /\ Sound(jrn)'
    BY <1>2, <2>1 DEF Sound
  <2>4. Renaming' /\ Evidence' /\ Journaled'
    BY <1>2, <2>1 DEF Renaming, Evidence, Journaled, Special, Linked, Before, Reserved, Unstaged, Unboxed
  <2>5. Favorite'
    BY <1>2, <2>1 DEF Favorite, Told, Untold, Special, Linked, Before, Reserved
  <2>6. Undoable' /\ FailedClean'
    BY <1>2, <2>1 DEF Undoable, FailedClean, Reserved, InPlace
  <2> QED  BY <2>2, <2>3, <2>4, <2>5, <2>6
<1> QED  BY <1>1, <1>2

-----------------------------------------------------------------------------
(* Failures                                                                 *)

\* What a failed write may have left in the journal.
Written == jrn' \in {jrn} \union (IF op.pc \in Phases THEN {Phased(rec)} ELSE {})

LEMMA WrittenLemma ==
  ASSUME FilesInv, Written, UNCHANGED <<job, disk>>
  PROVE  /\ jrn' \in Records \union {None} /\ Sound(jrn)'
         /\ \/ jrn' = jrn
            \/ /\ op.pc \in Phases /\ rec # None /\ jrn' # None
               /\ jrn'.phase = op.pc /\ jrn'.backup = rec.backup
               /\ jrn'.published = rec.published
         /\ ~ Special /\ jrn' # None => jrn'.phase # "source-unlinked"
<1>1. CASE jrn' = jrn
  BY <1>1 DEF FilesInv, TypeOK, Sound, disk, Renaming
<1>2. CASE jrn' # jrn
  <2>1. op.pc \in Phases /\ jrn' = [rec EXCEPT !.phase = op.pc]
    BY <1>2 DEF Written, Phased
  <2>2. rec # None /\ rec \in Records /\ Recorded(rec, job, at["destination"], stamp)
    BY <2>1 DEF FilesInv, TypeOK, Control, Sound, Phases
  <2>3. /\ jrn' \in Records /\ Recorded(jrn', job, at["destination"], stamp)
        /\ jrn'.phase = op.pc /\ jrn'.backup = rec.backup
        /\ jrn'.published = rec.published
    BY <2>1, <2>2, PhaseKept
  <2>4. op.pc = "source-unlinked" => Special
    BY PlaceLemma
  <2> QED  BY <2>1, <2>2, <2>3, <2>4, HostFilesAssumption DEF Sound, disk
<1> QED  BY <1>1, <1>2

LEMMA ThrowStep ==
  ASSUME FilesInv, Throw, Written, op.pc # "begin", faults' \in 0 .. MaxFaults,
         UNCHANGED <<job, disk, rec, fav, crashes, edits>>
  PROVE  FilesInv'
<1> USE DEF FilesInv, disk
<1>1. /\ jrn' \in Records \union {None} /\ Sound(jrn)'
      /\ \/ jrn' = jrn
         \/ /\ op.pc \in Phases /\ rec # None /\ jrn' # None
            /\ jrn'.phase = op.pc /\ jrn'.backup = rec.backup
            /\ jrn'.published = rec.published
      /\ ~ Special /\ jrn' # None => jrn'.phase # "source-unlinked"
  BY WrittenLemma
<1>2. Sound(rec)' /\ Naming'
  BY DEF Sound, Naming, Special
<1>3. CASE op.mode = "run" /\ op.pc \notin Late
  <2>0. /\ op' = [pc |-> IF Special THEN "restore" ELSE "undo-stage", mode |-> "undo", ok |-> TRUE]
        /\ answer' = answer
    BY <1>3 DEF Throw
  <2>1. /\ op'.pc = (IF Special THEN "restore" ELSE "undo-stage")
        /\ op'.mode = "undo" /\ op'.ok = TRUE /\ answer' = answer
        /\ op' \in [pc : Places, mode : Modes, ok : BOOLEAN]
    BY <2>0 DEF Places, Modes, Rollback
  <2>2. TypeOK'
    BY <1>1, <2>1 DEF TypeOK
  <2>9. Control'
    BY <1>1, <1>3, <2>1 DEF Control, Special, Restoring, SpecialRun, FileRun, Linked
  <2>3. op.pc \notin {"begin", "idle", "move-favorites", "move-source"} /\ rec # None
    BY <1>3 DEF Control, Late, SpecialRun, FileRun, Linked
  <2>4. Renaming' /\ Evidence'
    BY <1>1, <1>3, <2>1
    DEF Renaming, Evidence, Special, Linked, Before, Reserved, Unstaged, Unboxed, Completing, Forward
  <2>5. Journaled'
    BY <1>1, <1>3, <2>1 DEF Journaled, Special, Linked, Reserved
  <2>6. Untold \/ ~ Special
    BY <1>3, <2>3 DEF Untold, Control, SpecialRun, Late, Linked, Before, Reserved, Special
  <2>7. Favorite'
    BY <1>1, <1>3, <2>1, <2>3, <2>6 DEF Favorite, Told, Special, Linked, Phases
  <2>8. Undoable' /\ FailedClean'
    BY <1>1, <1>3, <2>1, <2>3 DEF Undoable, FailedClean, Control, Reserved, InPlace, Special, Phases
  <2> QED  BY <1>1, <1>2, <2>2, <2>4, <2>5, <2>7, <2>8, <2>9
<1>4. CASE op.mode = "run" /\ op.pc \in Late
  <2>1. /\ op'.pc = "idle" /\ op'.mode = "ready" /\ answer' = "failed"
        /\ op' \in [pc : Places, mode : Modes, ok : BOOLEAN]
    BY <1>4 DEF Throw, GiveUp, TypeOK, Places, Modes
  <2>2. TypeOK' /\ Control'
    BY <1>1, <1>4, <2>1 DEF TypeOK, Control, Special
  <2>3. job.kind = "move" \/ jrn' # None
    BY <1>1, <1>4 DEF Journaled, Control, Late, FileRun, SpecialRun, Linked
  <2>4. Renaming' /\ Evidence' /\ Journaled'
    BY <1>1, <1>4, <2>1
    DEF Renaming, Evidence, Journaled, Special, Linked, Before, Reserved, Unstaged, Unboxed, Forward
  <2>5. Favorite'
    BY <1>1, <1>4, <2>1 DEF Favorite, Told, Untold, Special, Linked, Before, Reserved, Phases
  <2>6. Undoable' /\ FailedClean'
    BY <1>1, <2>1, <2>3 DEF Undoable, FailedClean, Reserved
  <2> QED  BY <1>1, <1>2, <2>2, <2>4, <2>5, <2>6
<1>5. CASE op.mode = "recover" /\ Special
  <2>1. /\ op'.pc = "conclude" /\ op'.mode = "recover" /\ op'.ok = FALSE /\ answer' = answer
        /\ op' \in [pc : Places, mode : Modes, ok : BOOLEAN]
    BY <1>5 DEF Throw, TypeOK, Places, Modes
  <2>2. TypeOK' /\ Control' /\ rec # None /\ jrn # None
    BY <1>1, <1>5, <2>1
    DEF TypeOK, Control, Journaled, Special, SpecialRecovery, Restoring
  <2>4. Renaming' /\ Evidence' /\ Journaled'
    BY <1>1, <1>5, <2>1, <2>2
    DEF Renaming, Evidence, Journaled, Special, Linked, Before, Reserved, Unstaged, Unboxed, Forward
  <2>5. Favorite'
    BY <1>1, <1>5, <2>1, <2>2 DEF Favorite, Told, Untold, Special, Linked, Before, Reserved
  <2>6. Undoable' /\ FailedClean'
    BY <1>1, <1>5, <2>1, <2>2 DEF Undoable, FailedClean, Reserved, Control
  <2> QED  BY <1>1, <1>2, <2>2, <2>4, <2>5, <2>6
<1> QED  BY <1>3, <1>4, <1>5 DEF Throw

LEMMA FaultStep == ASSUME FilesInv, Fault PROVE FilesInv'
<1> USE DEF FilesInv, disk
<1>1. /\ faults' \in 0 .. MaxFaults /\ Written /\ UNCHANGED <<job, disk, rec, fav, crashes, edits>>
  BY HostFilesAssumption DEF Fault, TypeOK, Written
<1>2. CASE Throw /\ op.pc # "begin"
  BY <1>1, <1>2, ThrowStep
<1>3. /\ jrn' \in Records \union {None} /\ Sound(jrn)'
      /\ \/ jrn' = jrn
         \/ /\ op.pc \in Phases /\ rec # None /\ jrn' # None
            /\ jrn'.phase = op.pc /\ jrn'.backup = rec.backup
            /\ jrn'.published = rec.published
      /\ ~ Special /\ jrn' # None => jrn'.phase # "source-unlinked"
  BY <1>1, WrittenLemma
<1>4. Sound(rec)' /\ Naming'
  BY <1>1 DEF Sound, Naming, Special
<1>5. CASE /\ op.mode \in {"undo", "abort", "recover"} /\ op.pc \in Rollback
           /\ op' = [op EXCEPT !.ok = FALSE,
                               !.pc = CASE @ = "undo-stage" -> AfterStage
                                       [] @ = "undo-publication" -> "restore"
                                       [] OTHER -> "conclude"]
           /\ UNCHANGED answer
  <2>1. /\ op'.mode = op.mode /\ op'.ok = FALSE
        /\ op'.pc = CASE op.pc = "undo-stage" -> AfterStage
                      [] op.pc = "undo-publication" -> "restore"
                      [] OTHER -> "conclude"
    BY <1>5 DEF TypeOK
  <2>2. \/ op'.pc \in {"restore", "conclude"}
        \/ op.pc = "undo-stage" /\ op'.pc = "undo-publication" /\ rec.published = NoId
    BY <2>1 DEF AfterStage
  <2>3. (op.mode = "undo" /\ ~ Special) \/ op'.pc = "conclude"
    BY <1>5, <2>1, <2>2 DEF Control, Restoring, Rollback, SpecialRecovery, FileRecovery
  <2>4. TypeOK' /\ Control'
    <3>1. op' \in [pc : Places, mode : Modes, ok : BOOLEAN]
      BY <1>5, <2>1, <2>2 DEF TypeOK, Places, Rollback
    <3>2. TypeOK'
      BY <1>1, <1>3, <1>5, <3>1 DEF TypeOK
    <3>3. Control'
      BY <1>1, <1>3, <1>5, <2>1, <2>2, <2>3
      DEF Control, Special, Restoring, Rollback, SpecialRecovery, FileRecovery
    <3> QED  BY <3>2, <3>3
  <2>5. rec # None /\ (op.mode # "undo" => jrn # None)
    BY <1>5 DEF Control, Rollback, Journaled
  <2>6. Renaming' /\ Evidence' /\ Journaled'
    BY <1>1, <1>3, <1>5, <2>1, <2>2, <2>3, <2>5
    DEF Renaming, Evidence, Journaled, Special, Linked, Before, Reserved, Unstaged, Unboxed, Forward,
        Control, Restoring, Rollback
  <2>7. Favorite'
    BY <1>1, <1>3, <1>5, <2>1, <2>2, <2>3, <2>5
    DEF Favorite, Told, Untold, Special, Linked, Before, Reserved, Control, Rollback
  <2>8. Undoable' /\ FailedClean'
    BY <1>1, <1>3, <1>5, <2>1, <2>2, <2>3, <2>5
    DEF Undoable, FailedClean, Reserved, InPlace, Special, Control, Rollback
  <2> QED  BY <1>3, <1>4, <2>4, <2>6, <2>7, <2>8
<1>6. CASE op.mode \in {"undo", "abort"} /\ op.pc \in {"conclude", "abort"} /\ GiveUp
  <2>1. /\ op'.pc = "idle" /\ op'.mode = "ready" /\ answer' = "failed" /\ jrn' = jrn
        /\ op' \in [pc : Places, mode : Modes, ok : BOOLEAN]
    BY <1>1, <1>6 DEF GiveUp, TypeOK, Places, Modes, Phases, Written
  <2>2. TypeOK' /\ Control'
    BY <1>1, <1>6, <2>1 DEF TypeOK, Control, Special
  <2>3. jrn = None =>
          /\ rec # None /\ ~ rec.backup /\ rec.published = NoId /\ at["destination"] # "new"
          /\ at["stage"] = None /\ at["box"] = None /\ op.mode = "undo"
    BY <1>6 DEF Control, Journaled, Undoable, Evidence
  <2>4. Renaming' /\ Evidence' /\ Journaled'
    BY <1>1, <1>6, <2>1
    DEF Renaming, Evidence, Journaled, Special, Linked, Before, Reserved, Unstaged, Unboxed
  <2>5. Favorite'
    BY <1>1, <1>6, <2>1 DEF Favorite, Told, Untold, Special, Linked, Before, Reserved
  <2>6. Undoable' /\ FailedClean'
    BY <1>1, <2>1, <2>3, HostFilesAssumption DEF Undoable, FailedClean, Reserved, InPlace, Inodes
  <2> QED  BY <1>3, <1>4, <2>2, <2>4, <2>5, <2>6
<1>7. CASE op.mode \in {"recover", "down"} /\ Break
  <2>1. /\ op'.pc = "idle" /\ op'.mode = "broken" /\ answer' = answer
        /\ op' \in [pc : Places, mode : Modes, ok : BOOLEAN]
    BY <1>7 DEF Break, TypeOK, Places, Modes
  <2>2. TypeOK' /\ Control'
    BY <1>1, <1>3, <1>7, <2>1 DEF TypeOK, Control, Special
  <2>4. Renaming' /\ Evidence' /\ Journaled'
    BY <1>1, <1>3, <1>7, <2>1
    DEF Renaming, Evidence, Journaled, Special, Linked, Before, Reserved, Unstaged, Unboxed, Forward, Control
  <2>5. Favorite'
    BY <1>1, <1>3, <1>7, <2>1 DEF Favorite, Told, Untold, Special, Linked, Before, Reserved, Phases
  <2>6. Undoable' /\ FailedClean'
    BY <1>1, <1>7, <2>1 DEF Undoable, FailedClean, Reserved, InPlace, Control
  <2> QED  BY <1>3, <1>4, <2>2, <2>4, <2>5, <2>6
<1>8. op.pc = "begin" => op.mode = "run"
  BY DEF Control, TypeOK, Modes, Special, Restoring, SpecialRecovery, FileRecovery
<1> QED  BY <1>2, <1>5, <1>6, <1>7, <1>8 DEF Fault

(* The other programs                                                       *)
LEMMA EditStep ==
  ASSUME FilesInv, NEW p \in {"source", "destination", "stage", "backup"}, Edit(p)
  PROVE  FilesInv'
<1> USE DEF FilesInv
<1>1. UNCHANGED <<job, whole, rec, jrn, op, fav, answer, crashes, faults>>
      /\ edits' \in 0 .. MaxEdits /\ edits' # 0
  BY HostFilesAssumption DEF Edit, TypeOK
<1>2. /\ at' \in [Paths -> Inodes \union {None}] /\ stamp' \in [Inodes -> Nat]
      /\ \A q \in Paths \ {p} : at'[q] = at[q]
      /\ at'[p] \in {at[p], None, "foreign"}
      /\ at'[p] # at[p] /\ at[p] # None => stamp'[at[p]] = stamp[at[p]] + 1
      /\ \A i \in Inodes : stamp[i] <= stamp'[i]
      /\ p \in {"stage", "backup"} => at[p] # None
  <2>0. p \in Paths /\ at[p] \in Inodes \union {None} /\ "foreign" \in Inodes /\ None \notin Inodes
    BY HostFilesAssumption DEF TypeOK, Paths, Inodes
  <2>1. CASE at[p] # None /\ Touch({at[p]}) /\ UNCHANGED at
    BY <2>0, <2>1 DEF Touch, TypeOK, Edit
  <2>2. CASE at[p] # None /\ Unlink(p)
    BY <2>0, <2>2, UnlinkLemma DEF Edit, TypeOK
  <2>3. CASE /\ at' = [at EXCEPT ![p] = "foreign"]
             /\ Touch({at[p], "foreign"} \union Inside(p))
    <3>1. at' \in [Paths -> Inodes \union {None}] /\ at'[p] = "foreign"
          /\ \A q \in Paths \ {p} : at'[q] = at[q]
      BY <2>0, <2>3 DEF TypeOK
    <3>2. stamp' = [j \in Inodes |-> IF j \in {at[p], "foreign"} \union Inside(p)
                                     THEN stamp[j] + 1 ELSE stamp[j]]
      BY <2>3 DEF Touch
    <3> QED  BY <2>0, <3>1, <3>2 DEF TypeOK, Edit
  <2> QED  BY <2>1, <2>2, <2>3 DEF Edit
<1>3. TypeOK' /\ Control'
  BY <1>1, <1>2 DEF TypeOK, Control, Special
<1>4. /\ at'["source"] \in {at["source"], None, "foreign"}
      /\ at'["destination"] \in {at["destination"], None, "foreign"}
      /\ at'["stage"] \in {at["stage"], None, "foreign"} /\ at'["box"] = at["box"]
      /\ at'["backup"] \in {at["backup"], None, "foreign"}
      /\ at["stage"] = None => at'["stage"] = None
      /\ at["backup"] = None => at'["backup"] = None
  BY <1>2 DEF Paths
<1>5. /\ at["destination"] \in {"new", "old", "src"} /\ at'["destination"] # at["destination"] =>
           stamp'[at["destination"]] > stamp[at["destination"]]
      /\ at["backup"] = "old" /\ at'["backup"] # "old" => stamp'["old"] > stamp["old"]
      /\ stamp["old"] <= stamp'["old"] /\ stamp["new"] <= stamp'["new"]
      /\ stamp["old"] \in Nat /\ stamp["new"] \in Nat /\ stamp'["old"] \in Nat /\ stamp'["new"] \in Nat
  <2>1. p # "destination" => at'["destination"] = at["destination"]
    BY <1>2 DEF Paths
  <2>2. p # "backup" => at'["backup"] = at["backup"]
    BY <1>2 DEF Paths
  <2> QED  BY <1>2, <2>1, <2>2, HostFilesAssumption DEF Inodes, TypeOK
<1>6. Naming'
  BY <1>1, <1>4, HostFilesAssumption DEF Naming, Special, Inodes
<1>7. Sound(rec)' /\ Sound(jrn)'
  <2>1. \A r \in Records : Recorded(r, job, at["destination"], stamp) =>
                             Recorded(r, job, at'["destination"], stamp')
    <3> SUFFICES ASSUME NEW r \in Records, Recorded(r, job, at["destination"], stamp)
                 PROVE  Recorded(r, job, at'["destination"], stamp')
      OBVIOUS
    <3>1. stamp \in [Inodes -> Nat] /\ stamp' \in [Inodes -> Nat]
      BY <1>2 DEF TypeOK
    <3>2. \A i \in Inodes : stamp[i] <= stamp'[i]
      BY <1>2
    <3>3. \A i \in {"old", "src"} :
            at["destination"] = i => at'["destination"] = i \/ stamp[i] < stamp'[i]
      BY <1>5
    <3> QED  BY <3>1, <3>2, <3>3, RecordKept
  <2> QED  BY <1>1, <2>1 DEF Sound, TypeOK
<1>8. Renaming' /\ Evidence'
  BY <1>1, <1>4 DEF Renaming, Evidence, Special, Completing, Linked
<1>9. Journaled'
  <2>1. op.pc \in {"publishing", "unlink-stage"}
          /\ rec.owned["stage"] = [ino |-> "new", stamp |-> stamp'["new"]] => at'["destination"] = "new"
    <3> SUFFICES ASSUME op.pc \in {"publishing", "unlink-stage"},
                        rec.owned["stage"] = [ino |-> "new", stamp |-> stamp'["new"]]
                 PROVE  at'["destination"] = "new"
      OBVIOUS
    <3>1. rec # None /\ rec.owned["stage"].stamp <= stamp["new"]
      BY DEF Control, Sound, Recorded
    <3>2. stamp'["new"] = stamp["new"]
      BY <1>5, <3>1
    <3> QED  BY <1>5, <3>2 DEF Journaled
  <2>2. op.pc \in {"backup-linked", "unlink-destination"}
          /\ rec.owned["backup"] = [ino |-> "old", stamp |-> stamp'["old"]] => at'["backup"] = "old"
    <3> SUFFICES ASSUME op.pc \in {"backup-linked", "unlink-destination"},
                        rec.owned["backup"] = [ino |-> "old", stamp |-> stamp'["old"]]
                 PROVE  at'["backup"] = "old"
      OBVIOUS
    <3>1. rec # None /\ rec.owned["backup"].stamp <= stamp["old"]
      BY DEF Control, Sound, Recorded
    <3>2. stamp'["old"] = stamp["old"]
      BY <1>5, <3>1
    <3> QED  BY <1>5, <3>2 DEF Journaled
  <2> QED  BY <1>1, <2>1, <2>2 DEF Journaled, Special
<1>10. Favorite' /\ Undoable' /\ FailedClean'
  BY <1>1, <1>4, HostFilesAssumption
  DEF Favorite, Untold, Told, Undoable, FailedClean, InPlace, Special, Completing, Inodes
<1> QED  BY <1>3, <1>6, <1>7, <1>8, <1>9, <1>10

(* A checkpoint writes the record with the phase that was reached           *)
LEMMA AfterLemma ==
  ASSUME NEW phase \in Phases, NEW next, next = After(phase)
  PROVE  \/ phase = "stage-planned" /\ next = "open"
         \/ phase = "streaming" /\ next = "stream"
         \/ /\ phase \in {"prepared", "staged"}
            /\ next = IF job.replace THEN "quarantine" ELSE IF Special THEN "link-source" ELSE "publish"
         \/ phase = "backup-planned" /\ next = "mkdir"
         \/ phase = "backup-reserved" /\ next = IF Special THEN "link-backup" ELSE "rename"
         \/ phase = "backup-linked" /\ next = "unlink-destination"
         \/ phase = "quarantined" /\ next = IF Special THEN "link-source" ELSE "publish"
         \/ phase = "publishing" /\ next = "unlink-stage"
         \/ phase = "unstaged" /\ next = "record"
         \/ phase = "published" /\ next = IF job.replace THEN "unbackup" ELSE "finish"
         \/ phase = "linked" /\ next = "favorites-1"
         \/ phase = "source-unlink-authorized" /\ next = "unlink-source"
         \/ phase = "source-unlinked" /\ next = "favorites-2"
         \/ phase = "backup-cleaned" /\ next = "favorites-3"
         \/ phase = "restored" /\ next = "unbackup"
         \/ phase = "restore-backup-cleaned" /\ next = "conclude"
         \/ phase = "recovery-stage-cleaned" /\ next = "recover-look"
         \/ phase = "recovery-destination-cleaned" /\ next = "restore"
  BY DEF Phases, After

LEMMA CheckpointStep == ASSUME FilesInv, Checkpoint PROVE FilesInv'
<1> USE DEF FilesInv, disk, bounds
<1>1. /\ UNCHANGED <<job, at, stamp, whole, fav, answer, crashes, faults, edits>>
      /\ op.pc \in Phases /\ rec' = [rec EXCEPT !.phase = op.pc] /\ jrn' = rec'
  BY DEF Checkpoint, Phased
<1>2. rec # None /\ rec \in Records /\ Recorded(rec, job, at["destination"], stamp)
  BY <1>1 DEF Control, Sound, TypeOK, Phases
<1>3. /\ rec' \in Records /\ Recorded(rec', job, at["destination"], stamp)
      /\ rec' # None /\ rec'.phase = op.pc
      /\ rec'.backup = rec.backup /\ rec'.owned = rec.owned
      /\ rec'.published = rec.published /\ rec'.source = rec.source
  <2>1. op.pc \in Phases \union {"recovery-pending"}
    BY <1>1
  <2> HIDE DEF FilesInv
  <2>2. /\ rec' \in Records /\ Recorded(rec', job, at["destination"], stamp) /\ rec'.phase = op.pc
        /\ rec'.backup = rec.backup /\ rec'.owned = rec.owned
        /\ rec'.published = rec.published /\ rec'.source = rec.source
    BY <1>1, <1>2, <2>1, PhaseKept
  <2> QED  BY <2>2, HostFilesAssumption
<1>4. op'.pc = After(op.pc) /\ op'.mode = op.mode /\ op'.ok = op.ok
  BY DEF Checkpoint, Go, TypeOK
<1>5. \/ op.pc = "stage-planned" /\ op'.pc = "open"
      \/ op.pc = "streaming" /\ op'.pc = "stream"
      \/ /\ op.pc \in {"prepared", "staged"}
         /\ op'.pc = IF job.replace THEN "quarantine" ELSE IF Special THEN "link-source" ELSE "publish"
      \/ op.pc = "backup-planned" /\ op'.pc = "mkdir"
      \/ op.pc = "backup-reserved" /\ op'.pc = IF Special THEN "link-backup" ELSE "rename"
      \/ op.pc = "backup-linked" /\ op'.pc = "unlink-destination"
      \/ op.pc = "quarantined" /\ op'.pc = IF Special THEN "link-source" ELSE "publish"
      \/ op.pc = "publishing" /\ op'.pc = "unlink-stage"
      \/ op.pc = "unstaged" /\ op'.pc = "record"
      \/ op.pc = "published" /\ op'.pc = IF job.replace THEN "unbackup" ELSE "finish"
      \/ op.pc = "linked" /\ op'.pc = "favorites-1"
      \/ op.pc = "source-unlink-authorized" /\ op'.pc = "unlink-source"
      \/ op.pc = "source-unlinked" /\ op'.pc = "favorites-2"
      \/ op.pc = "backup-cleaned" /\ op'.pc = "favorites-3"
      \/ op.pc = "restored" /\ op'.pc = "unbackup"
      \/ op.pc = "restore-backup-cleaned" /\ op'.pc = "conclude"
      \/ op.pc = "recovery-stage-cleaned" /\ op'.pc = "recover-look"
      \/ op.pc = "recovery-destination-cleaned" /\ op'.pc = "restore"
  BY <1>1, <1>4, AfterLemma
<1>6. op' \in [pc : Places, mode : Modes, ok : BOOLEAN]
  <2>1. op'.pc \in Places
    BY <1>5 DEF Places, Rollback, Phases
  <2>2. op' = [op EXCEPT !.pc = op'.pc]
    BY <1>4 DEF Checkpoint, Go
  <2> QED  BY <2>1, <2>2 DEF TypeOK
<1>7. TypeOK' /\ Sound(rec)' /\ Sound(jrn)' /\ Naming'
  BY <1>1, <1>3, <1>6 DEF TypeOK, Sound, Naming, Special
<1>8. Control'
  BY <1>1, <1>3, <1>4, <1>5
  DEF Control, Special, SpecialRun, FileRun, SpecialRecovery, FileRecovery, Restoring, Linked
<1>9. Renaming'
  <2>1. op.pc = "source-unlinked" => Special
    BY PlaceLemma
  <2> QED
  BY <1>1, <1>3, <1>4, <1>5, <2>1
  DEF Renaming, Control, Special, Completing, SpecialRun, FileRun, SpecialRecovery, FileRecovery,
      Restoring, Linked, Forward
<1>10. Evidence'
  BY <1>1, <1>2, <1>3, <1>4, <1>5
  DEF Evidence, Control, Undoable, Recorded, Special, Before, Reserved, Unstaged, Unboxed,
      SpecialRun, FileRun, SpecialRecovery, FileRecovery, Restoring, Linked
<1>11. Journaled'
  <2>1. op.pc \in {"restored", "published", "linked", "source-unlink-authorized", "source-unlinked"} =>
          rec.published # NoId
    BY HostFilesAssumption DEF Journaled, Renaming, Linked, NoId, Inodes
  <2>2. op'.pc \in {"unbackup"} \union Linked => rec.published # NoId
    BY <1>5, <2>1 DEF Linked
  <2>3. op'.pc \in {"mkdir"} \union Reserved => rec.backup
    BY <1>2, <1>5 DEF Reserved, Journaled, Evidence
  <2>4. op'.mode = "undo" /\ op'.pc \in {"restored", "unbackup", "unbox", "restore-backup-cleaned"} =>
          rec.published # NoId
    BY <1>4, <1>5, <2>1
  <2>5. /\ op'.pc = "unlink-stage" => op.pc = "publishing"
        /\ op'.pc = "unlink-destination" => op.pc = "backup-linked"
        /\ op'.pc \notin {"publishing", "backup-linked", "restored", "published", "move-favorites", "move-source",
                          "undo-publication", "recover-publication", "backup-planned"}
    BY <1>5
  <2>6. op.mode = "run" /\ ~ Special /\ op'.pc \notin {"begin", "stage-planned", "open", "streaming", "stream"} =>
          whole
    BY <1>5 DEF Journaled
  <2> QED  BY <1>1, <1>3, <1>4, <2>2, <2>3, <2>4, <2>5, <2>6 DEF Journaled, Special
<1>12. Favorite'
  <2>1. Untold' => Untold
    BY <1>1, <1>3, <1>4, <1>5
    DEF Control, Untold, Completing, Special, Before, Reserved, Linked,
      SpecialRun, FileRun, SpecialRecovery, FileRecovery, Restoring
  <2>2. Told' => Told
    BY <1>1, <1>3, <1>4, <1>5
    DEF Control, TypeOK, Modes, Told, Completing, Special, Linked,
      SpecialRun, FileRun, SpecialRecovery, FileRecovery, Restoring
  <2>3. op'.pc = "favorites-1" => op.pc = "linked"
    BY <1>5
  <2>4. op.pc \notin {"move-source", "idle"} /\ op'.pc \notin {"linked", "move-source", "idle"}
    BY <1>1, <1>5 DEF Phases
  <2>5. op'.pc = "finish" => ~ Special
    BY <1>5 DEF Control, TypeOK, Modes, SpecialRun, FileRun, SpecialRecovery, FileRecovery, Restoring, Linked
  <2> QED  BY <1>1, <1>3, <2>1, <2>2, <2>3, <2>4, <2>5 DEF Favorite, Special
<1>13. Undoable' /\ FailedClean'
  <2>1. op.pc # "begin" /\ op'.pc \notin {"begin", "undo-stage"}
    BY <1>1, <1>5 DEF Phases
  <2>2. Control /\ jrn' # None
    BY <1>1, <1>3
  <2>3. op.mode = "run" /\ op'.pc \in Reserved \union
          {"mkdir", "backup-linked", "unlink-destination", "quarantined"} => rec.backup
    BY <1>5 DEF Reserved, Journaled, Undoable
  <2>4. op.mode = "run" /\ op'.pc \in {"publish", "link-source", "linked", "favorites-1"} =>
          (rec.backup <=> job.replace)
    BY <1>2, <1>5 DEF Undoable, Recorded
  <2>5. op.mode = "undo" /\ op.ok /\ rec.published = NoId =>
          /\ job.kind = "copy" => op'.pc \notin {"restore", "conclude"}
          /\ op'.pc # "conclude"
    BY <1>5 DEF Journaled, Control, Restoring
  <2>6. op.mode = "abort" => op'.pc # "restore" /\ (op'.pc \in Restoring => op.pc \in Restoring \ {"restore"})
    BY <1>5 DEF Control, Restoring
  <2>7. op'.pc \in {"stage-planned", "open"} => op.pc = "stage-planned"
    BY <1>5
  <2> QED  BY <1>1, <1>2, <1>3, <1>4, <2>1, <2>2, <2>3, <2>4, <2>5, <2>6, <2>7
           DEF Undoable, FailedClean, Control, InPlace, Special
<1> QED  BY <1>7, <1>8, <1>9, <1>10, <1>11, <1>12, <1>13

-----------------------------------------------------------------------------
(* The operation                                                            *)

(* A step whose guard does not hold throws                                  *)
LEMMA RefusedStep ==
  ASSUME FilesInv, Throw, op.pc # "begin", UNCHANGED <<job, disk, rec, jrn, fav, bounds>>
  PROVE  FilesInv'
<1>1. Written /\ faults' \in 0 .. MaxFaults
  BY DEF Written, FilesInv, TypeOK, bounds
<1> QED  BY <1>1, ThrowStep DEF bounds

(* The record of an operation that is under way                             *)
LEMMA RecLemma ==
  ASSUME FilesInv, op.pc \notin {"begin", "idle"}
  PROVE  /\ rec # None /\ rec \in Records /\ Recorded(rec, job, at["destination"], stamp)
         /\ \A p \in Paths : rec.owned[p] \in Ids
         /\ rec.published \in Ids /\ rec.source \in Ids
  BY DEF FilesInv, Control, Sound, TypeOK, Records

LEMMA OpenStageStep ==
  ASSUME FilesInv, OpenStage, UNCHANGED <<job, whole, jrn, fav, bounds>> PROVE FilesInv'
<1> USE DEF FilesInv, bounds
<1>1. op.pc = "open" /\ op.mode = "run" /\ ~ Special /\ jrn # None
  BY PlaceLemma DEF OpenStage, Journaled
<1>2. CASE at["stage"] # None
  BY <1>1, <1>2, RefusedStep DEF OpenStage, Steps, disk
<1>3. CASE at["stage"] = None
  <2>1. /\ op' = [op EXCEPT !.pc = "streaming"] /\ answer' = answer
        /\ Bind("stage", "new") /\ rec' = Remembering(rec, {"stage"})
    BY <1>1, <1>3 DEF OpenStage, Steps, Go, Remember
  <2>2. op' \in [pc : Places, mode : Modes, ok : BOOLEAN]
        /\ op'.pc = "streaming" /\ op'.mode = "run" /\ op'.ok = op.ok
    BY <1>1, <2>1 DEF TypeOK, Places, Phases
  <2>3. /\ at' \in [Paths -> Inodes \union {None}] /\ stamp' \in [Inodes -> Nat]
        /\ at'["stage"] = "new" /\ at'["source"] = at["source"] /\ at'["box"] = at["box"]
        /\ at'["destination"] = at["destination"] /\ at'["backup"] = at["backup"]
        /\ stamp'["new"] = stamp["new"] + 1 /\ stamp["new"] \in Nat
        /\ \A i \in Inodes : i # "new" => stamp'[i] = stamp[i]
    BY <2>1, BindLemma DEF Paths, Inodes, TypeOK
  <2>4. rec # None /\ rec \in Records /\ Recorded(rec, job, at["destination"], stamp)
    BY <1>1, RecLemma
  <2>5. /\ rec' \in Records /\ rec'.phase = rec.phase /\ rec'.backup = rec.backup
        /\ rec'.published = rec.published /\ rec'.source = rec.source
        /\ rec'.owned["stage"] = [ino |-> "new", stamp |-> stamp'["new"]]
        /\ rec'.owned["box"] = rec.owned["box"] /\ rec'.owned["backup"] = rec.owned["backup"]
        /\ rec'.owned["destination"] = rec.owned["destination"]
    BY <2>1, <2>3, <2>4, RememberLemma, HostFilesAssumption DEF Paths, Id, Inodes
  <2>6. rec' # None
    BY <2>5, HostFilesAssumption
  <2>7. Recorded(rec, job, at'["destination"], stamp') /\ (jrn # None => Recorded(jrn, job, at'["destination"], stamp'))
    BY <2>3, <2>4, RecordKept DEF Inodes, TypeOK, Sound
  <2>8. Recorded(rec', job, at'["destination"], stamp')
    BY <2>3, <2>5, <2>7 DEF Recorded, Inodes
  <2>9. TypeOK'
    BY <1>1, <1>3, <2>1, <2>2, <2>3, <2>4, <2>5, <2>6, <2>8 DEF TypeOK
  <2>10. Control'
    BY <1>1, <1>3, <2>1, <2>2, <2>3, <2>4, <2>5, <2>6, <2>8
    DEF Control, Special, SpecialRun, FileRun, SpecialRecovery, FileRecovery, Restoring, Linked
  <2>11. Naming'
    BY <1>1, <1>3, <2>1, <2>2, <2>3, <2>4, <2>5, <2>6, <2>8 DEF Naming, Special
  <2>12. Sound(rec)'
    BY <1>1, <1>3, <2>1, <2>2, <2>3, <2>4, <2>5, <2>6, <2>8 DEF Sound
  <2>13. Sound(jrn)'
    BY <1>1, <1>3, <2>1, <2>2, <2>3, <2>4, <2>5, <2>6, <2>7 DEF Sound
  <2>14. Renaming'
    BY <1>1, <1>3, <2>1, <2>2, <2>3, <2>4, <2>5, <2>6, <2>8
    DEF Renaming, Special, Completing, Linked, Forward
  <2>15. Evidence'
    BY <1>1, <1>3, <2>1, <2>2, <2>3, <2>4, <2>5, <2>6, <2>8
    DEF Evidence, Special, Before, Reserved, Unstaged, Unboxed
  <2>16. Journaled'
    BY <1>1, <1>3, <2>1, <2>2, <2>3, <2>4, <2>5, <2>6, <2>8 DEF Journaled, Special, Reserved, Linked
  <2>17. Favorite'
    BY <1>1, <1>3, <2>1, <2>2, <2>3, <2>4, <2>5, <2>6, <2>8
    DEF Favorite, TypeOK, Untold, Told, Completing, Special, Before, Reserved, Linked
  <2>18. Undoable'
    BY <1>1, <1>3, <2>1, <2>2, <2>3, <2>4, <2>5, <2>6, <2>8
    DEF Undoable, InPlace, Special, Reserved, Restoring
  <2>19. FailedClean'
    BY <1>1, <1>3, <2>1, <2>2, <2>3, <2>4, <2>5, <2>6, <2>8 DEF FailedClean, InPlace, Control
  <2> QED  BY <2>9, <2>10, <2>11, <2>12, <2>13, <2>14, <2>15, <2>16, <2>17, <2>18, <2>19
<1> QED  BY <1>2, <1>3

LEMMA BeginStep == ASSUME FilesInv, Begin PROVE FilesInv'
<1> USE DEF FilesInv, disk, bounds
<1>1. /\ op.pc = "begin" /\ op.mode = "run" /\ rec = None /\ jrn = None
      /\ UNCHANGED <<job, at, stamp, whole, jrn, fav, crashes, faults, edits>>
  BY PlaceLemma DEF Begin, Control
<1>2. CASE op' = [op EXCEPT !.pc = "idle", !.mode = "ready"] /\ answer' = "failed" /\ rec' = rec
  <2>1. op' \in [pc : Places, mode : Modes, ok : BOOLEAN] /\ op'.pc = "idle" /\ op'.mode = "ready"
    BY <1>2 DEF TypeOK, Places, Modes
  <2>2. TypeOK'
    BY <1>1, <1>2, <2>1 DEF TypeOK
  <2>3. Control'
    BY <1>1, <1>2, <2>1
    DEF Control, Special, SpecialRun, FileRun, SpecialRecovery, FileRecovery, Restoring, Linked
  <2>4. Naming'
    BY <1>1, <1>2, <2>1 DEF Naming, Special
  <2>5. Sound(rec)'
    BY <1>1, <1>2, <2>1 DEF Sound
  <2>6. Sound(jrn)'
    BY <1>1, <1>2, <2>1 DEF Sound
  <2>7. Renaming'
    BY <1>1, <1>2, <2>1 DEF Renaming, Special, Completing, Linked, Forward
  <2>8. Evidence'
    BY <1>1, <1>2, <2>1 DEF Evidence, Special, Before, Reserved, Unstaged, Unboxed
  <2>9. Journaled'
    BY <1>1, <1>2, <2>1 DEF Journaled, Special, Reserved, Linked
  <2>10. Favorite'
    BY <1>1, <1>2, <2>1
    DEF Favorite, TypeOK, Untold, Told, Completing, Special, Before, Reserved, Linked
  <2>11. Undoable'
    BY <1>1, <1>2, <2>1 DEF Undoable, InPlace, Special, Reserved, Restoring
  <2>12. FailedClean'
    BY <1>1, <1>2, <2>1, HostFilesAssumption
    DEF FailedClean, InPlace, Control, Evidence, Naming, Undoable, Inodes
  <2> QED  BY <2>2, <2>3, <2>4, <2>5, <2>6, <2>7, <2>8, <2>9, <2>10, <2>11, <2>12
<1>3. CASE rec' = NewRecord /\ Go(IF Special THEN "prepared" ELSE "stage-planned") /\ answer' = answer
  <2>1. op' \in [pc : Places, mode : Modes, ok : BOOLEAN]
        /\ op'.pc = (IF Special THEN "prepared" ELSE "stage-planned") /\ op'.mode = "run" /\ op'.ok = op.ok
    BY <1>1, <1>3 DEF TypeOK, Places, Phases, Go
  <2>2. /\ rec' \in Records /\ rec'.phase = "prepared" /\ rec'.backup = FALSE /\ rec'.published = NoId
        /\ rec'.source = [ino |-> "src", stamp |-> 0] /\ \A p \in Paths : rec'.owned[p] = NoId
    BY <1>3 DEF NewRecord, Records, Phases, Ids, NoId, Prepared, Paths, Inodes
  <2>3. rec' # None
    BY <2>2, HostFilesAssumption
  <2>4. Recorded(rec', job, at["destination"], stamp)
    BY <2>2, HostFilesAssumption DEF Recorded, NoId, Paths, TypeOK, Inodes
  <2>5. TypeOK'
    BY <1>1, <1>3, <2>1, <2>2, <2>3, <2>4 DEF TypeOK
  <2>6. Control'
    BY <1>1, <1>3, <2>1, <2>2, <2>3, <2>4
    DEF Control, Special, SpecialRun, FileRun, SpecialRecovery, FileRecovery, Restoring, Linked
  <2>7. Naming'
    BY <1>1, <1>3, <2>1, <2>2, <2>3, <2>4 DEF Naming, Special
  <2>8. Sound(rec)'
    BY <1>1, <1>3, <2>1, <2>2, <2>3, <2>4 DEF Sound
  <2>9. Sound(jrn)'
    BY <1>1, <1>3, <2>1, <2>2, <2>3, <2>4 DEF Sound
  <2>10. Renaming'
    BY <1>1, <1>3, <2>1, <2>2, <2>3, <2>4 DEF Renaming, Special, Completing, Linked, Forward
  <2>11. Evidence'
    BY <1>1, <1>3, <2>1, <2>2, <2>3, <2>4 DEF Evidence, Special, Before, Reserved, Unstaged, Unboxed
  <2>12. Journaled'
    BY <1>1, <1>3, <2>1, <2>2, <2>3, <2>4 DEF Journaled, Special, Reserved, Linked
  <2>13. Favorite'
    BY <1>1, <1>3, <2>1, <2>2, <2>3, <2>4
    DEF Favorite, TypeOK, Untold, Told, Completing, Special, Before, Reserved, Linked
  <2>14. Undoable'
    BY <1>1, <1>3, <2>1, <2>2, <2>3, <2>4 DEF Undoable, InPlace, Special, Reserved, Restoring
  <2>15. FailedClean'
    BY <1>1, <1>3, <2>1, <2>2, <2>3, <2>4 DEF FailedClean, InPlace, Control
  <2> QED  BY <2>5, <2>6, <2>7, <2>8, <2>9, <2>10, <2>11, <2>12, <2>13, <2>14, <2>15
<1> QED  BY <1>1, <1>2, <1>3 DEF Begin, GiveUp

LEMMA StreamIsLostStep == ASSUME FilesInv, StreamIsLost PROVE FilesInv'
<1>1. op.pc # "begin" /\ Throw
  BY DEF StreamIsLost
<1> QED  BY <1>1, RefusedStep DEF StreamIsLost

LEMMA StreamStep == ASSUME FilesInv, Stream PROVE FilesInv'
<1> USE DEF FilesInv, bounds
<1>1. /\ op.pc = "stream" /\ op.mode = "run" /\ ~ Special /\ jrn # None /\ at["stage"] = "new"
      /\ UNCHANGED <<job, at, jrn, fav, crashes, edits>>
      /\ rec' = Remembering(rec, {"stage"}) /\ Touch({"new"})
      /\ faults' \in 0 .. MaxFaults
  BY PlaceLemma, HostFilesAssumption DEF Stream, Journaled, Remember, TypeOK
<1>2. /\ at' \in [Paths -> Inodes \union {None}] /\ stamp' \in [Inodes -> Nat]
      /\ stamp'["new"] = stamp["new"] + 1 /\ stamp["new"] \in Nat
      /\ \A i \in Inodes : i # "new" => stamp'[i] = stamp[i]
  BY <1>1 DEF TypeOK, Touch, Inodes
<1>3. rec # None /\ rec \in Records /\ Recorded(rec, job, at["destination"], stamp)
  BY <1>1, RecLemma
<1>4. /\ rec' \in Records /\ rec'.phase = rec.phase /\ rec'.backup = rec.backup
      /\ rec'.published = rec.published /\ rec'.source = rec.source
      /\ rec'.owned["stage"] = [ino |-> "new", stamp |-> stamp'["new"]]
      /\ rec'.owned["box"] = rec.owned["box"] /\ rec'.owned["backup"] = rec.owned["backup"]
      /\ rec'.owned["destination"] = rec.owned["destination"]
  BY <1>1, <1>2, <1>3, RememberLemma, HostFilesAssumption DEF Paths, Id, Inodes
<1>5. rec' # None
  BY <1>4, HostFilesAssumption
<1>6. Recorded(rec, job, at["destination"], stamp')
      /\ (jrn # None => Recorded(jrn, job, at["destination"], stamp'))
  BY <1>2, <1>3, RecordKept DEF Inodes, TypeOK, Sound
<1>7. Recorded(rec', job, at["destination"], stamp')
  BY <1>2, <1>4, <1>6 DEF Recorded, Inodes
<1>8. CASE whole' = TRUE /\ Go("staged") /\ answer' = answer
  <2>1. op' \in [pc : Places, mode : Modes, ok : BOOLEAN]
        /\ op'.pc = "staged" /\ op'.mode = "run" /\ op'.ok = op.ok
    BY <1>1, <1>8 DEF TypeOK, Places, Phases, Go
  <2>2. TypeOK'
    BY <1>1, <1>2, <1>3, <1>4, <1>5, <1>6, <1>7, <1>8, <2>1 DEF TypeOK
  <2>3. Control'
    BY <1>1, <1>2, <1>3, <1>4, <1>5, <1>6, <1>7, <1>8, <2>1
    DEF Control, Special, SpecialRun, FileRun, SpecialRecovery, FileRecovery, Restoring, Linked
  <2>4. Naming'
    BY <1>1, <1>2, <1>3, <1>4, <1>5, <1>6, <1>7, <1>8, <2>1 DEF Naming, Special
  <2>5. Sound(rec)'
    BY <1>1, <1>2, <1>3, <1>4, <1>5, <1>6, <1>7, <1>8, <2>1 DEF Sound
  <2>6. Sound(jrn)'
    BY <1>1, <1>2, <1>3, <1>4, <1>5, <1>6, <1>7, <1>8, <2>1 DEF Sound
  <2>7. Renaming'
    BY <1>1, <1>2, <1>3, <1>4, <1>5, <1>6, <1>7, <1>8, <2>1
    DEF Renaming, Special, Completing, Linked, Forward
  <2>8. Evidence'
    BY <1>1, <1>2, <1>3, <1>4, <1>5, <1>6, <1>7, <1>8, <2>1
    DEF Evidence, Special, Before, Reserved, Unstaged, Unboxed
  <2>9. Journaled'
    BY <1>1, <1>2, <1>3, <1>4, <1>5, <1>6, <1>7, <1>8, <2>1 DEF Journaled, Special, Reserved, Linked
  <2>10. Favorite'
    BY <1>1, <1>2, <1>3, <1>4, <1>5, <1>6, <1>7, <1>8, <2>1
    DEF Favorite, TypeOK, Untold, Told, Completing, Special, Before, Reserved, Linked
  <2>11. Undoable'
    BY <1>1, <1>2, <1>3, <1>4, <1>5, <1>6, <1>7, <1>8, <2>1
    DEF Undoable, InPlace, Special, Reserved, Restoring
  <2>12. FailedClean'
    BY <1>1, <1>2, <1>3, <1>4, <1>5, <1>6, <1>7, <1>8, <2>1 DEF FailedClean, InPlace, Control
  <2> QED  BY <2>2, <2>3, <2>4, <2>5, <2>6, <2>7, <2>8, <2>9, <2>10, <2>11, <2>12
<1>9. CASE whole' = whole /\ Throw
  <2>1. op' = [pc |-> "undo-stage", mode |-> "undo", ok |-> TRUE] /\ answer' = answer
    BY <1>1, <1>9 DEF Throw, Late
  <2>2. op' \in [pc : Places, mode : Modes, ok : BOOLEAN]
        /\ op'.pc = "undo-stage" /\ op'.mode = "undo" /\ op'.ok = TRUE
    BY <2>1 DEF Places, Modes, Rollback
  <2>3. TypeOK'
    BY <1>1, <1>2, <1>3, <1>4, <1>5, <1>6, <1>7, <1>9, <2>1, <2>2 DEF TypeOK
  <2>4. Control'
    BY <1>1, <1>2, <1>3, <1>4, <1>5, <1>6, <1>7, <1>9, <2>1, <2>2
    DEF Control, Special, SpecialRun, FileRun, SpecialRecovery, FileRecovery, Restoring, Linked
  <2>5. Naming'
    BY <1>1, <1>2, <1>3, <1>4, <1>5, <1>6, <1>7, <1>9, <2>1, <2>2 DEF Naming, Special
  <2>6. Sound(rec)'
    BY <1>1, <1>2, <1>3, <1>4, <1>5, <1>6, <1>7, <1>9, <2>1, <2>2 DEF Sound
  <2>7. Sound(jrn)'
    BY <1>1, <1>2, <1>3, <1>4, <1>5, <1>6, <1>7, <1>9, <2>1, <2>2 DEF Sound
  <2>8. Renaming'
    BY <1>1, <1>2, <1>3, <1>4, <1>5, <1>6, <1>7, <1>9, <2>1, <2>2
    DEF Renaming, Special, Completing, Linked, Forward
  <2>9. Evidence'
    BY <1>1, <1>2, <1>3, <1>4, <1>5, <1>6, <1>7, <1>9, <2>1, <2>2
    DEF Evidence, Special, Before, Reserved, Unstaged, Unboxed
  <2>10. Journaled'
    BY <1>1, <1>2, <1>3, <1>4, <1>5, <1>6, <1>7, <1>9, <2>1, <2>2
    DEF Journaled, Special, Reserved, Linked
  <2>11. Favorite'
    BY <1>1, <1>2, <1>3, <1>4, <1>5, <1>6, <1>7, <1>9, <2>1, <2>2
    DEF Favorite, TypeOK, Untold, Told, Completing, Special, Before, Reserved, Linked
  <2>12. Undoable'
    BY <1>1, <1>2, <1>3, <1>4, <1>5, <1>6, <1>7, <1>9, <2>1, <2>2
    DEF Undoable, InPlace, Special, Reserved, Restoring
  <2>13. FailedClean'
    BY <1>1, <1>2, <1>3, <1>4, <1>5, <1>6, <1>7, <1>9, <2>1, <2>2 DEF FailedClean, InPlace, Control
  <2> QED  BY <2>3, <2>4, <2>5, <2>6, <2>7, <2>8, <2>9, <2>10, <2>11, <2>12, <2>13
<1> QED  BY <1>8, <1>9 DEF Stream

LEMMA QuarantineStep ==
  ASSUME FilesInv, Quarantine, UNCHANGED <<job, whole, jrn, fav, bounds>> PROVE FilesInv'
<1> USE DEF FilesInv, bounds
<1>1. op.pc = "quarantine" /\ op.mode = "run" /\ jrn # None
  BY PlaceLemma DEF Quarantine, Journaled
<1>2. CASE ~ Is("destination", Prepared("destination"))
  BY <1>1, <1>2, RefusedStep DEF Quarantine, Steps, disk
<1>3. CASE Is("destination", Prepared("destination"))
  <2>1. /\ op' = [op EXCEPT !.pc = "backup-planned"] /\ answer' = answer
        /\ rec' = [rec EXCEPT !.backup = TRUE] /\ UNCHANGED <<at, stamp>>
    BY <1>1, <1>3 DEF Quarantine, Steps, Go
  <2>2. op' \in [pc : Places, mode : Modes, ok : BOOLEAN]
        /\ op'.pc = "backup-planned" /\ op'.mode = "run" /\ op'.ok = op.ok
    BY <1>1, <2>1 DEF TypeOK, Places, Phases
  <2>3. rec # None /\ rec \in Records /\ Recorded(rec, job, at["destination"], stamp)
    BY <1>1, RecLemma
  <2>4. /\ rec' \in Records /\ rec'.phase = rec.phase /\ rec'.backup = TRUE
        /\ rec'.published = rec.published /\ rec'.source = rec.source /\ rec'.owned = rec.owned
    BY <2>1, <2>3 DEF Records
  <2>5. rec' # None
    BY <2>4, HostFilesAssumption
  <2>6. job.replace
    BY <1>3 DEF Is, Id, Prepared
  <2>7. Recorded(rec', job, at["destination"], stamp)
    BY <2>3, <2>4, <2>6 DEF Recorded
  <2>8. TypeOK'
    BY <1>1, <1>3, <2>1, <2>2, <2>3, <2>4, <2>5, <2>6, <2>7 DEF TypeOK
  <2>9. Control'
    BY <1>1, <1>3, <2>1, <2>2, <2>3, <2>4, <2>5, <2>6, <2>7
    DEF Control, Special, SpecialRun, FileRun, SpecialRecovery, FileRecovery, Restoring, Linked
  <2>10. Naming'
    BY <1>1, <1>3, <2>1, <2>2, <2>3, <2>4, <2>5, <2>6, <2>7 DEF Naming, Special
  <2>11. Sound(rec)'
    BY <1>1, <1>3, <2>1, <2>2, <2>3, <2>4, <2>5, <2>6, <2>7 DEF Sound
  <2>12. Sound(jrn)'
    BY <1>1, <1>3, <2>1, <2>2, <2>3, <2>4, <2>5, <2>6, <2>7 DEF Sound
  <2>13. Renaming'
    BY <1>1, <1>3, <2>1, <2>2, <2>3, <2>4, <2>5, <2>6, <2>7
    DEF Renaming, Special, Completing, Linked, Forward
  <2>14. Evidence'
    BY <1>1, <1>3, <2>1, <2>2, <2>3, <2>4, <2>5, <2>6, <2>7
    DEF Evidence, Special, Before, Reserved, Unstaged, Unboxed
  <2>15. Journaled'
    BY <1>1, <1>3, <2>1, <2>2, <2>3, <2>4, <2>5, <2>6, <2>7 DEF Journaled, Special, Reserved, Linked
  <2>16. Favorite'
    BY <1>1, <1>3, <2>1, <2>2, <2>3, <2>4, <2>5, <2>6, <2>7
    DEF Favorite, TypeOK, Untold, Told, Completing, Special, Before, Reserved, Linked
  <2>17. Undoable'
    BY <1>1, <1>3, <2>1, <2>2, <2>3, <2>4, <2>5, <2>6, <2>7
    DEF Undoable, InPlace, Special, Reserved, Restoring
  <2>18. FailedClean'
    BY <1>1, <1>3, <2>1, <2>2, <2>3, <2>4, <2>5, <2>6, <2>7 DEF FailedClean, InPlace, Control
  <2> QED  BY <2>8, <2>9, <2>10, <2>11, <2>12, <2>13, <2>14, <2>15, <2>16, <2>17, <2>18
<1> QED  BY <1>2, <1>3

LEMMA MakeContainerStep ==
  ASSUME FilesInv, MakeContainer, UNCHANGED <<job, whole, jrn, fav, answer, bounds>> PROVE FilesInv'
<1> USE DEF FilesInv, bounds
<1>1. op.pc = "mkdir" /\ op.mode = "run" /\ jrn # None /\ jrn.backup
  BY PlaceLemma DEF MakeContainer, Journaled
<1>2. /\ op' = [op EXCEPT !.pc = "backup-reserved"]
      /\ Bind("box", "dir") /\ rec' = Remembering(rec, {"box"})
  BY <1>1 DEF MakeContainer, Go, Remember
<1>3. op' \in [pc : Places, mode : Modes, ok : BOOLEAN]
      /\ op'.pc = "backup-reserved" /\ op'.mode = "run" /\ op'.ok = op.ok
  BY <1>1, <1>2 DEF TypeOK, Places, Phases
<1>4. /\ at' \in [Paths -> Inodes \union {None}] /\ stamp' \in [Inodes -> Nat]
      /\ at'["box"] = "dir" /\ at'["source"] = at["source"] /\ at'["stage"] = at["stage"]
      /\ at'["destination"] = at["destination"] /\ at'["backup"] = at["backup"]
      /\ stamp'["dir"] = stamp["dir"] + 1 /\ stamp["dir"] \in Nat
      /\ \A i \in Inodes : i # "dir" => stamp'[i] = stamp[i]
  BY <1>2, BindLemma DEF Paths, Inodes, TypeOK
<1>5. rec # None /\ rec \in Records /\ Recorded(rec, job, at["destination"], stamp)
  BY <1>1, RecLemma
<1>6. /\ rec' \in Records /\ rec'.phase = rec.phase /\ rec'.backup = rec.backup
      /\ rec'.published = rec.published /\ rec'.source = rec.source
      /\ rec'.owned["box"] = [ino |-> "dir", stamp |-> stamp'["dir"]]
      /\ rec'.owned["stage"] = rec.owned["stage"] /\ rec'.owned["backup"] = rec.owned["backup"]
      /\ rec'.owned["destination"] = rec.owned["destination"]
  BY <1>2, <1>4, <1>5, RememberLemma, HostFilesAssumption DEF Paths, Id, Inodes
<1>7. rec' # None
  BY <1>6, HostFilesAssumption
<1>8. Recorded(rec, job, at'["destination"], stamp')
      /\ (jrn # None => Recorded(jrn, job, at'["destination"], stamp'))
  BY <1>4, <1>5, RecordKept DEF Inodes, TypeOK, Sound
<1>9. Recorded(rec', job, at'["destination"], stamp')
  BY <1>4, <1>6, <1>8 DEF Recorded, Inodes
<1>10. TypeOK'
  BY <1>1, <1>2, <1>3, <1>4, <1>5, <1>6, <1>7, <1>8, <1>9 DEF TypeOK
<1>11. Control'
  BY <1>1, <1>2, <1>3, <1>4, <1>5, <1>6, <1>7, <1>8, <1>9
  DEF Control, Special, SpecialRun, FileRun, SpecialRecovery, FileRecovery, Restoring, Linked
<1>12. Naming'
  BY <1>1, <1>2, <1>3, <1>4, <1>5, <1>6, <1>7, <1>8, <1>9 DEF Naming, Special
<1>13. Sound(rec)'
  BY <1>1, <1>2, <1>3, <1>4, <1>5, <1>6, <1>7, <1>8, <1>9 DEF Sound
<1>14. Sound(jrn)'
  BY <1>1, <1>2, <1>3, <1>4, <1>5, <1>6, <1>7, <1>8, <1>9 DEF Sound
<1>15. Renaming'
  BY <1>1, <1>2, <1>3, <1>4, <1>5, <1>6, <1>7, <1>8, <1>9
  DEF Renaming, Special, Completing, Linked, Forward
<1>16. Evidence'
  BY <1>1, <1>2, <1>3, <1>4, <1>5, <1>6, <1>7, <1>8, <1>9
  DEF Evidence, Special, Before, Reserved, Unstaged, Unboxed
<1>17. Journaled'
  BY <1>1, <1>2, <1>3, <1>4, <1>5, <1>6, <1>7, <1>8, <1>9 DEF Journaled, Special, Reserved, Linked
<1>18. Favorite'
  BY <1>1, <1>2, <1>3, <1>4, <1>5, <1>6, <1>7, <1>8, <1>9
  DEF Favorite, TypeOK, Untold, Told, Completing, Special, Before, Reserved, Linked
<1>19. Undoable'
  BY <1>1, <1>2, <1>3, <1>4, <1>5, <1>6, <1>7, <1>8, <1>9
  DEF Undoable, InPlace, Special, Reserved, Restoring
<1>20. FailedClean'
  BY <1>1, <1>2, <1>3, <1>4, <1>5, <1>6, <1>7, <1>8, <1>9 DEF FailedClean, InPlace, Control
<1> QED  BY <1>10, <1>11, <1>12, <1>13, <1>14, <1>15, <1>16, <1>17, <1>18, <1>19, <1>20

(* rename: an inode goes from one name to another                           *)
LEMMA RenameLemma ==
  ASSUME TypeOK, NEW p \in Paths, NEW q \in Paths, p # q, Rename(p, q)
  PROVE  /\ at' \in [Paths -> Inodes \union {None}] /\ stamp' \in [Inodes -> Nat]
         /\ \A r \in Paths : at'[r] = IF r = q THEN at[p] ELSE IF r = p THEN None ELSE at[r]
         /\ \A j \in Inodes :
              stamp'[j] = IF j = at[p] \/ ("backup" \in {p, q} /\ j = "dir") THEN stamp[j] + 1 ELSE stamp[j]
<1>1. /\ at' \in [Paths -> Inodes \union {None}]
      /\ \A r \in Paths : at'[r] = IF r = q THEN at[p] ELSE IF r = p THEN None ELSE at[r]
  BY DEF TypeOK, Rename
<1>2. stamp' = [j \in Inodes |-> IF j \in {at[p]} \union Inside(p) \union Inside(q)
                                 THEN stamp[j] + 1 ELSE stamp[j]]
  BY DEF Rename, Touch
<1> QED  BY <1>1, <1>2 DEF TypeOK, Inside

LEMMA RenameBackupStep ==
  ASSUME FilesInv, RenameBackup, UNCHANGED <<job, whole, jrn, fav, bounds>> PROVE FilesInv'
<1> USE DEF FilesInv, bounds
<1>1. op.pc = "rename" /\ op.mode = "run" /\ ~ Special /\ jrn # None /\ jrn.backup /\ rec.backup
  BY PlaceLemma DEF RenameBackup, Journaled, Undoable, Reserved
<1>2. CASE ~ Is("destination", Prepared("destination"))
  BY <1>1, <1>2, RefusedStep DEF RenameBackup, Steps, disk
<1>3. CASE Is("destination", Prepared("destination"))
  <2>1. /\ op' = [op EXCEPT !.pc = "quarantined"] /\ answer' = answer
        /\ Rename("destination", "backup") /\ rec' = Remembering(rec, {"backup", "box"})
    BY <1>1, <1>3 DEF RenameBackup, Steps, Go, Remember
  <2>2. op' \in [pc : Places, mode : Modes, ok : BOOLEAN]
        /\ op'.pc = "quarantined" /\ op'.mode = "run" /\ op'.ok = op.ok
    BY <1>1, <2>1 DEF TypeOK, Places, Phases
  <2>3. at["destination"] = "old"
    BY <1>3 DEF Is, Id, Prepared
  <2>4. /\ at' \in [Paths -> Inodes \union {None}] /\ stamp' \in [Inodes -> Nat]
        /\ at'["destination"] = None /\ at'["source"] = at["source"] /\ at'["box"] = at["box"]
        /\ at'["stage"] = at["stage"] /\ at'["backup"] = "old"
        /\ stamp'["old"] = stamp["old"] + 1 /\ stamp["old"] \in Nat
        /\ \A i \in Inodes : stamp[i] \in Nat /\ stamp[i] <= stamp'[i]
    BY <2>1, <2>3, RenameLemma DEF Paths, Inodes, TypeOK
  <2>5. rec # None /\ rec \in Records /\ Recorded(rec, job, at["destination"], stamp)
    BY <1>1, RecLemma
  <2>6. /\ rec' \in Records /\ rec'.phase = rec.phase /\ rec'.backup = rec.backup
        /\ rec'.published = rec.published /\ rec'.source = rec.source
        /\ rec'.owned["stage"] = rec.owned["stage"]
        /\ rec'.owned["box"].ino = at["box"]
        /\ rec'.owned["backup"] = [ino |-> "old", stamp |-> stamp'["old"]]
        /\ rec'.owned["destination"] = rec.owned["destination"]
    <3>1. /\ rec' \in Records /\ rec'.phase = rec.phase /\ rec'.backup = rec.backup
          /\ rec'.published = rec.published /\ rec'.source = rec.source
          /\ \A p \in Paths \ {"backup", "box"} : rec'.owned[p] = rec.owned[p]
          /\ \A p \in Paths \intersect {"backup", "box"} : rec'.owned[p] = Id(p)'
      BY <2>1, <2>4, <2>5, RememberLemma
    <3>2. Id("box")'.ino = at["box"] /\ Id("backup")' = [ino |-> "old", stamp |-> stamp'["old"]]
      BY <2>4, HostFilesAssumption DEF Id, Inodes
    <3> QED  BY <3>1, <3>2 DEF Paths
  <2>7. rec' # None
    BY <2>6, HostFilesAssumption
  <2>8. \A i \in {"old", "src"} :
          at["destination"] = i => at'["destination"] = i \/ stamp[i] < stamp'[i]
    BY <2>3, <2>4
  <2>9. Recorded(rec, job, at'["destination"], stamp')
        /\ (jrn # None => Recorded(jrn, job, at'["destination"], stamp'))
    BY <2>4, <2>5, <2>8, RecordKept DEF TypeOK, Sound
  <2>10. Recorded(rec', job, at'["destination"], stamp')
    BY <2>4, <2>6, <2>9 DEF Recorded, Inodes, Naming
  <2>11. TypeOK'
    BY <1>1, <1>3, <2>1, <2>2, <2>3, <2>4, <2>5, <2>6, <2>7, <2>9, <2>10 DEF TypeOK
  <2>12. Control'
    BY <1>1, <1>3, <2>1, <2>2, <2>3, <2>4, <2>5, <2>6, <2>7, <2>9, <2>10
    DEF Control, Special, SpecialRun, FileRun, SpecialRecovery, FileRecovery, Restoring, Linked
  <2>13. Naming'
    BY <1>1, <1>3, <2>1, <2>2, <2>3, <2>4, <2>5, <2>6, <2>7, <2>9, <2>10, HostFilesAssumption
    DEF Naming, Special, Inodes
  <2>14. Sound(rec)'
    BY <1>1, <1>3, <2>1, <2>2, <2>3, <2>4, <2>5, <2>6, <2>7, <2>9, <2>10 DEF Sound
  <2>15. Sound(jrn)'
    BY <1>1, <1>3, <2>1, <2>2, <2>3, <2>4, <2>5, <2>6, <2>7, <2>9, <2>10 DEF Sound
  <2>16. Renaming'
    BY <1>1, <1>3, <2>1, <2>2, <2>3, <2>4, <2>5, <2>6, <2>7, <2>9, <2>10
    DEF Renaming, Special, Completing, Linked, Forward
  <2>17. Evidence'
    BY <1>1, <1>3, <2>1, <2>2, <2>3, <2>4, <2>5, <2>6, <2>7, <2>9, <2>10
    DEF Evidence, Special, Before, Reserved, Unstaged, Unboxed
  <2>18. Journaled'
    BY <1>1, <1>3, <2>1, <2>2, <2>3, <2>4, <2>5, <2>6, <2>7, <2>9, <2>10
    DEF Journaled, Special, Reserved, Linked
  <2>19. Favorite'
    BY <1>1, <1>3, <2>1, <2>2, <2>3, <2>4, <2>5, <2>6, <2>7, <2>9, <2>10
    DEF Favorite, TypeOK, Untold, Told, Completing, Special, Before, Reserved, Linked
  <2>20. Undoable'
    BY <1>1, <1>3, <2>1, <2>2, <2>3, <2>4, <2>5, <2>6, <2>7, <2>9, <2>10, HostFilesAssumption
    DEF Undoable, InPlace, Special, Reserved, Restoring, Inodes
  <2>21. FailedClean'
    BY <1>1, <1>3, <2>1, <2>2, <2>3, <2>4, <2>5, <2>6, <2>7, <2>9, <2>10
    DEF FailedClean, InPlace, Control
  <2> QED  BY <2>11, <2>12, <2>13, <2>14, <2>15, <2>16, <2>17, <2>18, <2>19, <2>20, <2>21
<1> QED  BY <1>2, <1>3

LEMMA PublishStep ==
  ASSUME FilesInv, Publish, UNCHANGED <<job, whole, jrn, fav, bounds>> PROVE FilesInv'
<1> USE DEF FilesInv, bounds
<1>1. op.pc = "publish" /\ op.mode = "run" /\ ~ Special /\ jrn # None /\ (rec.backup <=> job.replace)
  BY PlaceLemma DEF Publish, Journaled, Undoable
<1>2. CASE ~ (Is("stage", rec.owned["stage"]) /\ at["destination"] = None)
  BY <1>1, <1>2, RefusedStep DEF Publish, Steps, disk
<1>3. CASE Is("stage", rec.owned["stage"]) /\ at["destination"] = None
  <2>1. /\ op' = [op EXCEPT !.pc = "publishing"] /\ answer' = answer
        /\ Bind("destination", at["stage"]) /\ rec' = Remembering(rec, {"stage", "destination"})
    BY <1>1, <1>3 DEF Publish, Steps, Go, Remember
  <2>2. op' \in [pc : Places, mode : Modes, ok : BOOLEAN]
        /\ op'.pc = "publishing" /\ op'.mode = "run" /\ op'.ok = op.ok
    BY <1>1, <2>1 DEF TypeOK, Places, Phases
  <2>3. rec # None /\ rec \in Records /\ Recorded(rec, job, at["destination"], stamp)
    BY <1>1, RecLemma
  <2>4. at["stage"] = "new"
    BY <1>3, <2>3 DEF Is, Id, Recorded
  <2>5. /\ at' \in [Paths -> Inodes \union {None}] /\ stamp' \in [Inodes -> Nat]
        /\ at'["destination"] = "new" /\ at'["source"] = at["source"] /\ at'["box"] = at["box"]
        /\ at'["stage"] = "new" /\ at'["backup"] = at["backup"]
        /\ stamp'["new"] = stamp["new"] + 1 /\ stamp["new"] \in Nat
        /\ \A i \in Inodes : i # "new" => stamp'[i] = stamp[i] /\ stamp[i] \in Nat
    BY <2>1, <2>4, BindLemma DEF Paths, Inodes, TypeOK
  <2>6. /\ rec' \in Records /\ rec'.phase = rec.phase /\ rec'.backup = rec.backup
        /\ rec'.published = rec.published /\ rec'.source = rec.source
        /\ rec'.owned["stage"] = [ino |-> "new", stamp |-> stamp'["new"]]
        /\ rec'.owned["box"] = rec.owned["box"] /\ rec'.owned["backup"] = rec.owned["backup"]
        /\ rec'.owned["destination"] = [ino |-> "new", stamp |-> stamp'["new"]]
    BY <2>1, <2>3, <2>5, RememberLemma, HostFilesAssumption DEF Paths, Id, Inodes
  <2>7. rec' # None /\ rec'.owned["destination"] # NoId
    BY <2>6, HostFilesAssumption DEF NoId, Inodes
  <2>8. \A i \in {"old", "src"} : at["destination"] # i
    BY <1>3, HostFilesAssumption DEF Inodes
  <2>9. \A i \in Inodes : stamp[i] <= stamp'[i]
    BY <2>5
  <2>10. Recorded(rec, job, at'["destination"], stamp')
         /\ (jrn # None => Recorded(jrn, job, at'["destination"], stamp'))
    BY <2>3, <2>5, <2>8, <2>9, RecordKept DEF TypeOK, Sound
  <2>11. Recorded(rec', job, at'["destination"], stamp')
    BY <2>5, <2>6, <2>10 DEF Recorded, Inodes
  <2>12. TypeOK'
    BY <1>1, <1>3, <2>1, <2>2, <2>3, <2>4, <2>5, <2>6, <2>7, <2>10, <2>11 DEF TypeOK
  <2>13. Control'
    BY <1>1, <1>3, <2>1, <2>2, <2>3, <2>4, <2>5, <2>6, <2>7, <2>10, <2>11
    DEF Control, Special, SpecialRun, FileRun, SpecialRecovery, FileRecovery, Restoring, Linked
  <2>14. Naming'
    BY <1>1, <1>3, <2>1, <2>2, <2>3, <2>4, <2>5, <2>6, <2>7, <2>10, <2>11 DEF Naming, Special
  <2>15. Sound(rec)'
    BY <1>1, <1>3, <2>1, <2>2, <2>3, <2>4, <2>5, <2>6, <2>7, <2>10, <2>11 DEF Sound
  <2>16. Sound(jrn)'
    BY <1>1, <1>3, <2>1, <2>2, <2>3, <2>4, <2>5, <2>6, <2>7, <2>10, <2>11 DEF Sound
  <2>17. Renaming'
    BY <1>1, <1>3, <2>1, <2>2, <2>3, <2>4, <2>5, <2>6, <2>7, <2>10, <2>11
    DEF Renaming, Special, Completing, Linked, Forward
  <2>18. Evidence'
    BY <1>1, <1>3, <2>1, <2>2, <2>3, <2>4, <2>5, <2>6, <2>7, <2>10, <2>11
    DEF Evidence, Special, Before, Reserved, Unstaged, Unboxed
  <2>19. Journaled'
    BY <1>1, <1>3, <2>1, <2>2, <2>3, <2>4, <2>5, <2>6, <2>7, <2>10, <2>11
    DEF Journaled, Special, Reserved, Linked
  <2>20. Favorite'
    BY <1>1, <1>3, <2>1, <2>2, <2>3, <2>4, <2>5, <2>6, <2>7, <2>10, <2>11
    DEF Favorite, TypeOK, Untold, Told, Completing, Special, Before, Reserved, Linked
  <2>21. Undoable'
    BY <1>1, <1>3, <2>1, <2>2, <2>3, <2>4, <2>5, <2>6, <2>7, <2>10, <2>11
    DEF Undoable, InPlace, Special, Reserved, Restoring
  <2>22. FailedClean'
    BY <1>1, <1>3, <2>1, <2>2, <2>3, <2>4, <2>5, <2>6, <2>7, <2>10, <2>11
    DEF FailedClean, InPlace, Control
  <2> QED  BY <2>12, <2>13, <2>14, <2>15, <2>16, <2>17, <2>18, <2>19, <2>20, <2>21, <2>22
<1> QED  BY <1>2, <1>3

LEMMA UnlinkStageStep ==
  ASSUME FilesInv, UnlinkStage, UNCHANGED <<job, whole, jrn, fav, bounds>> PROVE FilesInv'
<1> USE DEF FilesInv, bounds
<1>1. op.pc = "unlink-stage" /\ op.mode = "run" /\ ~ Special /\ jrn # None
  BY PlaceLemma DEF UnlinkStage, Journaled
<1>2. CASE ~ (Is("stage", rec.owned["stage"]) /\ at["destination"] # None)
  BY <1>1, <1>2, RefusedStep DEF UnlinkStage, Steps, disk
<1>3. CASE Is("stage", rec.owned["stage"]) /\ at["destination"] # None
  <2>1. /\ op' = [op EXCEPT !.pc = "unstaged"] /\ answer' = answer
        /\ Unlink("stage")
        /\ rec' = [Remembering(rec, {"destination"}) EXCEPT !.owned["stage"] = NoId]
    BY <1>1, <1>3 DEF UnlinkStage, Steps, Go
  <2>2. op' \in [pc : Places, mode : Modes, ok : BOOLEAN]
        /\ op'.pc = "unstaged" /\ op'.mode = "run" /\ op'.ok = op.ok
    BY <1>1, <2>1 DEF TypeOK, Places, Phases
  <2>3. rec # None /\ rec \in Records /\ Recorded(rec, job, at["destination"], stamp)
    BY <1>1, RecLemma
  <2>4. at["stage"] = "new" /\ rec.owned["stage"] = [ino |-> "new", stamp |-> stamp["new"]]
    BY <1>3, <2>3, HostFilesAssumption DEF Is, Id, Recorded, Inodes
  <2>5. at["destination"] = "new"
    BY <1>1, <2>4 DEF Journaled
  <2>6. /\ at' \in [Paths -> Inodes \union {None}] /\ stamp' \in [Inodes -> Nat]
        /\ at'["destination"] = "new" /\ at'["source"] = at["source"] /\ at'["box"] = at["box"]
        /\ at'["stage"] = None /\ at'["backup"] = at["backup"]
        /\ stamp'["new"] = stamp["new"] + 1 /\ stamp["new"] \in Nat
        /\ \A i \in Inodes : i # "new" => stamp'[i] = stamp[i] /\ stamp[i] \in Nat
    BY <2>1, <2>4, <2>5, UnlinkLemma DEF Paths, Inodes, TypeOK
  <2>7. /\ rec' \in Records /\ rec'.phase = rec.phase /\ rec'.backup = rec.backup
        /\ rec'.published = rec.published /\ rec'.source = rec.source
        /\ rec'.owned["stage"] = NoId
        /\ rec'.owned["box"] = rec.owned["box"] /\ rec'.owned["backup"] = rec.owned["backup"]
        /\ rec'.owned["destination"] = [ino |-> "new", stamp |-> stamp'["new"]]
    <3> DEFINE m == Remembering(rec, {"destination"})
    <3>1. /\ m \in Records /\ m.phase = rec.phase /\ m.backup = rec.backup
          /\ m.published = rec.published /\ m.source = rec.source
          /\ m.owned["box"] = rec.owned["box"] /\ m.owned["backup"] = rec.owned["backup"]
          /\ m.owned["destination"] = [ino |-> "new", stamp |-> stamp'["new"]]
      BY <2>3, <2>6, RememberLemma, HostFilesAssumption DEF Paths, Id, Inodes
    <3>2. rec' = [m EXCEPT !.owned = [m.owned EXCEPT !["stage"] = NoId]] /\ NoId \in Ids
      BY <2>1 DEF NoId, Ids
    <3> HIDE DEF m
    <3> QED  BY <3>1, <3>2 DEF Records, Paths
  <2>8. rec' # None /\ rec'.owned["destination"] # NoId
    BY <2>7, HostFilesAssumption DEF NoId, Inodes
  <2>9. \A i \in Inodes : stamp[i] <= stamp'[i]
    BY <2>6
  <2>10. Recorded(rec, job, at'["destination"], stamp')
         /\ (jrn # None => Recorded(jrn, job, at'["destination"], stamp'))
    BY <2>3, <2>5, <2>6, <2>9, RecordKept DEF TypeOK, Sound
  <2>11. Recorded(rec', job, at'["destination"], stamp')
    BY <2>6, <2>7, <2>10 DEF Recorded, Inodes, NoId
  <2>12. TypeOK'
    BY <1>1, <1>3, <2>1, <2>2, <2>3, <2>4, <2>5, <2>6, <2>7, <2>8, <2>10, <2>11 DEF TypeOK
  <2>13. Control'
    BY <1>1, <1>3, <2>1, <2>2, <2>3, <2>4, <2>5, <2>6, <2>7, <2>8, <2>10, <2>11
    DEF Control, Special, SpecialRun, FileRun, SpecialRecovery, FileRecovery, Restoring, Linked
  <2>14. Naming'
    BY <1>1, <1>3, <2>1, <2>2, <2>3, <2>4, <2>5, <2>6, <2>7, <2>8, <2>10, <2>11 DEF Naming, Special
  <2>15. Sound(rec)'
    BY <1>1, <1>3, <2>1, <2>2, <2>3, <2>4, <2>5, <2>6, <2>7, <2>8, <2>10, <2>11 DEF Sound
  <2>16. Sound(jrn)'
    BY <1>1, <1>3, <2>1, <2>2, <2>3, <2>4, <2>5, <2>6, <2>7, <2>8, <2>10, <2>11 DEF Sound
  <2>17. Renaming'
    BY <1>1, <1>3, <2>1, <2>2, <2>3, <2>4, <2>5, <2>6, <2>7, <2>8, <2>10, <2>11
    DEF Renaming, Special, Completing, Linked, Forward
  <2>18. Evidence'
    BY <1>1, <1>3, <2>1, <2>2, <2>3, <2>4, <2>5, <2>6, <2>7, <2>8, <2>10, <2>11
    DEF Evidence, Special, Before, Reserved, Unstaged, Unboxed
  <2>19. Journaled'
    BY <1>1, <1>3, <2>1, <2>2, <2>3, <2>4, <2>5, <2>6, <2>7, <2>8, <2>10, <2>11
    DEF Journaled, Special, Reserved, Linked
  <2>20. Favorite'
    BY <1>1, <1>3, <2>1, <2>2, <2>3, <2>4, <2>5, <2>6, <2>7, <2>8, <2>10, <2>11
    DEF Favorite, TypeOK, Untold, Told, Completing, Special, Before, Reserved, Linked
  <2>21. Undoable'
    BY <1>1, <1>3, <2>1, <2>2, <2>3, <2>4, <2>5, <2>6, <2>7, <2>8, <2>10, <2>11
    DEF Undoable, InPlace, Special, Reserved, Restoring
  <2>22. FailedClean'
    BY <1>1, <1>3, <2>1, <2>2, <2>3, <2>4, <2>5, <2>6, <2>7, <2>8, <2>10, <2>11
    DEF FailedClean, InPlace, Control
  <2> QED  BY <2>12, <2>13, <2>14, <2>15, <2>16, <2>17, <2>18, <2>19, <2>20, <2>21, <2>22
<1> QED  BY <1>2, <1>3

LEMMA RecordPublicationStep ==
  ASSUME FilesInv, RecordPublication, UNCHANGED <<job, whole, jrn, fav, bounds>> PROVE FilesInv'
<1> USE DEF FilesInv, bounds
<1>1. op.pc = "record" /\ op.mode = "run" /\ ~ Special /\ jrn # None
  BY PlaceLemma DEF RecordPublication, Journaled
<1>2. CASE at["destination"] = None
  BY <1>1, <1>2, RefusedStep DEF RecordPublication, Steps, disk
<1>3. CASE at["destination"] # None
  <2>1. /\ op' = [op EXCEPT !.pc = "published"] /\ answer' = answer /\ UNCHANGED <<at, stamp>>
        /\ rec' = [rec EXCEPT !.published = Id("destination")]
    BY <1>1, <1>3 DEF RecordPublication, Steps, Go
  <2>2. op' \in [pc : Places, mode : Modes, ok : BOOLEAN]
        /\ op'.pc = "published" /\ op'.mode = "run" /\ op'.ok = op.ok
    BY <1>1, <2>1 DEF TypeOK, Places, Phases
  <2>3. rec # None /\ rec \in Records /\ Recorded(rec, job, at["destination"], stamp)
    BY <1>1, RecLemma
  <2>4. /\ Id("destination") \in Ids /\ Id("destination").ino = at["destination"]
        /\ Id("destination").stamp = stamp[at["destination"]] /\ Id("destination") # NoId
        /\ stamp[at["destination"]] \in Nat
    BY <1>3, IdLemma DEF Paths
  <2>5. /\ rec' \in Records /\ rec'.phase = rec.phase /\ rec'.backup = rec.backup
        /\ rec'.published = Id("destination") /\ rec'.source = rec.source /\ rec'.owned = rec.owned
    BY <2>1, <2>3, <2>4 DEF Records
  <2>6. rec' # None
    BY <2>5, HostFilesAssumption
  <2>7. Recorded(rec', job, at["destination"], stamp)
    BY <1>1, <2>3, <2>4, <2>5 DEF Recorded, Special
  <2>8. TypeOK'
    BY <1>1, <1>3, <2>1, <2>2, <2>3, <2>4, <2>5, <2>6, <2>7 DEF TypeOK
  <2>9. Control'
    BY <1>1, <1>3, <2>1, <2>2, <2>3, <2>4, <2>5, <2>6, <2>7
    DEF Control, Special, SpecialRun, FileRun, SpecialRecovery, FileRecovery, Restoring, Linked
  <2>10. Naming'
    BY <1>1, <1>3, <2>1, <2>2, <2>3, <2>4, <2>5, <2>6, <2>7 DEF Naming, Special
  <2>11. Sound(rec)'
    BY <1>1, <1>3, <2>1, <2>2, <2>3, <2>4, <2>5, <2>6, <2>7 DEF Sound
  <2>12. Sound(jrn)'
    BY <1>1, <1>3, <2>1, <2>2, <2>3, <2>4, <2>5, <2>6, <2>7 DEF Sound
  <2>13. Renaming'
    BY <1>1, <1>3, <2>1, <2>2, <2>3, <2>4, <2>5, <2>6, <2>7
    DEF Renaming, Special, Completing, Linked, Forward
  <2>14. Evidence'
    BY <1>1, <1>3, <2>1, <2>2, <2>3, <2>4, <2>5, <2>6, <2>7
    DEF Evidence, Special, Before, Reserved, Unstaged, Unboxed
  <2>15. Journaled'
    BY <1>1, <1>3, <2>1, <2>2, <2>3, <2>4, <2>5, <2>6, <2>7 DEF Journaled, Special, Reserved, Linked
  <2>16. Favorite'
    BY <1>1, <1>3, <2>1, <2>2, <2>3, <2>4, <2>5, <2>6, <2>7
    DEF Favorite, TypeOK, Untold, Told, Completing, Special, Before, Reserved, Linked
  <2>17. Undoable'
    BY <1>1, <1>3, <2>1, <2>2, <2>3, <2>4, <2>5, <2>6, <2>7
    DEF Undoable, InPlace, Special, Reserved, Restoring, Evidence, Unstaged
  <2>18. FailedClean'
    BY <1>1, <1>3, <2>1, <2>2, <2>3, <2>4, <2>5, <2>6, <2>7 DEF FailedClean, InPlace, Control
  <2> QED  BY <2>8, <2>9, <2>10, <2>11, <2>12, <2>13, <2>14, <2>15, <2>16, <2>17, <2>18
<1> QED  BY <1>2, <1>3

LEMMA FinishStep == ASSUME FilesInv, Finish PROVE FilesInv'
<1> USE DEF FilesInv, disk, bounds
<1>1. /\ op.pc = "finish" /\ op.mode \in {"run", "recover"} /\ jrn' = None
      /\ UNCHANGED <<job, at, stamp, whole, rec, fav, crashes, faults, edits>>
      /\ (op.mode = "recover" => Special)
  BY PlaceLemma DEF Finish
<1>2. jrn # None /\ at["stage"] = None /\ at["box"] = None /\ at["backup"] = None /\ ~ fav.pending
  BY <1>1 DEF Journaled, Evidence, Unstaged, Unboxed, Favorite
<1>3. CASE job.kind = "move" /\ op.mode = "run" /\ Go("move-favorites") /\ answer' = answer
  <2>1. op' \in [pc : Places, mode : Modes, ok : BOOLEAN] /\ op'.pc = "move-favorites"
        /\ op'.mode = "run" /\ op'.ok = op.ok
    BY <1>3 DEF TypeOK, Places, Go
  <2>2. ~ Special /\ whole
    BY <1>1, <1>3 DEF Special, Journaled
  <2>3. TypeOK'
    BY <1>1, <1>2, <1>3, <2>1, <2>2 DEF TypeOK
  <2>4. Control'
    BY <1>1, <1>2, <1>3, <2>1, <2>2
    DEF Control, Special, SpecialRun, FileRun, SpecialRecovery, FileRecovery, Restoring, Linked
  <2>5. Naming'
    BY <1>1, <1>2, <1>3, <2>1, <2>2 DEF Naming, Special
  <2>6. Sound(rec)'
    BY <1>1, <1>2, <1>3, <2>1, <2>2 DEF Sound
  <2>7. Sound(jrn)'
    BY <1>1, <1>2, <1>3, <2>1, <2>2 DEF Sound
  <2>8. Renaming'
    BY <1>1, <1>2, <1>3, <2>1, <2>2 DEF Renaming, Special, Completing, Linked, Forward
  <2>9. Evidence'
    BY <1>1, <1>2, <1>3, <2>1, <2>2 DEF Evidence, Special, Before, Reserved, Unstaged, Unboxed
  <2>10. Journaled'
    BY <1>1, <1>2, <1>3, <2>1, <2>2 DEF Journaled, Special, Reserved, Linked
  <2>11. Favorite'
    BY <1>1, <1>2, <1>3, <2>1, <2>2
    DEF Favorite, TypeOK, Untold, Told, Completing, Special, Before, Reserved, Linked
  <2>12. Undoable'
    BY <1>1, <1>2, <1>3, <2>1, <2>2 DEF Undoable, InPlace, Special, Reserved, Restoring
  <2>13. FailedClean'
    BY <1>1, <1>2, <1>3, <2>1, <2>2 DEF FailedClean, InPlace, Control
  <2> QED  BY <2>3, <2>4, <2>5, <2>6, <2>7, <2>8, <2>9, <2>10, <2>11, <2>12, <2>13
<1>4. CASE /\ op' = [op EXCEPT !.pc = "idle", !.mode = "ready"]
           /\ answer' = IF op.mode = "run" THEN "done" ELSE answer
  <2>1. op' \in [pc : Places, mode : Modes, ok : BOOLEAN] /\ op'.pc = "idle" /\ op'.mode = "ready"
    BY <1>4 DEF TypeOK, Places, Modes
  <2>2. answer' \in {"none", "done", "failed"} /\ (answer' = "failed" => crashes > 0)
    BY <1>1, <1>4 DEF TypeOK, Control
  <2>3. rec # None
    BY <1>1 DEF Control
  <2>4. TypeOK'
    BY <1>1, <1>2, <2>1, <2>2, <2>3 DEF TypeOK
  <2>5. Control'
    BY <1>1, <1>2, <2>1, <2>2, <2>3
    DEF Control, Special, SpecialRun, FileRun, SpecialRecovery, FileRecovery, Restoring, Linked
  <2>6. Naming'
    BY <1>1, <1>2, <2>1, <2>2, <2>3 DEF Naming, Special
  <2>7. Sound(rec)'
    BY <1>1, <1>2, <2>1, <2>2, <2>3 DEF Sound
  <2>8. Sound(jrn)'
    BY <1>1, <1>2, <2>1, <2>2, <2>3 DEF Sound
  <2>9. Renaming'
    BY <1>1, <1>2, <2>1, <2>2, <2>3 DEF Renaming, Special, Completing, Linked, Forward
  <2>10. Evidence'
    BY <1>1, <1>2, <2>1, <2>2, <2>3 DEF Evidence, Special, Before, Reserved, Unstaged, Unboxed
  <2>11. Journaled'
    BY <1>1, <1>2, <2>1, <2>2, <2>3 DEF Journaled, Special, Reserved, Linked
  <2>12. Favorite'
    BY <1>1, <1>2, <2>1, <2>2, <2>3
    DEF Favorite, TypeOK, Untold, Told, Completing, Special, Before, Reserved, Linked
  <2>13. Undoable'
    BY <1>1, <1>2, <2>1, <2>2, <2>3 DEF Undoable, InPlace, Special, Reserved, Restoring
  <2>14. FailedClean'
    BY <1>1, <1>2, <2>1, <2>2, <2>3 DEF FailedClean, InPlace, Control
  <2> QED  BY <2>4, <2>5, <2>6, <2>7, <2>8, <2>9, <2>10, <2>11, <2>12, <2>13, <2>14
<1> QED  BY <1>3, <1>4 DEF Finish

LEMMA MoveFavoritesStep == ASSUME FilesInv, MoveFavorites PROVE FilesInv'
<1> USE DEF FilesInv, bounds
<1>1. /\ op.pc = "move-favorites" /\ op.mode = "run" /\ ~ Special /\ job.kind = "move" /\ whole
      /\ jrn = None
      /\ UNCHANGED <<job, whole, jrn, crashes, faults, edits>>
  BY PlaceLemma DEF MoveFavorites, Journaled
<1>2. CASE ~ (at["destination"] # None \/ ~ job.favorite)
  <2>1. Throw /\ UNCHANGED <<at, stamp, rec, job, whole, jrn, bounds>>
    BY <1>2 DEF MoveFavorites, Steps
  <2>2. op'.pc = "idle"
    BY <1>1, <2>1 DEF Throw, GiveUp, Late, TypeOK
  <2>3. fav' = fav
    BY <2>2 DEF MoveFavorites
  <2> QED  BY <1>1, <2>1, <2>3, RefusedStep DEF disk
<1>3. CASE at["destination"] # None \/ ~ job.favorite
  <2>1. op' = [op EXCEPT !.pc = "move-source"] /\ UNCHANGED <<at, stamp, rec, answer>>
    BY <1>1, <1>3 DEF MoveFavorites, Steps, Go
  <2>2. op' \in [pc : Places, mode : Modes, ok : BOOLEAN] /\ op'.pc = "move-source"
        /\ op'.mode = "run" /\ op'.ok = op.ok
    BY <1>1, <2>1 DEF TypeOK, Places
  <2>3. /\ fav' \in [path : {"source", "destination", None}, pending : BOOLEAN]
        /\ fav'.pending = fav.pending /\ fav'.path = IF job.favorite THEN "destination" ELSE fav.path
    BY <2>2 DEF MoveFavorites, TypeOK
  <2>4. job.favorite => fav.path # None
    BY DEF Favorite
  <2>5. TypeOK'
    BY <1>1, <1>3, <2>1, <2>2, <2>3, <2>4 DEF TypeOK
  <2>6. Control'
    BY <1>1, <1>3, <2>1, <2>2, <2>3, <2>4
    DEF Control, Special, SpecialRun, FileRun, SpecialRecovery, FileRecovery, Restoring, Linked
  <2>7. Naming'
    BY <1>1, <1>3, <2>1, <2>2, <2>3, <2>4 DEF Naming, Special
  <2>8. Sound(rec)'
    BY <1>1, <1>3, <2>1, <2>2, <2>3, <2>4 DEF Sound
  <2>9. Sound(jrn)'
    BY <1>1, <1>3, <2>1, <2>2, <2>3, <2>4 DEF Sound
  <2>10. Renaming'
    BY <1>1, <1>3, <2>1, <2>2, <2>3, <2>4 DEF Renaming, Special, Completing, Linked, Forward
  <2>11. Evidence'
    BY <1>1, <1>3, <2>1, <2>2, <2>3, <2>4 DEF Evidence, Special, Before, Reserved, Unstaged, Unboxed
  <2>12. Journaled'
    BY <1>1, <1>3, <2>1, <2>2, <2>3, <2>4 DEF Journaled, Special, Reserved, Linked
  <2>13. Favorite'
    BY <1>1, <1>3, <2>1, <2>2, <2>3, <2>4, HostFilesAssumption
    DEF Favorite, TypeOK, Untold, Told, Completing, Special, Before, Reserved, Linked, Paths
  <2>14. Undoable'
    BY <1>1, <1>3, <2>1, <2>2, <2>3, <2>4 DEF Undoable, InPlace, Special, Reserved, Restoring
  <2>15. FailedClean'
    BY <1>1, <1>3, <2>1, <2>2, <2>3, <2>4 DEF FailedClean, InPlace, Control
  <2> QED  BY <2>5, <2>6, <2>7, <2>8, <2>9, <2>10, <2>11, <2>12, <2>13, <2>14, <2>15
<1> QED  BY <1>2, <1>3

LEMMA MoveSourceStep == ASSUME FilesInv, MoveSource PROVE FilesInv'
<1> USE DEF FilesInv, bounds
<1>1. /\ op.pc = "move-source" /\ op.mode = "run" /\ ~ Special /\ job.kind = "move" /\ whole
      /\ fav.path # "source" /\ rec # None
      /\ UNCHANGED <<job, whole, rec, jrn, fav, crashes, faults, edits>>
  BY PlaceLemma DEF MoveSource, Journaled, Favorite, Told, Control
<1>2. /\ op' = [op EXCEPT !.pc = "idle", !.mode = "ready"]
      /\ answer' \in {"none", "done", "failed"}
      /\ (UNCHANGED <<at, stamp>> \/ (at["source"] = "src" /\ Unlink("source")))
  BY <1>1 DEF MoveSource, GiveUp, Is, Id, Prepared
<1>3. op' \in [pc : Places, mode : Modes, ok : BOOLEAN] /\ op'.pc = "idle" /\ op'.mode = "ready"
  BY <1>2 DEF TypeOK, Places, Modes
<1>4. /\ at' \in [Paths -> Inodes \union {None}] /\ stamp' \in [Inodes -> Nat]
      /\ at'["destination"] = at["destination"] /\ at'["source"] \in {at["source"], None}
      /\ at'["box"] = at["box"] /\ at'["stage"] = at["stage"] /\ at'["backup"] = at["backup"]
      /\ \A i \in Inodes : stamp[i] <= stamp'[i]
  BY <1>2, UnlinkLemma DEF Paths, Inodes, TypeOK
<1>5. (rec # None => Recorded(rec, job, at'["destination"], stamp'))
      /\ (jrn # None => Recorded(jrn, job, at'["destination"], stamp'))
  BY <1>4, RecordKept DEF TypeOK, Sound
<1>6. TypeOK'
  BY <1>1, <1>2, <1>3, <1>4, <1>5 DEF TypeOK
<1>7. Control'
  BY <1>1, <1>2, <1>3, <1>4, <1>5
  DEF Control, Special, SpecialRun, FileRun, SpecialRecovery, FileRecovery, Restoring, Linked
<1>8. Naming'
  BY <1>1, <1>2, <1>3, <1>4, <1>5 DEF Naming, Special
<1>9. Sound(rec)'
  BY <1>1, <1>2, <1>3, <1>4, <1>5 DEF Sound
<1>10. Sound(jrn)'
  BY <1>1, <1>2, <1>3, <1>4, <1>5 DEF Sound
<1>11. Renaming'
  BY <1>1, <1>2, <1>3, <1>4, <1>5 DEF Renaming, Special, Completing, Linked, Forward
<1>12. Evidence'
  BY <1>1, <1>2, <1>3, <1>4, <1>5 DEF Evidence, Special, Before, Reserved, Unstaged, Unboxed
<1>13. Journaled'
  BY <1>1, <1>2, <1>3, <1>4, <1>5 DEF Journaled, Special, Reserved, Linked
<1>14. Favorite'
  BY <1>1, <1>2, <1>3, <1>4, <1>5
  DEF Favorite, TypeOK, Untold, Told, Completing, Special, Before, Reserved, Linked
<1>15. Undoable'
  BY <1>1, <1>2, <1>3, <1>4, <1>5 DEF Undoable, InPlace, Special, Reserved, Restoring
<1>16. FailedClean'
  BY <1>1, <1>2, <1>3, <1>4, <1>5 DEF FailedClean, InPlace, Control
<1> QED  BY <1>6, <1>7, <1>8, <1>9, <1>10, <1>11, <1>12, <1>13, <1>14, <1>15, <1>16

-----------------------------------------------------------------------------
(* A special rename                                                         *)

LEMMA LinkBackupStep ==
  ASSUME FilesInv, LinkBackup, UNCHANGED <<job, whole, jrn, fav, bounds>> PROVE FilesInv'
<1> USE DEF FilesInv, bounds
<1>1. op.pc = "link-backup" /\ op.mode = "run" /\ Special /\ jrn # None /\ jrn.backup /\ rec.backup
  BY PlaceLemma DEF LinkBackup, Journaled, Undoable, Reserved
<1>2. CASE ~ Is("destination", Prepared("destination"))
  BY <1>1, <1>2, RefusedStep DEF LinkBackup, Steps, disk
<1>3. CASE Is("destination", Prepared("destination"))
  <2>1. /\ op' = [op EXCEPT !.pc = "backup-linked"] /\ answer' = answer
        /\ Bind("backup", at["destination"]) /\ rec' = Remembering(rec, {"backup", "box"})
    BY <1>1, <1>3 DEF LinkBackup, Steps, Go, Remember
  <2>2. op' \in [pc : Places, mode : Modes, ok : BOOLEAN]
        /\ op'.pc = "backup-linked" /\ op'.mode = "run" /\ op'.ok = op.ok
    BY <1>1, <2>1 DEF TypeOK, Places, Phases
  <2>3. at["destination"] = "old"
    BY <1>3 DEF Is, Id, Prepared
  <2>4. /\ at' \in [Paths -> Inodes \union {None}] /\ stamp' \in [Inodes -> Nat]
        /\ at'["destination"] = "old" /\ at'["source"] = at["source"] /\ at'["box"] = at["box"]
        /\ at'["stage"] = at["stage"] /\ at'["backup"] = "old"
        /\ stamp'["old"] = stamp["old"] + 1 /\ stamp["old"] \in Nat
        /\ \A i \in Inodes : stamp[i] \in Nat /\ stamp[i] <= stamp'[i]
    BY <2>1, <2>3, BindLemma DEF Paths, Inodes, TypeOK
  <2>5. rec # None /\ rec \in Records /\ Recorded(rec, job, at["destination"], stamp)
    BY <1>1, RecLemma
  <2>6. /\ rec' \in Records /\ rec'.phase = rec.phase /\ rec'.backup = rec.backup
        /\ rec'.published = rec.published /\ rec'.source = rec.source
        /\ rec'.owned["stage"] = rec.owned["stage"]
        /\ rec'.owned["box"].ino = at["box"]
        /\ rec'.owned["backup"] = [ino |-> "old", stamp |-> stamp'["old"]]
        /\ rec'.owned["destination"] = rec.owned["destination"]
    <3>1. /\ rec' \in Records /\ rec'.phase = rec.phase /\ rec'.backup = rec.backup
          /\ rec'.published = rec.published /\ rec'.source = rec.source
          /\ \A p \in Paths \ {"backup", "box"} : rec'.owned[p] = rec.owned[p]
          /\ \A p \in Paths \intersect {"backup", "box"} : rec'.owned[p] = Id(p)'
      BY <2>1, <2>4, <2>5, RememberLemma
    <3>2. Id("box")'.ino = at["box"] /\ Id("backup")' = [ino |-> "old", stamp |-> stamp'["old"]]
      BY <2>4, HostFilesAssumption DEF Id, Inodes
    <3> QED  BY <3>1, <3>2 DEF Paths
  <2>7. rec' # None
    BY <2>6, HostFilesAssumption
  <2>8. Recorded(rec, job, at'["destination"], stamp')
        /\ (jrn # None => Recorded(jrn, job, at'["destination"], stamp'))
    BY <2>3, <2>4, <2>5, RecordKept DEF TypeOK, Sound
  <2>9. Recorded(rec', job, at'["destination"], stamp')
    BY <2>4, <2>6, <2>8 DEF Recorded, Inodes, Naming
  <2>10. TypeOK'
    BY <1>1, <1>3, <2>1, <2>2, <2>3, <2>4, <2>5, <2>6, <2>7, <2>8, <2>9 DEF TypeOK
  <2>11. Control'
    BY <1>1, <1>3, <2>1, <2>2, <2>3, <2>4, <2>5, <2>6, <2>7, <2>8, <2>9
    DEF Control, Special, SpecialRun, FileRun, SpecialRecovery, FileRecovery, Restoring, Linked
  <2>12. Naming'
    BY <1>1, <1>3, <2>1, <2>2, <2>3, <2>4, <2>5, <2>6, <2>7, <2>8, <2>9 DEF Naming, Special
  <2>13. Sound(rec)'
    BY <1>1, <1>3, <2>1, <2>2, <2>3, <2>4, <2>5, <2>6, <2>7, <2>8, <2>9 DEF Sound
  <2>14. Sound(jrn)'
    BY <1>1, <1>3, <2>1, <2>2, <2>3, <2>4, <2>5, <2>6, <2>7, <2>8, <2>9 DEF Sound
  <2>15. Renaming'
    BY <1>1, <1>3, <2>1, <2>2, <2>3, <2>4, <2>5, <2>6, <2>7, <2>8, <2>9
    DEF Renaming, Special, Completing, Linked, Forward
  <2>16. Evidence'
    BY <1>1, <1>3, <2>1, <2>2, <2>3, <2>4, <2>5, <2>6, <2>7, <2>8, <2>9
    DEF Evidence, Special, Before, Reserved, Unstaged, Unboxed
  <2>17. Journaled'
    BY <1>1, <1>3, <2>1, <2>2, <2>3, <2>4, <2>5, <2>6, <2>7, <2>8, <2>9
    DEF Journaled, Special, Reserved, Linked
  <2>18. Favorite'
    BY <1>1, <1>3, <2>1, <2>2, <2>3, <2>4, <2>5, <2>6, <2>7, <2>8, <2>9
    DEF Favorite, TypeOK, Untold, Told, Completing, Special, Before, Reserved, Linked
  <2>19. Undoable'
    BY <1>1, <1>3, <2>1, <2>2, <2>3, <2>4, <2>5, <2>6, <2>7, <2>8, <2>9
    DEF Undoable, InPlace, Special, Reserved, Restoring
  <2>20. FailedClean'
    BY <1>1, <1>3, <2>1, <2>2, <2>3, <2>4, <2>5, <2>6, <2>7, <2>8, <2>9
    DEF FailedClean, InPlace, Control
  <2> QED  BY <2>10, <2>11, <2>12, <2>13, <2>14, <2>15, <2>16, <2>17, <2>18, <2>19, <2>20
<1> QED  BY <1>2, <1>3

LEMMA UnlinkDestinationStep ==
  ASSUME FilesInv, UnlinkDestination, UNCHANGED <<job, whole, jrn, fav, bounds>> PROVE FilesInv'
<1> USE DEF FilesInv, bounds
<1>1. op.pc = "unlink-destination" /\ op.mode = "run" /\ Special /\ jrn # None /\ rec.backup
  BY PlaceLemma DEF UnlinkDestination, Journaled, Undoable
<1>2. CASE ~ Is("destination", rec.owned["backup"])
  BY <1>1, <1>2, RefusedStep DEF UnlinkDestination, Steps, disk
<1>3. CASE Is("destination", rec.owned["backup"])
  <2>1. /\ op' = [op EXCEPT !.pc = "quarantined"] /\ answer' = answer
        /\ Unlink("destination") /\ rec' = Remembering(rec, {"backup", "box"})
    BY <1>1, <1>3 DEF UnlinkDestination, Steps, Go, Remember
  <2>2. op' \in [pc : Places, mode : Modes, ok : BOOLEAN]
        /\ op'.pc = "quarantined" /\ op'.mode = "run" /\ op'.ok = op.ok
    BY <1>1, <2>1 DEF TypeOK, Places, Phases
  <2>3. rec # None /\ rec \in Records /\ Recorded(rec, job, at["destination"], stamp)
    BY <1>1, RecLemma
  <2>4. at["destination"] = "old" /\ rec.owned["backup"] = [ino |-> "old", stamp |-> stamp["old"]]
    BY <1>3, <2>3, HostFilesAssumption DEF Is, Id, Recorded, Inodes
  <2>5. at["backup"] = "old"
    BY <1>1, <2>4 DEF Journaled
  <2>6. /\ at' \in [Paths -> Inodes \union {None}] /\ stamp' \in [Inodes -> Nat]
        /\ at'["destination"] = None /\ at'["source"] = at["source"] /\ at'["box"] = at["box"]
        /\ at'["stage"] = at["stage"] /\ at'["backup"] = "old"
        /\ stamp'["old"] = stamp["old"] + 1 /\ stamp["old"] \in Nat
        /\ \A i \in Inodes : stamp[i] \in Nat /\ stamp[i] <= stamp'[i]
    BY <2>1, <2>4, <2>5, UnlinkLemma DEF Paths, Inodes, TypeOK
  <2>7. /\ rec' \in Records /\ rec'.phase = rec.phase /\ rec'.backup = rec.backup
        /\ rec'.published = rec.published /\ rec'.source = rec.source
        /\ rec'.owned["stage"] = rec.owned["stage"]
        /\ rec'.owned["box"].ino = at["box"]
        /\ rec'.owned["backup"] = [ino |-> "old", stamp |-> stamp'["old"]]
        /\ rec'.owned["destination"] = rec.owned["destination"]
    <3>1. /\ rec' \in Records /\ rec'.phase = rec.phase /\ rec'.backup = rec.backup
          /\ rec'.published = rec.published /\ rec'.source = rec.source
          /\ \A p \in Paths \ {"backup", "box"} : rec'.owned[p] = rec.owned[p]
          /\ \A p \in Paths \intersect {"backup", "box"} : rec'.owned[p] = Id(p)'
      BY <2>1, <2>3, <2>6, RememberLemma
    <3>2. Id("box")'.ino = at["box"] /\ Id("backup")' = [ino |-> "old", stamp |-> stamp'["old"]]
      BY <2>6, HostFilesAssumption DEF Id, Inodes
    <3> QED  BY <3>1, <3>2 DEF Paths
  <2>8. rec' # None
    BY <2>7, HostFilesAssumption
  <2>9. \A i \in {"old", "src"} :
          at["destination"] = i => at'["destination"] = i \/ stamp[i] < stamp'[i]
    BY <2>4, <2>6
  <2>10. Recorded(rec, job, at'["destination"], stamp')
         /\ (jrn # None => Recorded(jrn, job, at'["destination"], stamp'))
    BY <2>3, <2>6, <2>9, RecordKept DEF TypeOK, Sound
  <2>11. Recorded(rec', job, at'["destination"], stamp')
    BY <2>6, <2>7, <2>10 DEF Recorded, Inodes, Naming
  <2>12. TypeOK'
    BY <1>1, <1>3, <2>1, <2>2, <2>3, <2>4, <2>5, <2>6, <2>7, <2>8, <2>10, <2>11 DEF TypeOK
  <2>13. Control'
    BY <1>1, <1>3, <2>1, <2>2, <2>3, <2>4, <2>5, <2>6, <2>7, <2>8, <2>10, <2>11
    DEF Control, Special, SpecialRun, FileRun, SpecialRecovery, FileRecovery, Restoring, Linked
  <2>14. Naming'
    BY <1>1, <1>3, <2>1, <2>2, <2>3, <2>4, <2>5, <2>6, <2>7, <2>8, <2>10, <2>11, HostFilesAssumption
    DEF Naming, Special, Inodes
  <2>15. Sound(rec)'
    BY <1>1, <1>3, <2>1, <2>2, <2>3, <2>4, <2>5, <2>6, <2>7, <2>8, <2>10, <2>11 DEF Sound
  <2>16. Sound(jrn)'
    BY <1>1, <1>3, <2>1, <2>2, <2>3, <2>4, <2>5, <2>6, <2>7, <2>8, <2>10, <2>11 DEF Sound
  <2>17. Renaming'
    BY <1>1, <1>3, <2>1, <2>2, <2>3, <2>4, <2>5, <2>6, <2>7, <2>8, <2>10, <2>11
    DEF Renaming, Special, Completing, Linked, Forward
  <2>18. Evidence'
    BY <1>1, <1>3, <2>1, <2>2, <2>3, <2>4, <2>5, <2>6, <2>7, <2>8, <2>10, <2>11, ZenonT(60)
    DEF Evidence, Special, Before, Reserved, Unstaged, Unboxed
  <2>19. Journaled'
    BY <1>1, <1>3, <2>1, <2>2, <2>3, <2>4, <2>5, <2>6, <2>7, <2>8, <2>10, <2>11
    DEF Journaled, Special, Reserved, Linked
  <2>20. Favorite'
    BY <1>1, <1>3, <2>1, <2>2, <2>3, <2>4, <2>5, <2>6, <2>7, <2>8, <2>10, <2>11
    DEF Favorite, TypeOK, Untold, Told, Completing, Special, Before, Reserved, Linked
  <2>21. Undoable'
    BY <1>1, <1>3, <2>1, <2>2, <2>3, <2>4, <2>5, <2>6, <2>7, <2>8, <2>10, <2>11, HostFilesAssumption
    DEF Undoable, InPlace, Special, Reserved, Restoring, Inodes
  <2>22. FailedClean'
    BY <1>1, <1>3, <2>1, <2>2, <2>3, <2>4, <2>5, <2>6, <2>7, <2>8, <2>10, <2>11
    DEF FailedClean, InPlace, Control
  <2> QED  BY <2>12, <2>13, <2>14, <2>15, <2>16, <2>17, <2>18, <2>19, <2>20, <2>21, <2>22
<1> QED  BY <1>2, <1>3

LEMMA LinkSourceStep ==
  ASSUME FilesInv, LinkSource, UNCHANGED <<job, whole, jrn, fav, bounds>> PROVE FilesInv'
<1> USE DEF FilesInv, bounds
<1>1. op.pc = "link-source" /\ op.mode = "run" /\ Special /\ jrn # None /\ (rec.backup <=> job.replace)
  BY PlaceLemma DEF LinkSource, Journaled, Undoable
<1>2. CASE ~ (Is("source", rec.source) /\ at["destination"] = None)
  BY <1>1, <1>2, RefusedStep DEF LinkSource, Steps, disk
<1>3. CASE Is("source", rec.source) /\ at["destination"] = None
  <2>1. /\ op' = [op EXCEPT !.pc = "linked"] /\ answer' = answer
        /\ Bind("destination", at["source"])
        /\ rec' = [Remembering(rec, {"destination"}) EXCEPT
                     !.source = Id("source")', !.published = Id("destination")']
    BY <1>1, <1>3 DEF LinkSource, Steps, Go
  <2>2. op' \in [pc : Places, mode : Modes, ok : BOOLEAN]
        /\ op'.pc = "linked" /\ op'.mode = "run" /\ op'.ok = op.ok
    BY <1>1, <2>1 DEF TypeOK, Places, Phases
  <2>3. rec # None /\ rec \in Records /\ Recorded(rec, job, at["destination"], stamp)
    BY <1>1, RecLemma
  <2>4. at["source"] = "src"
    BY <1>3, <2>3, HostFilesAssumption DEF Is, Id, Recorded, Inodes
  <2>5. /\ at' \in [Paths -> Inodes \union {None}] /\ stamp' \in [Inodes -> Nat]
        /\ at'["destination"] = "src" /\ at'["source"] = "src" /\ at'["box"] = at["box"]
        /\ at'["stage"] = at["stage"] /\ at'["backup"] = at["backup"]
        /\ \A i \in Inodes : stamp[i] \in Nat /\ stamp[i] <= stamp'[i]
    BY <2>1, <2>4, BindLemma DEF Paths, Inodes, TypeOK
  <2>6. Id("source")' = [ino |-> "src", stamp |-> stamp'["src"]]
        /\ Id("destination")' = [ino |-> "src", stamp |-> stamp'["src"]]
    BY <2>5, HostFilesAssumption DEF Id, Inodes
  <2>7. /\ rec' \in Records /\ rec'.phase = rec.phase /\ rec'.backup = rec.backup
        /\ rec'.published = [ino |-> "src", stamp |-> stamp'["src"]]
        /\ rec'.source = [ino |-> "src", stamp |-> stamp'["src"]]
        /\ rec'.owned["stage"] = rec.owned["stage"] /\ rec'.owned["box"] = rec.owned["box"]
        /\ rec'.owned["backup"] = rec.owned["backup"]
        /\ rec'.owned["destination"] = [ino |-> "src", stamp |-> stamp'["src"]]
    <3> DEFINE m == Remembering(rec, {"destination"})
               id == [ino |-> "src", stamp |-> stamp'["src"]]
    <3>1. /\ m \in Records /\ m.phase = rec.phase /\ m.backup = rec.backup
          /\ \A p \in Paths \ {"destination"} : m.owned[p] = rec.owned[p]
          /\ \A p \in Paths \intersect {"destination"} : m.owned[p] = Id(p)'
      BY <2>3, <2>5, RememberLemma
    <3>2. rec' = [m EXCEPT !.source = id, !.published = id]
      BY <2>1, <2>6
    <3>3. id \in Ids
      BY <2>5 DEF Ids, Inodes
    <3> HIDE DEF m, id
    <3>4. rec' \in Records /\ rec'.phase = m.phase /\ rec'.backup = m.backup /\ rec'.owned = m.owned
          /\ rec'.source = id /\ rec'.published = id
      BY <3>1, <3>2, <3>3 DEF Records
    <3> QED  BY <2>6, <3>1, <3>4 DEF Paths, id
  <2>8. rec' # None /\ rec'.published # NoId
    BY <2>7, HostFilesAssumption DEF NoId, Inodes
  <2>9. \A i \in {"old", "src"} : at["destination"] # i
    BY <1>3, HostFilesAssumption DEF Inodes
  <2>10. Recorded(rec, job, at'["destination"], stamp')
         /\ (jrn # None => Recorded(jrn, job, at'["destination"], stamp'))
    BY <2>3, <2>5, <2>9, RecordKept DEF TypeOK, Sound
  <2>11. Recorded(rec', job, at'["destination"], stamp')
    BY <1>1, <2>5, <2>7, <2>10 DEF Recorded, Inodes, Special
  <2>12. TypeOK'
    BY <1>1, <1>3, <2>1, <2>2, <2>3, <2>4, <2>5, <2>7, <2>8, <2>10, <2>11 DEF TypeOK
  <2>13. Control'
    BY <1>1, <1>3, <2>1, <2>2, <2>3, <2>4, <2>5, <2>7, <2>8, <2>10, <2>11
    DEF Control, Special, SpecialRun, FileRun, SpecialRecovery, FileRecovery, Restoring, Linked
  <2>14. Naming'
    BY <1>1, <1>3, <2>1, <2>2, <2>3, <2>4, <2>5, <2>7, <2>8, <2>10, <2>11 DEF Naming, Special
  <2>15. Sound(rec)'
    BY <1>1, <1>3, <2>1, <2>2, <2>3, <2>4, <2>5, <2>7, <2>8, <2>10, <2>11 DEF Sound
  <2>16. Sound(jrn)'
    BY <1>1, <1>3, <2>1, <2>2, <2>3, <2>4, <2>5, <2>7, <2>8, <2>10, <2>11 DEF Sound
  <2>17. Renaming'
    BY <1>1, <1>3, <2>1, <2>2, <2>3, <2>4, <2>5, <2>7, <2>8, <2>10, <2>11
    DEF Renaming, Special, Completing, Linked, Forward
  <2>18. Evidence'
    BY <1>1, <1>3, <2>1, <2>2, <2>3, <2>4, <2>5, <2>7, <2>8, <2>10, <2>11
    DEF Evidence, Special, Before, Reserved, Unstaged, Unboxed
  <2>19. Journaled'
    BY <1>1, <1>3, <2>1, <2>2, <2>3, <2>4, <2>5, <2>7, <2>8, <2>10, <2>11
    DEF Journaled, Special, Reserved, Linked
  <2>20. Favorite'
    BY <1>1, <1>3, <2>1, <2>2, <2>3, <2>4, <2>5, <2>7, <2>8, <2>10, <2>11, HostFilesAssumption
    DEF Favorite, TypeOK, Untold, Told, Completing, Special, Before, Reserved, Linked, Inodes
  <2>21. Undoable'
    BY <1>1, <1>3, <2>1, <2>2, <2>3, <2>4, <2>5, <2>7, <2>8, <2>10, <2>11
    DEF Undoable, InPlace, Special, Reserved, Restoring
  <2>22. FailedClean'
    BY <1>1, <1>3, <2>1, <2>2, <2>3, <2>4, <2>5, <2>7, <2>8, <2>10, <2>11
    DEF FailedClean, InPlace, Control
  <2> QED  BY <2>12, <2>13, <2>14, <2>15, <2>16, <2>17, <2>18, <2>19, <2>20, <2>21, <2>22
<1> QED  BY <1>2, <1>3

LEMMA FavoritesFollowStep == ASSUME FilesInv, FavoritesFollow PROVE FilesInv'
<1> USE DEF FilesInv, disk, bounds
<1>1. /\ op.pc = "favorites-1" /\ op.mode = "run" /\ Special /\ jrn # None /\ rec # None
      /\ UNCHANGED <<job, at, stamp, whole, rec, jrn, answer, crashes, faults, edits>>
  BY PlaceLemma DEF FavoritesFollow, Journaled, Control
<1>2. op' \in [pc : Places, mode : Modes, ok : BOOLEAN]
      /\ op'.pc = "unlink-check" /\ op'.mode = "run" /\ op'.ok = op.ok
  BY <1>1 DEF FavoritesFollow, Go, TypeOK, Places
<1>3. /\ fav' \in [path : {"source", "destination", None}, pending : BOOLEAN]
      /\ \/ fav' = fav /\ ~ job.favorite
         \/ fav'.path = "destination" /\ job.favorite
  BY DEF FavoritesFollow, TypeOK
<1>4. rec.published.ino = "src" /\ rec.published # NoId
  BY <1>1, HostFilesAssumption DEF Renaming, Linked, NoId, Inodes
<1>5. TypeOK'
  BY <1>1, <1>2, <1>3, <1>4 DEF TypeOK
<1>6. Control'
  BY <1>1, <1>2, <1>3, <1>4
  DEF Control, Special, SpecialRun, FileRun, SpecialRecovery, FileRecovery, Restoring, Linked
<1>7. Naming'
  BY <1>1, <1>2, <1>3, <1>4 DEF Naming, Special
<1>8. Sound(rec)'
  BY <1>1, <1>2, <1>3, <1>4 DEF Sound
<1>9. Sound(jrn)'
  BY <1>1, <1>2, <1>3, <1>4 DEF Sound
<1>10. Renaming'
  BY <1>1, <1>2, <1>3, <1>4 DEF Renaming, Special, Completing, Linked, Forward
<1>11. Evidence'
  BY <1>1, <1>2, <1>3, <1>4 DEF Evidence, Special, Before, Reserved, Unstaged, Unboxed
<1>12. Journaled'
  BY <1>1, <1>2, <1>3, <1>4 DEF Journaled, Special, Reserved, Linked
<1>13. Favorite'
  BY <1>1, <1>2, <1>3, <1>4, HostFilesAssumption
  DEF Favorite, TypeOK, Untold, Told, Completing, Special, Before, Reserved, Linked, Paths
<1>14. Undoable'
  BY <1>1, <1>2, <1>3, <1>4 DEF Undoable, InPlace, Special, Reserved, Restoring
<1>15. FailedClean'
  BY <1>1, <1>2, <1>3, <1>4 DEF FailedClean, InPlace, Control
<1> QED  BY <1>5, <1>6, <1>7, <1>8, <1>9, <1>10, <1>11, <1>12, <1>13, <1>14, <1>15

LEMMA FavoritesRefuseStep == ASSUME FilesInv, FavoritesRefuse PROVE FilesInv'
<1> USE DEF FilesInv, disk, bounds
<1>1. /\ op.pc = "favorites-1" /\ op.mode = "run" /\ Special /\ jrn # None /\ rec # None
      /\ UNCHANGED <<job, at, stamp, whole, rec, jrn, fav, answer, crashes, edits>>
      /\ faults' \in 0 .. MaxFaults
  BY PlaceLemma, HostFilesAssumption DEF FavoritesRefuse, Journaled, Control, TypeOK
<1>2. op' = [pc |-> "abort", mode |-> "abort", ok |-> TRUE]
  BY DEF FavoritesRefuse
<1>3. op' \in [pc : Places, mode : Modes, ok : BOOLEAN]
      /\ op'.pc = "abort" /\ op'.mode = "abort" /\ op'.ok = TRUE
  BY <1>2 DEF Places, Modes
<1>4. rec.published.ino = "src" /\ rec.published # NoId
  BY <1>1, HostFilesAssumption DEF Renaming, Linked, NoId, Inodes
<1>5. TypeOK'
  BY <1>1, <1>3, <1>4 DEF TypeOK
<1>6. Control'
  BY <1>1, <1>3, <1>4
  DEF Control, Special, SpecialRun, FileRun, SpecialRecovery, FileRecovery, Restoring, Linked
<1>7. Naming'
  BY <1>1, <1>3, <1>4 DEF Naming, Special
<1>8. Sound(rec)'
  BY <1>1, <1>3, <1>4 DEF Sound
<1>9. Sound(jrn)'
  BY <1>1, <1>3, <1>4 DEF Sound
<1>10. Renaming'
  BY <1>1, <1>3, <1>4 DEF Renaming, Special, Completing, Linked, Forward
<1>11. Evidence'
  BY <1>1, <1>3, <1>4 DEF Evidence, Special, Before, Reserved, Unstaged, Unboxed
<1>12. Journaled'
  BY <1>1, <1>3, <1>4 DEF Journaled, Special, Reserved, Linked
<1>13. Favorite'
  BY <1>1, <1>3, <1>4
  DEF Favorite, TypeOK, Untold, Told, Completing, Special, Before, Reserved, Linked
<1>14. Undoable'
  BY <1>1, <1>3, <1>4 DEF Undoable, InPlace, Special, Reserved, Restoring
<1>15. FailedClean'
  BY <1>1, <1>3, <1>4 DEF FailedClean, InPlace, Control
<1> QED  BY <1>5, <1>6, <1>7, <1>8, <1>9, <1>10, <1>11, <1>12, <1>13, <1>14, <1>15

LEMMA CheckUnlinkStep ==
  ASSUME FilesInv, CheckUnlink, UNCHANGED <<job, whole, jrn, fav, bounds>> PROVE FilesInv'
<1> USE DEF FilesInv, bounds
<1>1. /\ op.pc = "unlink-check" /\ op.mode = "run" /\ Special /\ rec # None
      /\ jrn # None /\ jrn.published # NoId /\ rec.published.ino = "src"
  BY PlaceLemma DEF CheckUnlink, Journaled, Renaming, Linked, Control
<1>2. CASE ~ (Is("source", rec.source) /\ Is("destination", rec.published))
  BY <1>1, <1>2, RefusedStep DEF CheckUnlink, Steps, disk
<1>3. CASE Is("source", rec.source) /\ Is("destination", rec.published)
  <2>1. op' = [op EXCEPT !.pc = "source-unlink-authorized"] /\ UNCHANGED <<at, stamp, rec, answer>>
    BY <1>1, <1>3 DEF CheckUnlink, Steps, Go
  <2>2. op' \in [pc : Places, mode : Modes, ok : BOOLEAN]
        /\ op'.pc = "source-unlink-authorized" /\ op'.mode = "run" /\ op'.ok = op.ok
    BY <1>1, <2>1 DEF TypeOK, Places, Phases
  <2>3. TypeOK'
    BY <1>1, <1>3, <2>1, <2>2 DEF TypeOK
  <2>4. Control'
    BY <1>1, <1>3, <2>1, <2>2
    DEF Control, Special, SpecialRun, FileRun, SpecialRecovery, FileRecovery, Restoring, Linked
  <2>5. Naming'
    BY <1>1, <1>3, <2>1, <2>2 DEF Naming, Special
  <2>6. Sound(rec)'
    BY <1>1, <1>3, <2>1, <2>2 DEF Sound
  <2>7. Sound(jrn)'
    BY <1>1, <1>3, <2>1, <2>2 DEF Sound
  <2>8. Renaming'
    BY <1>1, <1>3, <2>1, <2>2 DEF Renaming, Special, Completing, Linked, Forward
  <2>9. Evidence'
    BY <1>1, <1>3, <2>1, <2>2 DEF Evidence, Special, Before, Reserved, Unstaged, Unboxed
  <2>10. Journaled'
    BY <1>1, <1>3, <2>1, <2>2 DEF Journaled, Special, Reserved, Linked
  <2>11. Favorite'
    BY <1>1, <1>3, <2>1, <2>2
    DEF Favorite, TypeOK, Untold, Told, Completing, Special, Before, Reserved, Linked
  <2>12. Undoable'
    BY <1>1, <1>3, <2>1, <2>2 DEF Undoable, InPlace, Special, Reserved, Restoring
  <2>13. FailedClean'
    BY <1>1, <1>3, <2>1, <2>2 DEF FailedClean, InPlace, Control
  <2> QED  BY <2>3, <2>4, <2>5, <2>6, <2>7, <2>8, <2>9, <2>10, <2>11, <2>12, <2>13
<1> QED  BY <1>2, <1>3

LEMMA UnlinkSourceStep ==
  ASSUME FilesInv, UnlinkSource, UNCHANGED <<job, whole, jrn, fav, bounds>> PROVE FilesInv'
<1> USE DEF FilesInv, bounds
<1>1. /\ op.pc = "unlink-source" /\ op.mode \in {"run", "recover"} /\ Special
      /\ jrn # None /\ jrn.published # NoId /\ rec.published.ino = "src" /\ fav.path # "source"
  BY PlaceLemma DEF UnlinkSource, Journaled, Renaming, Linked, Favorite, Told
<1>2. CASE ~ Is("source", rec.source)
  BY <1>1, <1>2, RefusedStep DEF UnlinkSource, Steps, disk
<1>3. CASE Is("source", rec.source)
  <2>1. /\ op' = [op EXCEPT !.pc = "source-unlinked"] /\ answer' = answer
        /\ Unlink("source")
        /\ rec' = [Remembering(rec, {"destination"}) EXCEPT !.published = Id("destination")']
    BY <1>1, <1>3 DEF UnlinkSource, Steps, Go
  <2>2. op' \in [pc : Places, mode : Modes, ok : BOOLEAN]
        /\ op'.pc = "source-unlinked" /\ op'.mode = op.mode /\ op'.ok = op.ok
    BY <1>1, <2>1 DEF TypeOK, Places, Phases
  <2>3. rec # None /\ rec \in Records /\ Recorded(rec, job, at["destination"], stamp)
    BY <1>1, RecLemma
  <2>4. at["source"] = "src" /\ rec.source.stamp = stamp["src"]
    BY <1>3, <2>3, HostFilesAssumption DEF Is, Id, Recorded, Inodes
  <2>5. at["destination"] = "src"
    BY <1>1, <2>3, <2>4 DEF Recorded, Special
  <2>6. /\ at' \in [Paths -> Inodes \union {None}] /\ stamp' \in [Inodes -> Nat]
        /\ at'["destination"] = "src" /\ at'["source"] = None /\ at'["box"] = at["box"]
        /\ at'["stage"] = at["stage"] /\ at'["backup"] = at["backup"]
        /\ \A i \in Inodes : stamp[i] \in Nat /\ stamp[i] <= stamp'[i]
    BY <2>1, <2>4, <2>5, UnlinkLemma DEF Paths, Inodes, TypeOK
  <2>7. Id("destination")' = [ino |-> "src", stamp |-> stamp'["src"]]
    BY <2>6, HostFilesAssumption DEF Id, Inodes
  <2>8. /\ rec' \in Records /\ rec'.phase = rec.phase /\ rec'.backup = rec.backup
        /\ rec'.published = [ino |-> "src", stamp |-> stamp'["src"]]
        /\ rec'.source = rec.source
        /\ rec'.owned["stage"] = rec.owned["stage"] /\ rec'.owned["box"] = rec.owned["box"]
        /\ rec'.owned["backup"] = rec.owned["backup"]
        /\ rec'.owned["destination"] = [ino |-> "src", stamp |-> stamp'["src"]]
    <3> DEFINE m == Remembering(rec, {"destination"})
               id == [ino |-> "src", stamp |-> stamp'["src"]]
    <3>1. /\ m \in Records /\ m.phase = rec.phase /\ m.backup = rec.backup /\ m.source = rec.source
          /\ \A p \in Paths \ {"destination"} : m.owned[p] = rec.owned[p]
          /\ \A p \in Paths \intersect {"destination"} : m.owned[p] = Id(p)'
      BY <2>3, <2>6, RememberLemma
    <3>2. rec' = [m EXCEPT !.published = id]
      BY <2>1, <2>7
    <3>3. id \in Ids
      BY <2>6 DEF Ids, Inodes
    <3> HIDE DEF m, id
    <3>4. rec' \in Records /\ rec'.phase = m.phase /\ rec'.backup = m.backup /\ rec'.owned = m.owned
          /\ rec'.source = m.source /\ rec'.published = id
      BY <3>1, <3>2, <3>3 DEF Records
    <3> QED  BY <2>7, <3>1, <3>4 DEF Paths, id
  <2>9. rec' # None /\ rec'.published # NoId
    BY <2>8, HostFilesAssumption DEF NoId, Inodes
  <2>10. Recorded(rec, job, at'["destination"], stamp')
         /\ (jrn # None => Recorded(jrn, job, at'["destination"], stamp'))
    BY <2>3, <2>5, <2>6, RecordKept DEF TypeOK, Sound
  <2>11. Recorded(rec', job, at'["destination"], stamp')
    BY <1>1, <2>6, <2>8, <2>10 DEF Recorded, Inodes, Special
  <2>12. TypeOK'
    BY <1>1, <1>3, <2>1, <2>2, <2>3, <2>4, <2>5, <2>6, <2>8, <2>9, <2>10, <2>11 DEF TypeOK
  <2>13. Control'
    BY <1>1, <1>3, <2>1, <2>2, <2>3, <2>4, <2>5, <2>6, <2>8, <2>9, <2>10, <2>11
    DEF Control, Special, SpecialRun, FileRun, SpecialRecovery, FileRecovery, Restoring, Linked
  <2>14. Naming'
    BY <1>1, <1>3, <2>1, <2>2, <2>3, <2>4, <2>5, <2>6, <2>8, <2>9, <2>10, <2>11 DEF Naming, Special
  <2>15. Sound(rec)'
    BY <1>1, <1>3, <2>1, <2>2, <2>3, <2>4, <2>5, <2>6, <2>8, <2>9, <2>10, <2>11 DEF Sound
  <2>16. Sound(jrn)'
    BY <1>1, <1>3, <2>1, <2>2, <2>3, <2>4, <2>5, <2>6, <2>8, <2>9, <2>10, <2>11 DEF Sound
  <2>17. Renaming'
    BY <1>1, <1>3, <2>1, <2>2, <2>3, <2>4, <2>5, <2>6, <2>8, <2>9, <2>10, <2>11
    DEF Renaming, Special, Completing, Linked, Forward
  <2>18. Evidence'
    BY <1>1, <1>3, <2>1, <2>2, <2>3, <2>4, <2>5, <2>6, <2>8, <2>9, <2>10, <2>11
    DEF Evidence, Special, Before, Reserved, Unstaged, Unboxed
  <2>19. Journaled'
    BY <1>1, <1>3, <2>1, <2>2, <2>3, <2>4, <2>5, <2>6, <2>8, <2>9, <2>10, <2>11
    DEF Journaled, Special, Reserved, Linked
  <2>20. Favorite'
    BY <1>1, <1>3, <2>1, <2>2, <2>3, <2>4, <2>5, <2>6, <2>8, <2>9, <2>10, <2>11
    DEF Favorite, TypeOK, Untold, Told, Completing, Special, Before, Reserved, Linked
  <2>21. Undoable'
    BY <1>1, <1>3, <2>1, <2>2, <2>3, <2>4, <2>5, <2>6, <2>8, <2>9, <2>10, <2>11
    DEF Undoable, InPlace, Special, Reserved, Restoring
  <2>22. FailedClean'
    BY <1>1, <1>3, <2>1, <2>2, <2>3, <2>4, <2>5, <2>6, <2>8, <2>9, <2>10, <2>11
    DEF FailedClean, InPlace, Control
  <2> QED  BY <2>12, <2>13, <2>14, <2>15, <2>16, <2>17, <2>18, <2>19, <2>20, <2>21, <2>22
<1> QED  BY <1>2, <1>3

LEMMA FavoritesSettleStep == ASSUME FilesInv, FavoritesSettle PROVE FilesInv'
<1> USE DEF FilesInv, disk, bounds
<1>1. /\ op.pc \in {"favorites-2", "favorites-3"} /\ op.mode \in {"run", "recover"} /\ Special
      /\ jrn # None /\ rec # None /\ fav.path # "source"
      /\ UNCHANGED <<job, at, stamp, whole, rec, jrn, answer, crashes, faults, edits>>
  BY PlaceLemma DEF FavoritesSettle, Journaled, Control, Favorite, Told, Linked
<1>2. op' \in [pc : Places, mode : Modes, ok : BOOLEAN]
      /\ op'.pc = (IF op.pc = "favorites-2" THEN "finalize" ELSE "finish")
      /\ op'.mode = op.mode /\ op'.ok = op.ok
  BY <1>1 DEF FavoritesSettle, Go, TypeOK, Places
<1>3. fav.path = None <=> ~ job.favorite
  BY DEF Favorite
<1>4. /\ fav' \in [path : {"source", "destination", None}, pending : BOOLEAN]
      /\ fav'.path = fav.path /\ ~ fav'.pending
  <2>1. CASE job.favorite
    BY <1>1, <1>3, <2>1 DEF FavoritesSettle, TypeOK
  <2>2. CASE ~ job.favorite
    BY <1>1, <1>3, <2>2, HostFilesAssumption DEF FavoritesSettle, TypeOK, Favorite, Paths
  <2> QED  BY <2>1, <2>2
<1>5. TypeOK'
  BY <1>1, <1>2, <1>3, <1>4 DEF TypeOK
<1>6. Control'
  BY <1>1, <1>2, <1>3, <1>4
  DEF Control, Special, SpecialRun, FileRun, SpecialRecovery, FileRecovery, Restoring, Linked
<1>7. Naming'
  BY <1>1, <1>2, <1>3, <1>4 DEF Naming, Special
<1>8. Sound(rec)'
  BY <1>1, <1>2, <1>3, <1>4 DEF Sound
<1>9. Sound(jrn)'
  BY <1>1, <1>2, <1>3, <1>4 DEF Sound
<1>10. Renaming'
  BY <1>1, <1>2, <1>3, <1>4 DEF Renaming, Special, Completing, Linked, Forward
<1>11. Evidence'
  BY <1>1, <1>2, <1>3, <1>4 DEF Evidence, Special, Before, Reserved, Unstaged, Unboxed
<1>12. Journaled'
  BY <1>1, <1>2, <1>3, <1>4 DEF Journaled, Special, Reserved, Linked
<1>13. Favorite'
  BY <1>1, <1>2, <1>3, <1>4
  DEF Favorite, TypeOK, Untold, Told, Completing, Special, Before, Reserved, Linked
<1>14. Undoable'
  BY <1>1, <1>2, <1>3, <1>4 DEF Undoable, InPlace, Special, Reserved, Restoring
<1>15. FailedClean'
  BY <1>1, <1>2, <1>3, <1>4 DEF FailedClean, InPlace, Control
<1> QED  BY <1>5, <1>6, <1>7, <1>8, <1>9, <1>10, <1>11, <1>12, <1>13, <1>14, <1>15

LEMMA FinalizeStep ==
  ASSUME FilesInv, Finalize, UNCHANGED <<job, whole, jrn, fav, bounds>> PROVE FilesInv'
<1> USE DEF FilesInv, bounds
<1>1. /\ op.pc = "finalize" /\ op.mode \in {"run", "recover"} /\ Special /\ rec # None
      /\ jrn # None /\ jrn.published # NoId /\ rec.published.ino = "src" /\ fav.path # "source"
      /\ (op.mode = "recover" => rec.phase = "source-unlinked")
  BY PlaceLemma DEF Finalize, Journaled, Renaming, Linked, Control, Favorite, Told
<1>2. CASE ~ Is("destination", rec.published)
  BY <1>1, <1>2, RefusedStep DEF Finalize, Steps, disk
<1>3. CASE Is("destination", rec.published)
  <2>1. op' = [op EXCEPT !.pc = IF rec.backup THEN "unbackup" ELSE "backup-cleaned"]
        /\ UNCHANGED <<at, stamp, rec, answer>>
    BY <1>1, <1>3 DEF Finalize, Steps, Go
  <2>2. op' \in [pc : Places, mode : Modes, ok : BOOLEAN]
        /\ op'.pc = (IF rec.backup THEN "unbackup" ELSE "backup-cleaned")
        /\ op'.mode = op.mode /\ op'.ok = op.ok
    BY <1>1, <2>1 DEF TypeOK, Places, Phases, Rollback
  <2>3. TypeOK'
    BY <1>1, <1>3, <2>1, <2>2 DEF TypeOK
  <2>4. Control'
    BY <1>1, <1>3, <2>1, <2>2
    DEF Control, Special, SpecialRun, FileRun, SpecialRecovery, FileRecovery, Restoring, Linked
  <2>5. Naming'
    BY <1>1, <1>3, <2>1, <2>2 DEF Naming, Special
  <2>6. Sound(rec)'
    BY <1>1, <1>3, <2>1, <2>2 DEF Sound
  <2>7. Sound(jrn)'
    BY <1>1, <1>3, <2>1, <2>2 DEF Sound
  <2>8. Renaming'
    BY <1>1, <1>3, <2>1, <2>2 DEF Renaming, Special, Completing, Linked, Forward
  <2>9. Evidence'
    BY <1>1, <1>3, <2>1, <2>2 DEF Evidence, Special, Before, Reserved, Unstaged, Unboxed
  <2>10. Journaled'
    BY <1>1, <1>3, <2>1, <2>2 DEF Journaled, Special, Reserved, Linked
  <2>11. Favorite'
    BY <1>1, <1>3, <2>1, <2>2
    DEF Favorite, TypeOK, Untold, Told, Completing, Special, Before, Reserved, Linked
  <2>12. Undoable'
    BY <1>1, <1>3, <2>1, <2>2 DEF Undoable, InPlace, Special, Reserved, Restoring
  <2>13. FailedClean'
    BY <1>1, <1>3, <2>1, <2>2 DEF FailedClean, InPlace, Control
  <2> QED  BY <2>3, <2>4, <2>5, <2>6, <2>7, <2>8, <2>9, <2>10, <2>11, <2>12, <2>13
<1> QED  BY <1>2, <1>3

LEMMA AbortSpecialStep ==
  ASSUME FilesInv, AbortSpecial, UNCHANGED <<job, whole, jrn, fav, bounds>> PROVE FilesInv'
<1> USE DEF FilesInv, bounds
<1>1. /\ op.pc = "abort" /\ op.mode \in {"abort", "recover"} /\ Special /\ rec # None
      /\ jrn # None /\ rec.published.ino = "src" /\ fav.path # "destination"
  BY PlaceLemma DEF AbortSpecial, Journaled, Renaming, Control, Favorite, Untold
<1>2. CASE /\ op.mode = "recover"
           /\ op' = [op EXCEPT !.pc = "conclude", !.ok = FALSE]
           /\ UNCHANGED <<at, stamp, rec, answer>>
  <2>1. op' \in [pc : Places, mode : Modes, ok : BOOLEAN]
        /\ op'.pc = "conclude" /\ op'.mode = "recover" /\ op'.ok = FALSE
    BY <1>2 DEF TypeOK, Places
  <2>2. TypeOK'
    BY <1>1, <1>2, <2>1 DEF TypeOK
  <2>3. Control'
    BY <1>1, <1>2, <2>1
    DEF Control, Special, SpecialRun, FileRun, SpecialRecovery, FileRecovery, Restoring, Linked
  <2>4. Naming'
    BY <1>1, <1>2, <2>1 DEF Naming, Special
  <2>5. Sound(rec)'
    BY <1>1, <1>2, <2>1 DEF Sound
  <2>6. Sound(jrn)'
    BY <1>1, <1>2, <2>1 DEF Sound
  <2>7. Renaming'
    BY <1>1, <1>2, <2>1 DEF Renaming, Special, Completing, Linked, Forward
  <2>8. Evidence'
    BY <1>1, <1>2, <2>1 DEF Evidence, Special, Before, Reserved, Unstaged, Unboxed
  <2>9. Journaled'
    BY <1>1, <1>2, <2>1 DEF Journaled, Special, Reserved, Linked
  <2>10. Favorite'
    BY <1>1, <1>2, <2>1
    DEF Favorite, TypeOK, Untold, Told, Completing, Special, Before, Reserved, Linked
  <2>11. Undoable'
    BY <1>1, <1>2, <2>1 DEF Undoable, InPlace, Special, Reserved, Restoring
  <2>12. FailedClean'
    BY <1>1, <1>2, <2>1 DEF FailedClean, InPlace, Control
  <2> QED  BY <2>2, <2>3, <2>4, <2>5, <2>6, <2>7, <2>8, <2>9, <2>10, <2>11, <2>12
<1>3. CASE op.mode = "abort" /\ GiveUp /\ UNCHANGED <<at, stamp, rec>>
  <2>1. op' \in [pc : Places, mode : Modes, ok : BOOLEAN]
        /\ op'.pc = "idle" /\ op'.mode = "ready" /\ answer' = "failed"
    BY <1>3 DEF TypeOK, Places, Modes, GiveUp
  <2>2. TypeOK'
    BY <1>1, <1>3, <2>1 DEF TypeOK
  <2>3. Control'
    BY <1>1, <1>3, <2>1
    DEF Control, Special, SpecialRun, FileRun, SpecialRecovery, FileRecovery, Restoring, Linked
  <2>4. Naming'
    BY <1>1, <1>3, <2>1 DEF Naming, Special
  <2>5. Sound(rec)'
    BY <1>1, <1>3, <2>1 DEF Sound
  <2>6. Sound(jrn)'
    BY <1>1, <1>3, <2>1 DEF Sound
  <2>7. Renaming'
    BY <1>1, <1>3, <2>1 DEF Renaming, Special, Completing, Linked, Forward
  <2>8. Evidence'
    BY <1>1, <1>3, <2>1 DEF Evidence, Special, Before, Reserved, Unstaged, Unboxed
  <2>9. Journaled'
    BY <1>1, <1>3, <2>1 DEF Journaled, Special, Reserved, Linked
  <2>10. Favorite'
    BY <1>1, <1>3, <2>1
    DEF Favorite, TypeOK, Untold, Told, Completing, Special, Before, Reserved, Linked
  <2>11. Undoable'
    BY <1>1, <1>3, <2>1 DEF Undoable, InPlace, Special, Reserved, Restoring
  <2>12. FailedClean'
    BY <1>1, <1>3, <2>1 DEF FailedClean, InPlace, Control
  <2> QED  BY <2>2, <2>3, <2>4, <2>5, <2>6, <2>7, <2>8, <2>9, <2>10, <2>11, <2>12
<1>4. CASE /\ Is("source", rec.source) /\ Is("destination", rec.published)
           /\ Unlink("destination")
           /\ rec' = [rec EXCEPT !.source = Id("source")', !.owned["destination"] = NoId,
                                 !.published = NoId]
           /\ Go("restore") /\ UNCHANGED answer
  <2>1. op' \in [pc : Places, mode : Modes, ok : BOOLEAN]
        /\ op'.pc = "restore" /\ op'.mode = op.mode /\ op'.ok = op.ok
    BY <1>4 DEF TypeOK, Places, Go, Rollback
  <2>2. rec \in Records /\ Recorded(rec, job, at["destination"], stamp)
    BY <1>1, RecLemma
  <2>3. at["source"] = "src" /\ at["destination"] = "src"
    BY <1>1, <1>4, <2>2, HostFilesAssumption DEF Is, Id, Recorded, Inodes
  <2>4. /\ at' \in [Paths -> Inodes \union {None}] /\ stamp' \in [Inodes -> Nat]
        /\ at'["destination"] = None /\ at'["source"] = "src" /\ at'["box"] = at["box"]
        /\ at'["stage"] = at["stage"] /\ at'["backup"] = at["backup"]
        /\ stamp'["src"] = stamp["src"] + 1 /\ stamp["src"] \in Nat
        /\ \A i \in Inodes : stamp[i] \in Nat /\ stamp[i] <= stamp'[i]
    BY <1>4, <2>3, UnlinkLemma DEF Paths, Inodes, TypeOK
  <2>5. Id("source")' = [ino |-> "src", stamp |-> stamp'["src"]]
    BY <2>4, HostFilesAssumption DEF Id, Inodes
  <2>6. /\ rec' \in Records /\ rec'.phase = rec.phase /\ rec'.backup = rec.backup
        /\ rec'.published = NoId /\ rec'.source = [ino |-> "src", stamp |-> stamp'["src"]]
        /\ rec'.owned["stage"] = rec.owned["stage"] /\ rec'.owned["box"] = rec.owned["box"]
        /\ rec'.owned["backup"] = rec.owned["backup"] /\ rec'.owned["destination"] = NoId
    <3> DEFINE id == [ino |-> "src", stamp |-> stamp'["src"]]
               o == [rec.owned EXCEPT !["destination"] = NoId]
    <3>1. NoId \in Ids /\ id \in Ids
      BY <2>4 DEF Ids, Inodes, NoId
    <3>2. o \in [Paths -> Ids]
      BY <2>2, <3>1 DEF Records
    <3>3. o["stage"] = rec.owned["stage"] /\ o["box"] = rec.owned["box"]
          /\ o["backup"] = rec.owned["backup"] /\ o["destination"] = NoId
      BY <2>2 DEF Records, Paths
    <3>4. rec' = [rec EXCEPT !.source = id, !.owned = o, !.published = NoId]
      BY <1>4, <2>2, <2>5 DEF Records
    <3> HIDE DEF id, o
    <3>5. rec' \in Records /\ rec'.phase = rec.phase /\ rec'.backup = rec.backup
          /\ rec'.published = NoId /\ rec'.source = id /\ rec'.owned = o
      BY <2>2, <3>1, <3>2, <3>4 DEF Records
    <3> QED  BY <3>3, <3>5 DEF id
  <2>7. rec' # None
    BY <2>6, HostFilesAssumption
  <2>8. \A i \in {"old", "src"} :
          at["destination"] = i => at'["destination"] = i \/ stamp[i] < stamp'[i]
    BY <2>3, <2>4
  <2>9. Recorded(rec, job, at'["destination"], stamp')
        /\ (jrn # None => Recorded(jrn, job, at'["destination"], stamp'))
    BY <2>2, <2>4, <2>8, RecordKept DEF TypeOK, Sound
  <2>10. Recorded(rec', job, at'["destination"], stamp')
    BY <1>1, <2>4, <2>6, <2>9, HostFilesAssumption DEF Recorded, Inodes, Special, NoId
  <2>11. TypeOK'
    BY <1>1, <1>4, <2>1, <2>2, <2>3, <2>4, <2>6, <2>7, <2>9, <2>10 DEF TypeOK
  <2>12. Control'
    BY <1>1, <1>4, <2>1, <2>2, <2>3, <2>4, <2>6, <2>7, <2>9, <2>10
    DEF Control, Special, SpecialRun, FileRun, SpecialRecovery, FileRecovery, Restoring, Linked
  <2>13. Naming'
    BY <1>1, <1>4, <2>1, <2>2, <2>3, <2>4, <2>6, <2>7, <2>9, <2>10, HostFilesAssumption
    DEF Naming, Special, Inodes
  <2>14. Sound(rec)'
    BY <1>1, <1>4, <2>1, <2>2, <2>3, <2>4, <2>6, <2>7, <2>9, <2>10 DEF Sound
  <2>15. Sound(jrn)'
    BY <1>1, <1>4, <2>1, <2>2, <2>3, <2>4, <2>6, <2>7, <2>9, <2>10 DEF Sound
  <2>16. Renaming'
    BY <1>1, <1>4, <2>1, <2>2, <2>3, <2>4, <2>6, <2>7, <2>9, <2>10
    DEF Renaming, Special, Completing, Linked, Forward
  <2>17. Evidence'
    BY <1>1, <1>4, <2>1, <2>2, <2>3, <2>4, <2>6, <2>7, <2>9, <2>10
    DEF Evidence, Special, Before, Reserved, Unstaged, Unboxed
  <2>18. Journaled'
    BY <1>1, <1>4, <2>1, <2>2, <2>3, <2>4, <2>6, <2>7, <2>9, <2>10
    DEF Journaled, Special, Reserved, Linked
  <2>19. Favorite'
    BY <1>1, <1>4, <2>1, <2>2, <2>3, <2>4, <2>6, <2>7, <2>9, <2>10
    DEF Favorite, TypeOK, Untold, Told, Completing, Special, Before, Reserved, Linked
  <2>20. Undoable'
    BY <1>1, <1>4, <2>1, <2>2, <2>3, <2>4, <2>6, <2>7, <2>9, <2>10
    DEF Undoable, InPlace, Special, Reserved, Restoring
  <2>21. FailedClean'
    BY <1>1, <1>4, <2>1, <2>2, <2>3, <2>4, <2>6, <2>7, <2>9, <2>10 DEF FailedClean, InPlace, Control
  <2> QED  BY <2>11, <2>12, <2>13, <2>14, <2>15, <2>16, <2>17, <2>18, <2>19, <2>20, <2>21
<1> QED  BY <1>1, <1>2, <1>3, <1>4 DEF AbortSpecial

-----------------------------------------------------------------------------
(* Rollback and recovery                                                    *)

(* What the removal of the new file under one of its names leaves            *)
LEMMA CleanedLemma ==
  ASSUME FilesInv, NEW p \in {"stage", "destination"}, op.pc \notin {"begin", "idle"}, ~ Special,
         at[p] \in {None, "new"}, p = "destination" => rec.published = NoId,
         IF at[p] = None THEN UNCHANGED <<at, stamp>> ELSE Unlink(p),
         rec' = Unowned(p), UNCHANGED <<job, jrn>>
  PROVE  /\ at' \in [Paths -> Inodes \union {None}] /\ stamp' \in [Inodes -> Nat]
         /\ at'[p] = None /\ \A q \in Paths \ {p} : at'[q] = at[q]
         /\ rec' \in Records /\ rec' # None
         /\ rec'.phase = rec.phase /\ rec'.backup = rec.backup /\ rec'.source = rec.source
         /\ Recorded(rec', job, at'["destination"], stamp')
         /\ (jrn # None => Recorded(jrn, job, at'["destination"], stamp'))
         /\ (rec.published = NoId \/ at[p] = None => rec'.published = rec.published)
         /\ (at'["destination"] = "new" /\ rec.owned["destination"] # NoId
               => rec'.owned["destination"] # NoId)
<1> USE DEF FilesInv
<1>1. /\ at' \in [Paths -> Inodes \union {None}] /\ stamp' \in [Inodes -> Nat]
      /\ at'[p] = None /\ \A q \in Paths \ {p} : at'[q] = at[q]
      /\ \A i \in Inodes : stamp[i] \in Nat /\ stamp[i] <= stamp'[i]
  <2>1. CASE at[p] = None
    BY <2>1 DEF TypeOK
  <2>2. CASE at[p] # None
    BY <2>2, UnlinkLemma DEF TypeOK, Paths, Inodes
  <2> QED  BY <2>1, <2>2
<1>2. /\ rec # None /\ rec \in Records /\ Recorded(rec, job, at["destination"], stamp)
      /\ \A q \in Paths : rec.owned[q] \in Ids
      /\ rec.published \in Ids /\ rec.source \in Ids
  BY RecLemma
<1>3. /\ rec' \in Records
      /\ rec'.phase = rec.phase /\ rec'.backup = rec.backup /\ rec'.source = rec.source
      /\ rec'.owned[p] = NoId
      /\ \A q \in Paths \ {p} :
           rec'.owned[q] = IF rec.owned[q] = Id(p) /\ at[p] # None /\ at[q] = at[p]
                           THEN Id(q)' ELSE rec.owned[q]
      /\ rec'.published = IF rec.published = Id(p) /\ rec.owned["destination"] = rec.published
                              /\ at[p] # None
                          THEN Id("destination")' ELSE rec.published
  BY <1>1, <1>2, UnownedLemma DEF Paths
<1>4. rec' # None
  BY <1>3, HostFilesAssumption
<1>5. \A i \in {"old", "src"} : at["destination"] = i => at'["destination"] = i
  BY <1>1, HostFilesAssumption DEF Paths, Inodes
<1>6. Recorded(rec, job, at'["destination"], stamp')
      /\ (jrn # None => Recorded(jrn, job, at'["destination"], stamp'))
  BY <1>1, <1>2, <1>5, RecordKept DEF TypeOK, Sound
<1>7. Id(p).ino = at[p] /\ (at[p] # None => Id(p) # NoId)
  BY IdLemma DEF Paths
<1>8. \A q \in Paths : Id(q)'.ino = at'[q] /\ (at'[q] # None => Id(q)'.stamp = stamp'[at'[q]])
  BY DEF Id
<1>9. rec.published = NoId \/ at[p] = None => rec'.published = rec.published
  BY <1>3, <1>7
<1>10. rec'.owned["box"] = rec.owned["box"] /\ rec'.owned["backup"] = rec.owned["backup"]
  BY <1>2, <1>3, <1>7, HostFilesAssumption DEF Recorded, Paths, Inodes
<1>11. \A q \in {"stage", "destination"} :
         \/ rec'.owned[q] = rec.owned[q] \/ rec'.owned[q] = NoId
         \/ rec'.owned[q] = [ino |-> "new", stamp |-> stamp'["new"]]
  <2> SUFFICES ASSUME NEW q \in {"stage", "destination"}, q # p, rec'.owned[q] = Id(q)', at[q] = "new"
               PROVE  rec'.owned[q] = [ino |-> "new", stamp |-> stamp'["new"]]
    BY <1>3 DEF Paths
  <2> QED  BY <1>1, HostFilesAssumption DEF Paths, Id, Inodes
<1>12. \/ rec'.published = rec.published
       \/ /\ rec'.published = Id("destination")' /\ p = "stage"
          /\ rec.owned["destination"].ino = "new"
  BY <1>3, <1>7, <1>9
<1>13. Recorded(rec', job, at'["destination"], stamp')
  <2>1. NoId.ino = None /\ NoId.stamp = 0 /\ stamp'["new"] \in Nat /\ stamp'["old"] \in Nat
    BY <1>1 DEF NoId, Inodes
  <2>2. job.kind # "special"
    BY DEF Special
  <2>3. rec'.published.ino = "old" =>
          /\ rec'.published.stamp <= stamp'["old"]
          /\ rec'.published.stamp = stamp'["old"] => at'["destination"] = "old"
    BY <1>6, <1>8, <1>12, <2>1, HostFilesAssumption DEF Recorded, Paths, Inodes
  <2>4. rec'.published = NoId => rec'.owned["destination"].ino \in {None, "new"}
    BY <1>2, <1>11, <1>12, <2>1, <2>2 DEF Recorded
  <2>5. rec'.owned["stage"].ino \in {None, "new"} /\ rec'.owned["stage"].stamp <= stamp'["new"]
    BY <1>6, <1>11, <2>1 DEF Recorded
  <2> QED  BY <1>3, <1>6, <1>10, <2>2, <2>3, <2>4, <2>5 DEF Recorded
<1>14. at'["destination"] = "new" /\ rec.owned["destination"] # NoId => rec'.owned["destination"] # NoId
  BY <1>1, <1>3, <1>8, HostFilesAssumption DEF NoId, Paths, Inodes
<1> QED  BY <1>1, <1>3, <1>4, <1>6, <1>9, <1>13, <1>14

LEMMA UndoStageStep ==
  ASSUME FilesInv, UndoStage, UNCHANGED <<job, whole, jrn, fav, answer, bounds>> PROVE FilesInv'
<1> USE DEF FilesInv, bounds
<1>1. op.pc = "undo-stage" /\ op.mode = "undo" /\ ~ Special
  BY PlaceLemma DEF UndoStage
<1>2. rec # None /\ rec \in Records /\ Recorded(rec, job, at["destination"], stamp)
  BY <1>1, RecLemma
<1>3. /\ AfterStage \in {"conclude", "undo-publication", "restore"}
      /\ AfterStage = "conclude" <=> rec.published # NoId
      /\ AfterStage = "restore" /\ job.kind = "copy" => rec.owned["destination"] = NoId
  BY DEF AfterStage, Undoes
<1>4. CASE op' = [op EXCEPT !.pc = AfterStage, !.ok = FALSE] /\ UNCHANGED <<at, stamp, rec>>
  <2>1. op' \in [pc : Places, mode : Modes, ok : BOOLEAN]
        /\ op'.pc = AfterStage /\ op'.mode = "undo" /\ op'.ok = FALSE
    BY <1>1, <1>3, <1>4 DEF TypeOK, Places, Rollback
  <2>2. TypeOK'
    BY <1>1, <1>2, <1>3, <1>4, <2>1 DEF TypeOK
  <2>3. Control'
    BY <1>1, <1>2, <1>3, <1>4, <2>1
    DEF Control, Special, SpecialRun, FileRun, SpecialRecovery, FileRecovery, Restoring, Linked
  <2>4. Naming'
    BY <1>1, <1>2, <1>3, <1>4, <2>1 DEF Naming, Special
  <2>5. Sound(rec)'
    BY <1>1, <1>2, <1>3, <1>4, <2>1 DEF Sound
  <2>6. Sound(jrn)'
    BY <1>1, <1>2, <1>3, <1>4, <2>1 DEF Sound
  <2>7. Renaming'
    BY <1>1, <1>2, <1>3, <1>4, <2>1 DEF Renaming, Special, Completing, Linked, Forward
  <2>8. Evidence'
    BY <1>1, <1>2, <1>3, <1>4, <2>1 DEF Evidence, Special, Before, Reserved, Unstaged, Unboxed
  <2>9. Journaled'
    BY <1>1, <1>2, <1>3, <1>4, <2>1 DEF Journaled, Special, Reserved, Linked
  <2>10. Favorite'
    BY <1>1, <1>2, <1>3, <1>4, <2>1
    DEF Favorite, TypeOK, Untold, Told, Completing, Special, Before, Reserved, Linked
  <2>11. Undoable'
    BY <1>1, <1>2, <1>3, <1>4, <2>1 DEF Undoable, InPlace, Special, Reserved, Restoring
  <2>12. FailedClean'
    BY <1>1, <1>2, <1>3, <1>4, <2>1 DEF FailedClean, InPlace, Control
  <2> QED  BY <2>2, <2>3, <2>4, <2>5, <2>6, <2>7, <2>8, <2>9, <2>10, <2>11, <2>12
<1>5. CASE /\ at["stage"] = None \/ rec.owned["stage"].ino = at["stage"]
           /\ IF at["stage"] = None THEN UNCHANGED <<at, stamp>> ELSE Unlink("stage")
           /\ rec' = Unowned("stage")
           /\ Go(AfterStage)
  <2>1. op' \in [pc : Places, mode : Modes, ok : BOOLEAN]
        /\ op'.pc = AfterStage /\ op'.mode = "undo" /\ op'.ok = op.ok
    BY <1>1, <1>3, <1>5 DEF TypeOK, Places, Rollback, Go
  <2>2. at["stage"] \in {None, "new"}
    BY <1>2, <1>5 DEF Recorded
  <2>3. /\ at' \in [Paths -> Inodes \union {None}] /\ stamp' \in [Inodes -> Nat]
        /\ at'["stage"] = None /\ \A q \in Paths \ {"stage"} : at'[q] = at[q]
        /\ rec' \in Records /\ rec' # None
        /\ rec'.phase = rec.phase /\ rec'.backup = rec.backup /\ rec'.source = rec.source
        /\ Recorded(rec', job, at'["destination"], stamp')
        /\ (jrn # None => Recorded(jrn, job, at'["destination"], stamp'))
        /\ (rec.published = NoId \/ at["stage"] = None => rec'.published = rec.published)
        /\ (at'["destination"] = "new" /\ rec.owned["destination"] # NoId
              => rec'.owned["destination"] # NoId)
    <3> HIDE DEF FilesInv
    <3> QED  BY <1>1, <1>5, <2>2, CleanedLemma
  <2>4. /\ at'["source"] = at["source"] /\ at'["destination"] = at["destination"]
        /\ at'["box"] = at["box"] /\ at'["backup"] = at["backup"]
    BY <2>3 DEF Paths
  <2>5. rec'.published = rec.published
    BY <1>1, <1>2, <2>3 DEF Undoable
  <2>6. TypeOK'
    BY <1>1, <1>2, <1>3, <2>1, <2>3, <2>4, <2>5 DEF TypeOK
  <2>7. Control'
    BY <1>1, <1>2, <1>3, <2>1, <2>3, <2>4, <2>5
    DEF Control, Special, SpecialRun, FileRun, SpecialRecovery, FileRecovery, Restoring, Linked
  <2>8. Naming'
    BY <1>1, <1>2, <1>3, <2>1, <2>3, <2>4, <2>5 DEF Naming, Special
  <2>9. Sound(rec)'
    BY <1>1, <1>2, <1>3, <2>1, <2>3, <2>4, <2>5 DEF Sound
  <2>10. Sound(jrn)'
    BY <1>1, <1>2, <1>3, <2>1, <2>3, <2>4, <2>5 DEF Sound
  <2>11. Renaming'
    BY <1>1, <1>2, <1>3, <2>1, <2>3, <2>4, <2>5 DEF Renaming, Special, Completing, Linked, Forward
  <2>12. Evidence'
    BY <1>1, <1>2, <1>3, <2>1, <2>3, <2>4, <2>5
    DEF Evidence, Special, Before, Reserved, Unstaged, Unboxed
  <2>13. Journaled'
    BY <1>1, <1>2, <1>3, <2>1, <2>3, <2>4, <2>5 DEF Journaled, Special, Reserved, Linked
  <2>14. Favorite'
    BY <1>1, <1>2, <1>3, <2>1, <2>3, <2>4, <2>5
    DEF Favorite, TypeOK, Untold, Told, Completing, Special, Before, Reserved, Linked
  <2>15. Undoable'
    BY <1>1, <1>2, <1>3, <2>1, <2>3, <2>4, <2>5 DEF Undoable, InPlace, Special, Reserved, Restoring
  <2>16. FailedClean'
    BY <1>1, <1>2, <1>3, <2>1, <2>3, <2>4, <2>5 DEF FailedClean, InPlace, Control
  <2> QED  BY <2>6, <2>7, <2>8, <2>9, <2>10, <2>11, <2>12, <2>13, <2>14, <2>15, <2>16
<1> QED  BY <1>4, <1>5 DEF UndoStage, Known, Is, Id

LEMMA UndoPublicationStep ==
  ASSUME FilesInv, UndoPublication, UNCHANGED <<job, whole, jrn, fav, answer, bounds>> PROVE FilesInv'
<1> USE DEF FilesInv, bounds
<1>1. op.pc = "undo-publication" /\ op.mode = "undo" /\ ~ Special /\ rec.published = NoId
  BY PlaceLemma DEF UndoPublication, Journaled
<1>2. rec # None /\ rec \in Records /\ Recorded(rec, job, at["destination"], stamp)
  BY <1>1, RecLemma
<1>3. CASE op' = [op EXCEPT !.pc = "restore", !.ok = FALSE] /\ UNCHANGED <<at, stamp, rec>>
  <2>1. op' \in [pc : Places, mode : Modes, ok : BOOLEAN]
        /\ op'.pc = "restore" /\ op'.mode = "undo" /\ op'.ok = FALSE
    BY <1>1, <1>3 DEF TypeOK, Places, Rollback
  <2>2. TypeOK'
    BY <1>1, <1>2, <1>3, <2>1 DEF TypeOK
  <2>3. Control'
    BY <1>1, <1>2, <1>3, <2>1
    DEF Control, Special, SpecialRun, FileRun, SpecialRecovery, FileRecovery, Restoring, Linked
  <2>4. Naming'
    BY <1>1, <1>2, <1>3, <2>1 DEF Naming, Special
  <2>5. Sound(rec)'
    BY <1>1, <1>2, <1>3, <2>1 DEF Sound
  <2>6. Sound(jrn)'
    BY <1>1, <1>2, <1>3, <2>1 DEF Sound
  <2>7. Renaming'
    BY <1>1, <1>2, <1>3, <2>1 DEF Renaming, Special, Completing, Linked, Forward
  <2>8. Evidence'
    BY <1>1, <1>2, <1>3, <2>1 DEF Evidence, Special, Before, Reserved, Unstaged, Unboxed
  <2>9. Journaled'
    BY <1>1, <1>2, <1>3, <2>1 DEF Journaled, Special, Reserved, Linked
  <2>10. Favorite'
    BY <1>1, <1>2, <1>3, <2>1
    DEF Favorite, TypeOK, Untold, Told, Completing, Special, Before, Reserved, Linked
  <2>11. Undoable'
    BY <1>1, <1>2, <1>3, <2>1 DEF Undoable, InPlace, Special, Reserved, Restoring
  <2>12. FailedClean'
    BY <1>1, <1>2, <1>3, <2>1 DEF FailedClean, InPlace, Control
  <2> QED  BY <2>2, <2>3, <2>4, <2>5, <2>6, <2>7, <2>8, <2>9, <2>10, <2>11, <2>12
<1>4. CASE /\ Known("destination")
           /\ IF at["destination"] = None THEN UNCHANGED <<at, stamp>> ELSE Unlink("destination")
           /\ rec' = Unowned("destination")
           /\ Go("restore")
  <2>1. op' \in [pc : Places, mode : Modes, ok : BOOLEAN]
        /\ op'.pc = "restore" /\ op'.mode = "undo" /\ op'.ok = op.ok
    BY <1>1, <1>4 DEF TypeOK, Places, Rollback, Go
  <2>2. at["destination"] \in {None, "new"}
    BY <1>1, <1>2, <1>4 DEF Recorded, Known, Is, Id, Special
  <2>3. /\ at' \in [Paths -> Inodes \union {None}] /\ stamp' \in [Inodes -> Nat]
        /\ at'["destination"] = None /\ \A q \in Paths \ {"destination"} : at'[q] = at[q]
        /\ rec' \in Records /\ rec' # None
        /\ rec'.phase = rec.phase /\ rec'.backup = rec.backup /\ rec'.source = rec.source
        /\ Recorded(rec', job, at'["destination"], stamp')
        /\ (jrn # None => Recorded(jrn, job, at'["destination"], stamp'))
        /\ (rec.published = NoId \/ at["destination"] = None => rec'.published = rec.published)
    <3> HIDE DEF FilesInv
    <3> QED  BY <1>1, <1>4, <2>2, CleanedLemma
  <2>4. /\ at'["source"] = at["source"] /\ at'["stage"] = at["stage"]
        /\ at'["box"] = at["box"] /\ at'["backup"] = at["backup"]
        /\ rec'.published = NoId
    BY <1>1, <2>3 DEF Paths
  <2>5. at'["destination"] # "new" /\ None \notin Inodes
    BY <2>3, HostFilesAssumption DEF Inodes
  <2>6. TypeOK'
    BY <1>1, <1>2, <2>1, <2>2, <2>3, <2>4, <2>5 DEF TypeOK
  <2>7. Control'
    BY <1>1, <1>2, <2>1, <2>2, <2>3, <2>4, <2>5
    DEF Control, Special, SpecialRun, FileRun, SpecialRecovery, FileRecovery, Restoring, Linked
  <2>8. Naming'
    BY <1>1, <1>2, <2>1, <2>2, <2>3, <2>4, <2>5 DEF Naming, Special, Inodes
  <2>9. Sound(rec)'
    BY <1>1, <1>2, <2>1, <2>2, <2>3, <2>4, <2>5 DEF Sound
  <2>10. Sound(jrn)'
    BY <1>1, <1>2, <2>1, <2>2, <2>3, <2>4, <2>5 DEF Sound
  <2>11. Renaming'
    BY <1>1, <1>2, <2>1, <2>2, <2>3, <2>4, <2>5 DEF Renaming, Special, Completing, Linked, Forward
  <2>12. Evidence'
    BY <1>1, <1>2, <2>1, <2>2, <2>3, <2>4, <2>5
    DEF Evidence, Special, Before, Reserved, Unstaged, Unboxed
  <2>13. Journaled'
    BY <1>1, <1>2, <2>1, <2>2, <2>3, <2>4, <2>5 DEF Journaled, Special, Reserved, Linked
  <2>14. Favorite'
    BY <1>1, <1>2, <2>1, <2>2, <2>3, <2>4, <2>5
    DEF Favorite, TypeOK, Untold, Told, Completing, Special, Before, Reserved, Linked
  <2>15. Undoable'
    BY <1>1, <1>2, <2>1, <2>2, <2>3, <2>4, <2>5
    DEF Undoable, InPlace, Special, Reserved, Restoring, Inodes
  <2>16. FailedClean'
    BY <1>1, <1>2, <2>1, <2>2, <2>3, <2>4, <2>5 DEF FailedClean, InPlace, Control
  <2> QED  BY <2>6, <2>7, <2>8, <2>9, <2>10, <2>11, <2>12, <2>13, <2>14, <2>15, <2>16
<1> QED  BY <1>3, <1>4 DEF UndoPublication, Clean

LEMMA RecoverStageStep ==
  ASSUME FilesInv, RecoverStage, UNCHANGED <<job, whole, jrn, fav, answer, bounds>> PROVE FilesInv'
<1> USE DEF FilesInv, bounds
<1>1. op.pc = "recover-stage" /\ op.mode = "recover" /\ ~ Special /\ jrn # None
  BY PlaceLemma DEF RecoverStage, Journaled
<1>2. rec # None /\ rec \in Records /\ Recorded(rec, job, at["destination"], stamp)
  BY <1>1, RecLemma
<1>3. CASE op' = [op EXCEPT !.pc = "recovery-stage-cleaned", !.ok = FALSE] /\ UNCHANGED <<at, stamp, rec>>
  <2>1. op' \in [pc : Places, mode : Modes, ok : BOOLEAN]
        /\ op'.pc = "recovery-stage-cleaned" /\ op'.mode = "recover" /\ op'.ok = FALSE
    BY <1>1, <1>3 DEF TypeOK, Places, Phases
  <2>2. TypeOK'
    BY <1>1, <1>2, <1>3, <2>1 DEF TypeOK
  <2>3. Control'
    BY <1>1, <1>2, <1>3, <2>1
    DEF Control, Special, SpecialRun, FileRun, SpecialRecovery, FileRecovery, Restoring, Linked
  <2>4. Naming'
    BY <1>1, <1>2, <1>3, <2>1 DEF Naming, Special
  <2>5. Sound(rec)'
    BY <1>1, <1>2, <1>3, <2>1 DEF Sound
  <2>6. Sound(jrn)'
    BY <1>1, <1>2, <1>3, <2>1 DEF Sound
  <2>7. Renaming'
    BY <1>1, <1>2, <1>3, <2>1 DEF Renaming, Special, Completing, Linked, Forward
  <2>8. Evidence'
    BY <1>1, <1>2, <1>3, <2>1 DEF Evidence, Special, Before, Reserved, Unstaged, Unboxed
  <2>9. Journaled'
    BY <1>1, <1>2, <1>3, <2>1 DEF Journaled, Special, Reserved, Linked
  <2>10. Favorite'
    BY <1>1, <1>2, <1>3, <2>1
    DEF Favorite, TypeOK, Untold, Told, Completing, Special, Before, Reserved, Linked
  <2>11. Undoable'
    BY <1>1, <1>2, <1>3, <2>1 DEF Undoable, InPlace, Special, Reserved, Restoring
  <2>12. FailedClean'
    BY <1>1, <1>2, <1>3, <2>1 DEF FailedClean, InPlace, Control
  <2> QED  BY <2>2, <2>3, <2>4, <2>5, <2>6, <2>7, <2>8, <2>9, <2>10, <2>11, <2>12
<1>4. CASE /\ Known("stage")
           /\ IF at["stage"] = None THEN UNCHANGED <<at, stamp>> ELSE Unlink("stage")
           /\ rec' = Unowned("stage")
           /\ Go("recovery-stage-cleaned")
  <2>1. op' \in [pc : Places, mode : Modes, ok : BOOLEAN]
        /\ op'.pc = "recovery-stage-cleaned" /\ op'.mode = "recover" /\ op'.ok = op.ok
    BY <1>1, <1>4 DEF TypeOK, Places, Phases, Go
  <2>2. at["stage"] \in {None, "new"}
    BY <1>2, <1>4 DEF Recorded, Known, Is, Id
  <2>3. /\ at' \in [Paths -> Inodes \union {None}] /\ stamp' \in [Inodes -> Nat]
        /\ at'["stage"] = None /\ \A q \in Paths \ {"stage"} : at'[q] = at[q]
        /\ rec' \in Records /\ rec' # None
        /\ rec'.phase = rec.phase /\ rec'.backup = rec.backup /\ rec'.source = rec.source
        /\ Recorded(rec', job, at'["destination"], stamp')
        /\ (jrn # None => Recorded(jrn, job, at'["destination"], stamp'))
    <3> HIDE DEF FilesInv
    <3> QED  BY <1>1, <1>4, <2>2, CleanedLemma
  <2>4. /\ at'["source"] = at["source"] /\ at'["destination"] = at["destination"]
        /\ at'["box"] = at["box"] /\ at'["backup"] = at["backup"]
    BY <2>3 DEF Paths
  <2>5. TypeOK'
    BY <1>1, <1>2, <2>1, <2>3, <2>4 DEF TypeOK
  <2>6. Control'
    BY <1>1, <1>2, <2>1, <2>3, <2>4
    DEF Control, Special, SpecialRun, FileRun, SpecialRecovery, FileRecovery, Restoring, Linked
  <2>7. Naming'
    BY <1>1, <1>2, <2>1, <2>3, <2>4 DEF Naming, Special
  <2>8. Sound(rec)'
    BY <1>1, <1>2, <2>1, <2>3, <2>4 DEF Sound
  <2>9. Sound(jrn)'
    BY <1>1, <1>2, <2>1, <2>3, <2>4 DEF Sound
  <2>10. Renaming'
    BY <1>1, <1>2, <2>1, <2>3, <2>4 DEF Renaming, Special, Completing, Linked, Forward
  <2>11. Evidence'
    BY <1>1, <1>2, <2>1, <2>3, <2>4 DEF Evidence, Special, Before, Reserved, Unstaged, Unboxed
  <2>12. Journaled'
    BY <1>1, <1>2, <2>1, <2>3, <2>4 DEF Journaled, Special, Reserved, Linked
  <2>13. Favorite'
    BY <1>1, <1>2, <2>1, <2>3, <2>4
    DEF Favorite, TypeOK, Untold, Told, Completing, Special, Before, Reserved, Linked
  <2>14. Undoable'
    BY <1>1, <1>2, <2>1, <2>3, <2>4 DEF Undoable, InPlace, Special, Reserved, Restoring
  <2>15. FailedClean'
    BY <1>1, <1>2, <2>1, <2>3, <2>4 DEF FailedClean, InPlace, Control
  <2> QED  BY <2>5, <2>6, <2>7, <2>8, <2>9, <2>10, <2>11, <2>12, <2>13, <2>14, <2>15
<1> QED  BY <1>3, <1>4 DEF RecoverStage, Clean

LEMMA RecoverPublicationStep ==
  ASSUME FilesInv, RecoverPublication, UNCHANGED <<job, whole, jrn, fav, answer, bounds>> PROVE FilesInv'
<1> USE DEF FilesInv, bounds
<1>1. op.pc = "recover-publication" /\ op.mode = "recover" /\ ~ Special /\ jrn # None
      /\ rec.published = NoId
  BY PlaceLemma DEF RecoverPublication, Journaled
<1>2. rec # None /\ rec \in Records /\ Recorded(rec, job, at["destination"], stamp)
  BY <1>1, RecLemma
<1>3. CASE op' = [op EXCEPT !.pc = "conclude", !.ok = FALSE] /\ UNCHANGED <<at, stamp, rec>>
  <2>1. op' \in [pc : Places, mode : Modes, ok : BOOLEAN]
        /\ op'.pc = "conclude" /\ op'.mode = "recover" /\ op'.ok = FALSE
    BY <1>1, <1>3 DEF TypeOK, Places
  <2>2. TypeOK'
    BY <1>1, <1>2, <1>3, <2>1 DEF TypeOK
  <2>3. Control'
    BY <1>1, <1>2, <1>3, <2>1
    DEF Control, Special, SpecialRun, FileRun, SpecialRecovery, FileRecovery, Restoring, Linked
  <2>4. Naming'
    BY <1>1, <1>2, <1>3, <2>1 DEF Naming, Special
  <2>5. Sound(rec)'
    BY <1>1, <1>2, <1>3, <2>1 DEF Sound
  <2>6. Sound(jrn)'
    BY <1>1, <1>2, <1>3, <2>1 DEF Sound
  <2>7. Renaming'
    BY <1>1, <1>2, <1>3, <2>1 DEF Renaming, Special, Completing, Linked, Forward
  <2>8. Evidence'
    BY <1>1, <1>2, <1>3, <2>1 DEF Evidence, Special, Before, Reserved, Unstaged, Unboxed
  <2>9. Journaled'
    BY <1>1, <1>2, <1>3, <2>1 DEF Journaled, Special, Reserved, Linked
  <2>10. Favorite'
    BY <1>1, <1>2, <1>3, <2>1
    DEF Favorite, TypeOK, Untold, Told, Completing, Special, Before, Reserved, Linked
  <2>11. Undoable'
    BY <1>1, <1>2, <1>3, <2>1 DEF Undoable, InPlace, Special, Reserved, Restoring
  <2>12. FailedClean'
    BY <1>1, <1>2, <1>3, <2>1 DEF FailedClean, InPlace, Control
  <2> QED  BY <2>2, <2>3, <2>4, <2>5, <2>6, <2>7, <2>8, <2>9, <2>10, <2>11, <2>12
<1>4. CASE /\ Known("destination")
           /\ IF at["destination"] = None THEN UNCHANGED <<at, stamp>> ELSE Unlink("destination")
           /\ rec' = Unowned("destination")
           /\ Go("recovery-destination-cleaned")
  <2>1. op' \in [pc : Places, mode : Modes, ok : BOOLEAN]
        /\ op'.pc = "recovery-destination-cleaned" /\ op'.mode = "recover" /\ op'.ok = op.ok
    BY <1>1, <1>4 DEF TypeOK, Places, Phases, Go
  <2>2. at["destination"] \in {None, "new"}
    BY <1>1, <1>2, <1>4 DEF Recorded, Known, Is, Id, Special
  <2>3. /\ at' \in [Paths -> Inodes \union {None}] /\ stamp' \in [Inodes -> Nat]
        /\ at'["destination"] = None /\ \A q \in Paths \ {"destination"} : at'[q] = at[q]
        /\ rec' \in Records /\ rec' # None
        /\ rec'.phase = rec.phase /\ rec'.backup = rec.backup /\ rec'.source = rec.source
        /\ Recorded(rec', job, at'["destination"], stamp')
        /\ (jrn # None => Recorded(jrn, job, at'["destination"], stamp'))
    <3> HIDE DEF FilesInv
    <3> QED  BY <1>1, <1>4, <2>2, CleanedLemma
  <2>4. /\ at'["source"] = at["source"] /\ at'["stage"] = at["stage"]
        /\ at'["box"] = at["box"] /\ at'["backup"] = at["backup"]
    BY <2>3 DEF Paths
  <2>5. at'["destination"] \notin {"new", "src", "old"}
    BY <2>3, HostFilesAssumption DEF Inodes
  <2>6. TypeOK'
    BY <1>1, <1>2, <2>1, <2>2, <2>3, <2>4, <2>5 DEF TypeOK
  <2>7. Control'
    BY <1>1, <1>2, <2>1, <2>2, <2>3, <2>4, <2>5
    DEF Control, Special, SpecialRun, FileRun, SpecialRecovery, FileRecovery, Restoring, Linked
  <2>8. Naming'
    BY <1>1, <1>2, <2>1, <2>2, <2>3, <2>4, <2>5, HostFilesAssumption DEF Naming, Special, Inodes
  <2>9. Sound(rec)'
    BY <1>1, <1>2, <2>1, <2>2, <2>3, <2>4, <2>5 DEF Sound
  <2>10. Sound(jrn)'
    BY <1>1, <1>2, <2>1, <2>2, <2>3, <2>4, <2>5 DEF Sound
  <2>11. Renaming'
    BY <1>1, <1>2, <2>1, <2>2, <2>3, <2>4, <2>5 DEF Renaming, Special, Completing, Linked, Forward
  <2>12. Evidence'
    BY <1>1, <1>2, <2>1, <2>2, <2>3, <2>4, <2>5
    DEF Evidence, Special, Before, Reserved, Unstaged, Unboxed
  <2>13. Journaled'
    BY <1>1, <1>2, <2>1, <2>2, <2>3, <2>4, <2>5 DEF Journaled, Special, Reserved, Linked
  <2>14. Favorite'
    BY <1>1, <1>2, <2>1, <2>2, <2>3, <2>4, <2>5
    DEF Favorite, TypeOK, Untold, Told, Completing, Special, Before, Reserved, Linked
  <2>15. Undoable'
    BY <1>1, <1>2, <2>1, <2>2, <2>3, <2>4, <2>5 DEF Undoable, InPlace, Special, Reserved, Restoring
  <2>16. FailedClean'
    BY <1>1, <1>2, <2>1, <2>2, <2>3, <2>4, <2>5 DEF FailedClean, InPlace, Control
  <2> QED  BY <2>6, <2>7, <2>8, <2>9, <2>10, <2>11, <2>12, <2>13, <2>14, <2>15, <2>16
<1> QED  BY <1>3, <1>4 DEF RecoverPublication, Clean

LEMMA RestoreStep ==
  ASSUME FilesInv, Restore, UNCHANGED <<job, whole, jrn, fav, answer, bounds>> PROVE FilesInv'
<1> USE DEF FilesInv, bounds
<1>1. op.pc = "restore" /\ op.mode \in {"undo", "abort", "recover"} /\ (op.mode # "undo" => jrn # None)
  BY PlaceLemma DEF Restore, Journaled
<1>2. rec # None /\ rec \in Records /\ Recorded(rec, job, at["destination"], stamp)
  BY <1>1, RecLemma
<1>3. CASE /\ op' = [op EXCEPT !.pc = "conclude", !.ok = FALSE] /\ rec.backup
           /\ UNCHANGED <<at, stamp, rec>>
  <2>1. op' \in [pc : Places, mode : Modes, ok : BOOLEAN]
        /\ op'.pc = "conclude" /\ op'.mode = op.mode /\ op'.ok = FALSE
    BY <1>1, <1>3 DEF TypeOK, Places
  <2>2. TypeOK'
    BY <1>1, <1>2, <1>3, <2>1 DEF TypeOK
  <2>3. Control'
    BY <1>1, <1>2, <1>3, <2>1
    DEF Control, Special, SpecialRun, FileRun, SpecialRecovery, FileRecovery, Restoring, Linked
  <2>4. Naming'
    BY <1>1, <1>2, <1>3, <2>1 DEF Naming, Special
  <2>5. Sound(rec)'
    BY <1>1, <1>2, <1>3, <2>1 DEF Sound
  <2>6. Sound(jrn)'
    BY <1>1, <1>2, <1>3, <2>1 DEF Sound
  <2>7. Renaming'
    BY <1>1, <1>2, <1>3, <2>1 DEF Renaming, Special, Completing, Linked, Forward
  <2>8. Evidence'
    BY <1>1, <1>2, <1>3, <2>1 DEF Evidence, Special, Before, Reserved, Unstaged, Unboxed
  <2>9. Journaled'
    BY <1>1, <1>2, <1>3, <2>1 DEF Journaled, Special, Reserved, Linked
  <2>10. Favorite'
    BY <1>1, <1>2, <1>3, <2>1
    DEF Favorite, TypeOK, Untold, Told, Completing, Special, Before, Reserved, Linked
  <2>11. Undoable'
    BY <1>1, <1>2, <1>3, <2>1 DEF Undoable, InPlace, Special, Reserved, Restoring
  <2>12. FailedClean'
    BY <1>1, <1>2, <1>3, <2>1 DEF FailedClean, InPlace, Control
  <2> QED  BY <2>2, <2>3, <2>4, <2>5, <2>6, <2>7, <2>8, <2>9, <2>10, <2>11, <2>12
<1>4. CASE op' = [op EXCEPT !.pc = "conclude"] /\ ~ rec.backup /\ UNCHANGED <<at, stamp, rec>>
  <2>1. op' \in [pc : Places, mode : Modes, ok : BOOLEAN]
        /\ op'.pc = "conclude" /\ op'.mode = op.mode /\ op'.ok = op.ok
    BY <1>1, <1>4 DEF TypeOK, Places
  <2>2. TypeOK'
    BY <1>1, <1>2, <1>4, <2>1 DEF TypeOK
  <2>3. Control'
    BY <1>1, <1>2, <1>4, <2>1
    DEF Control, Special, SpecialRun, FileRun, SpecialRecovery, FileRecovery, Restoring, Linked
  <2>4. Naming'
    BY <1>1, <1>2, <1>4, <2>1 DEF Naming, Special
  <2>5. Sound(rec)'
    BY <1>1, <1>2, <1>4, <2>1 DEF Sound
  <2>6. Sound(jrn)'
    BY <1>1, <1>2, <1>4, <2>1 DEF Sound
  <2>7. Renaming'
    BY <1>1, <1>2, <1>4, <2>1 DEF Renaming, Special, Completing, Linked, Forward
  <2>8. Evidence'
    BY <1>1, <1>2, <1>4, <2>1 DEF Evidence, Special, Before, Reserved, Unstaged, Unboxed
  <2>9. Journaled'
    BY <1>1, <1>2, <1>4, <2>1 DEF Journaled, Special, Reserved, Linked
  <2>10. Favorite'
    BY <1>1, <1>2, <1>4, <2>1
    DEF Favorite, TypeOK, Untold, Told, Completing, Special, Before, Reserved, Linked
  <2>11. Undoable'
    BY <1>1, <1>2, <1>4, <2>1 DEF Undoable, InPlace, Special, Reserved, Restoring
  <2>12. FailedClean'
    BY <1>1, <1>2, <1>4, <2>1 DEF FailedClean, InPlace, Control
  <2> QED  BY <2>2, <2>3, <2>4, <2>5, <2>6, <2>7, <2>8, <2>9, <2>10, <2>11, <2>12
<1>5. CASE /\ rec.backup /\ Restorable
           /\ Bind("destination", at["backup"])
           /\ rec' = [Remembering(rec, {"backup", "box", "destination"}) EXCEPT
                        !.published = Id("destination")']
           /\ Go("restored")
  <2>1. op' \in [pc : Places, mode : Modes, ok : BOOLEAN]
        /\ op'.pc = "restored" /\ op'.mode = op.mode /\ op'.ok = op.ok
    BY <1>1, <1>5 DEF TypeOK, Places, Phases, Go
  <2>2. at["backup"] = "old" /\ at["destination"] = None /\ job.replace
    BY <1>2, <1>5, HostFilesAssumption DEF Restorable, Is, Id, Recorded, Inodes
  <2>3. /\ at' \in [Paths -> Inodes \union {None}] /\ stamp' \in [Inodes -> Nat]
        /\ at'["destination"] = "old" /\ at'["source"] = at["source"] /\ at'["box"] = at["box"]
        /\ at'["stage"] = at["stage"] /\ at'["backup"] = "old"
        /\ \A i \in Inodes : stamp[i] \in Nat /\ stamp[i] <= stamp'[i]
    BY <1>5, <2>2, BindLemma DEF Paths, Inodes, TypeOK
  <2>4. /\ Id("destination")' = [ino |-> "old", stamp |-> stamp'["old"]]
        /\ Id("backup")' = [ino |-> "old", stamp |-> stamp'["old"]]
        /\ Id("box")'.ino = at["box"]
    BY <2>3, HostFilesAssumption DEF Id, Inodes
  <2>5. /\ rec' \in Records /\ rec'.phase = rec.phase /\ rec'.backup = rec.backup
        /\ rec'.published = [ino |-> "old", stamp |-> stamp'["old"]]
        /\ rec'.source = rec.source
        /\ rec'.owned["stage"] = rec.owned["stage"] /\ rec'.owned["box"].ino = at["box"]
        /\ rec'.owned["backup"] = [ino |-> "old", stamp |-> stamp'["old"]]
        /\ rec'.owned["destination"] = [ino |-> "old", stamp |-> stamp'["old"]]
    <3> DEFINE m == Remembering(rec, {"backup", "box", "destination"})
               id == [ino |-> "old", stamp |-> stamp'["old"]]
    <3>1. /\ m \in Records /\ m.phase = rec.phase /\ m.backup = rec.backup /\ m.source = rec.source
          /\ \A p \in Paths \ {"backup", "box", "destination"} : m.owned[p] = rec.owned[p]
          /\ \A p \in Paths \intersect {"backup", "box", "destination"} : m.owned[p] = Id(p)'
      BY <1>2, <2>3, RememberLemma
    <3>2. rec' = [m EXCEPT !.published = id]
      BY <1>5, <2>4
    <3>3. id \in Ids
      BY <2>3 DEF Ids, Inodes
    <3> HIDE DEF m, id
    <3>4. rec' \in Records /\ rec'.phase = m.phase /\ rec'.backup = m.backup /\ rec'.owned = m.owned
          /\ rec'.source = m.source /\ rec'.published = id
      BY <3>1, <3>2, <3>3 DEF Records
    <3>5. m.owned["stage"] = rec.owned["stage"] /\ m.owned["box"] = Id("box")'
          /\ m.owned["backup"] = Id("backup")' /\ m.owned["destination"] = Id("destination")'
      BY <3>1 DEF Paths
    <3> QED  BY <2>4, <3>1, <3>4, <3>5 DEF id
  <2>6. rec' # None /\ rec'.published # NoId
    BY <2>5, HostFilesAssumption DEF NoId, Inodes
  <2>7. \A i \in {"old", "src"} : at["destination"] # i
    BY <2>2, HostFilesAssumption DEF Inodes
  <2>8. Recorded(rec, job, at'["destination"], stamp')
        /\ (jrn # None => Recorded(jrn, job, at'["destination"], stamp'))
    BY <1>2, <2>3, <2>7, RecordKept DEF TypeOK, Sound
  <2>9. Recorded(rec', job, at'["destination"], stamp')
    BY <2>2, <2>3, <2>5, <2>6, <2>8 DEF Recorded, Inodes, Naming
  <2>10. TypeOK'
    BY <1>1, <1>2, <1>5, <2>1, <2>2, <2>3, <2>5, <2>6, <2>8, <2>9 DEF TypeOK
  <2>11. Control'
    BY <1>1, <1>2, <1>5, <2>1, <2>2, <2>3, <2>5, <2>6, <2>8, <2>9
    DEF Control, Special, SpecialRun, FileRun, SpecialRecovery, FileRecovery, Restoring, Linked
  <2>12. Naming'
    BY <1>1, <1>2, <1>5, <2>1, <2>2, <2>3, <2>5, <2>6, <2>8, <2>9 DEF Naming, Special
  <2>13. Sound(rec)'
    BY <1>1, <1>2, <1>5, <2>1, <2>2, <2>3, <2>5, <2>6, <2>8, <2>9 DEF Sound
  <2>14. Sound(jrn)'
    BY <1>1, <1>2, <1>5, <2>1, <2>2, <2>3, <2>5, <2>6, <2>8, <2>9 DEF Sound
  <2>15. Renaming'
    BY <1>1, <1>2, <1>5, <2>1, <2>2, <2>3, <2>5, <2>6, <2>8, <2>9
    DEF Renaming, Special, Completing, Linked, Forward
  <2>16. Evidence'
    BY <1>1, <1>2, <1>5, <2>1, <2>2, <2>3, <2>5, <2>6, <2>8, <2>9, ZenonT(60)
    DEF Evidence, Special, Before, Reserved, Unstaged, Unboxed
  <2>17. Journaled'
    BY <1>1, <1>2, <1>5, <2>1, <2>2, <2>3, <2>5, <2>6, <2>8, <2>9
    DEF Journaled, Special, Reserved, Linked
  <2>18. Favorite'
    BY <1>1, <1>2, <1>5, <2>1, <2>2, <2>3, <2>5, <2>6, <2>8, <2>9, HostFilesAssumption
    DEF Favorite, TypeOK, Untold, Told, Completing, Special, Before, Reserved, Linked, Inodes
  <2>19. Undoable'
    BY <1>1, <1>2, <1>5, <2>1, <2>2, <2>3, <2>5, <2>6, <2>8, <2>9
    DEF Undoable, InPlace, Special, Reserved, Restoring
  <2>20. FailedClean'
    BY <1>1, <1>2, <1>5, <2>1, <2>2, <2>3, <2>5, <2>6, <2>8, <2>9 DEF FailedClean, InPlace, Control
  <2> QED  BY <2>10, <2>11, <2>12, <2>13, <2>14, <2>15, <2>16, <2>17, <2>18, <2>19, <2>20
<1> QED  BY <1>3, <1>4, <1>5 DEF Restore, Go

(* Where the removal of the container leads                                  *)
BoxedNext ==
  CASE op.mode = "run" /\ Special -> "backup-cleaned"
    [] op.mode = "run" /\ ~ Special -> "finish"
    [] op.mode = "recover" /\ rec.phase = "source-unlinked" -> "backup-cleaned"
    [] op.mode # "run" /\ rec.phase = "restored" -> "restore-backup-cleaned"
    [] OTHER -> "conclude"

LEMMA BoxedLemma ==
  ASSUME FilesInv, op.pc \in {"unbackup", "unbox"}
  PROVE  /\ op.mode = "run" /\ Special => BoxedNext = "backup-cleaned"
         /\ op.mode = "run" /\ ~ Special => BoxedNext = "finish"
         /\ op.mode = "recover" /\ rec.phase = "source-unlinked" =>
              Special /\ BoxedNext = "backup-cleaned"
         /\ op.mode \in {"undo", "abort"} \/ (op.mode = "recover" /\ rec.phase # "source-unlinked") =>
              BoxedNext \in {"restore-backup-cleaned", "conclude"}
         /\ Boxed(TRUE) <=> Go(BoxedNext) /\ UNCHANGED answer
         /\ Boxed(FALSE) => \/ op.mode = "run" /\ Throw
                            \/ /\ op.mode # "run" /\ UNCHANGED answer
                               /\ op' = [op EXCEPT !.pc = IF BoxedNext = "backup-cleaned"
                                                          THEN "conclude" ELSE BoxedNext, !.ok = FALSE]
<1>1. rec # None
  BY DEF FilesInv, Control
<1>2. op.mode = "recover" /\ rec.phase = "source-unlinked" => Special
  BY <1>1 DEF FilesInv, Renaming
<1>3. Boxed(TRUE) <=> Go(BoxedNext) /\ UNCHANGED answer
  BY DEF Boxed, BoxedNext
<1>4. Boxed(FALSE) => \/ op.mode = "run" /\ Throw
                      \/ /\ op.mode # "run" /\ UNCHANGED answer
                         /\ op' = [op EXCEPT !.pc = IF BoxedNext = "backup-cleaned"
                                                    THEN "conclude" ELSE BoxedNext, !.ok = FALSE]
  BY DEF Boxed, BoxedNext
<1>5. op.mode = "run" /\ Special => BoxedNext = "backup-cleaned"
  BY DEF BoxedNext, Special
<1>6. op.mode = "run" /\ ~ Special => BoxedNext = "finish"
  BY DEF BoxedNext, Special
<1>7. op.mode = "recover" /\ rec.phase = "source-unlinked" => BoxedNext = "backup-cleaned"
  BY DEF BoxedNext
<1>8. ASSUME op.mode \in {"undo", "abort"} \/ (op.mode = "recover" /\ rec.phase # "source-unlinked")
      PROVE  BoxedNext \in {"restore-backup-cleaned", "conclude"}
  BY <1>8 DEF BoxedNext
<1> QED  BY <1>2, <1>3, <1>4, <1>5, <1>6, <1>7, <1>8

(* A container that cannot be removed                                        *)
LEMMA BoxKeptStep ==
  ASSUME FilesInv, op.pc \in {"unbackup", "unbox"}, Boxed(FALSE),
         UNCHANGED <<job, disk, rec, jrn, fav, bounds>>
  PROVE  FilesInv'
<1> USE DEF FilesInv, disk, bounds
<1>1. CASE op.mode = "run" /\ Throw
  BY <1>1, RefusedStep
<1>2. CASE /\ op.mode # "run" /\ UNCHANGED answer
           /\ op' = [op EXCEPT !.pc = IF BoxedNext = "backup-cleaned"
                                      THEN "conclude" ELSE BoxedNext, !.ok = FALSE]
  <2>1. /\ op.mode \in {"undo", "abort", "recover"} /\ rec # None /\ (op.mode # "undo" => jrn # None)
        /\ (op.mode = "undo" => rec.published # NoId)
    BY <1>2, PlaceLemma DEF Control, Journaled
  <2>2. BoxedNext \in {"restore-backup-cleaned", "conclude", "backup-cleaned"}
    BY <2>1, BoxedLemma
  <2>3. op' \in [pc : Places, mode : Modes, ok : BOOLEAN]
        /\ op'.pc \in {"restore-backup-cleaned", "conclude"} /\ op'.mode = op.mode /\ op'.ok = FALSE
    BY <1>2, <2>2 DEF TypeOK, Places, Rollback
  <2>4. rec \in Records /\ Recorded(rec, job, at["destination"], stamp)
    BY RecLemma
  <2>5. TypeOK'
    BY <1>2, <2>1, <2>3, <2>4 DEF TypeOK
  <2>6. Control'
    BY <1>2, <2>1, <2>3, <2>4
    DEF Control, Special, SpecialRun, FileRun, SpecialRecovery, FileRecovery, Restoring, Linked
  <2>7. Naming'
    BY <1>2, <2>1, <2>3, <2>4 DEF Naming, Special
  <2>8. Sound(rec)'
    BY <1>2, <2>1, <2>3, <2>4 DEF Sound
  <2>9. Sound(jrn)'
    BY <1>2, <2>1, <2>3, <2>4 DEF Sound
  <2>10. Renaming'
    BY <1>2, <2>1, <2>3, <2>4 DEF Renaming, Special, Completing, Linked, Forward
  <2>11. Evidence'
    BY <1>2, <2>1, <2>3, <2>4 DEF Evidence, Special, Before, Reserved, Unstaged, Unboxed
  <2>12. Journaled'
    BY <1>2, <2>1, <2>3, <2>4 DEF Journaled, Special, Reserved, Linked
  <2>13. Favorite'
    BY <1>2, <2>1, <2>3, <2>4
    DEF Favorite, TypeOK, Untold, Told, Completing, Special, Before, Reserved, Linked
  <2>14. Undoable'
    BY <1>2, <2>1, <2>3, <2>4 DEF Undoable, InPlace, Special, Reserved, Restoring
  <2>15. FailedClean'
    BY <1>2, <2>1, <2>3, <2>4 DEF FailedClean, InPlace, Control
  <2> QED  BY <2>5, <2>6, <2>7, <2>8, <2>9, <2>10, <2>11, <2>12, <2>13, <2>14, <2>15
<1> QED  BY <1>1, <1>2, BoxedLemma

LEMMA UnbackupStep ==
  ASSUME FilesInv, Unbackup, UNCHANGED <<job, whole, jrn, fav, bounds>> PROVE FilesInv'
<1> USE DEF FilesInv, bounds
<1>1. /\ op.pc = "unbackup" /\ op.mode \in {"run", "undo", "abort", "recover"}
      /\ jrn # None /\ jrn.published # NoId /\ (op.mode = "undo" => rec.published # NoId)
  BY PlaceLemma DEF Unbackup, Journaled
<1>2. /\ rec # None /\ rec \in Records /\ Recorded(rec, job, at["destination"], stamp)
      /\ \A p \in Paths : rec.owned[p] \in Ids
  BY <1>1, RecLemma
<1>3. CASE Boxed(FALSE) /\ UNCHANGED <<at, stamp, rec>>
  BY <1>1, <1>3, BoxKeptStep DEF disk
<1>4. CASE /\ Known("backup")
           /\ IF at["backup"] = None THEN UNCHANGED <<at, stamp>> ELSE Unlink("backup")
           /\ rec' = [Unowned("backup") EXCEPT !.owned["backup"] = rec.owned["backup"]]
           /\ Go("unbox") /\ UNCHANGED answer
  <2>1. op' \in [pc : Places, mode : Modes, ok : BOOLEAN]
        /\ op'.pc = "unbox" /\ op'.mode = op.mode /\ op'.ok = op.ok /\ answer' = answer
    BY <1>1, <1>4 DEF TypeOK, Places, Rollback, Go
  <2>2. at["backup"] # None => at["backup"] = "old" /\ rec.owned["backup"] = Id("backup")
    BY <1>2, <1>4, HostFilesAssumption DEF Known, Is, Id, Recorded, Inodes
  <2>3. /\ at' \in [Paths -> Inodes \union {None}] /\ stamp' \in [Inodes -> Nat]
        /\ at'["destination"] = at["destination"] /\ at'["source"] = at["source"]
        /\ at'["box"] = at["box"] /\ at'["stage"] = at["stage"] /\ at'["backup"] = None
        /\ \A i \in Inodes : stamp[i] \in Nat /\ stamp[i] <= stamp'[i]
        /\ (at["backup"] # None => stamp'["old"] = stamp["old"] + 1)
    <3>1. CASE at["backup"] = None
      BY <1>4, <3>1 DEF TypeOK
    <3>2. CASE at["backup"] # None
      BY <1>4, <2>2, <3>2, UnlinkLemma DEF TypeOK, Paths, Inodes
    <3> QED  BY <3>1, <3>2
  <2>4. /\ rec' \in Records
        /\ rec'.phase = rec.phase /\ rec'.backup = rec.backup /\ rec'.source = rec.source
        /\ rec'.owned["backup"] = rec.owned["backup"]
        /\ \A q \in Paths \ {"backup"} :
             rec'.owned[q] = IF rec.owned[q] = Id("backup") /\ at["backup"] # None /\ at[q] = at["backup"]
                             THEN Id(q)' ELSE rec.owned[q]
        /\ rec'.published = IF rec.published = Id("backup") /\ rec.owned["destination"] = rec.published
                                /\ at["backup"] # None
                            THEN Id("destination")' ELSE rec.published
    <3> DEFINE m == Unowned("backup")
    <3>1. /\ m \in Records
          /\ m.phase = rec.phase /\ m.backup = rec.backup /\ m.source = rec.source
          /\ \A q \in Paths \ {"backup"} :
               m.owned[q] = IF rec.owned[q] = Id("backup") /\ at["backup"] # None /\ at[q] = at["backup"]
                            THEN Id(q)' ELSE rec.owned[q]
          /\ m.published = IF rec.published = Id("backup") /\ rec.owned["destination"] = rec.published
                                /\ at["backup"] # None
                           THEN Id("destination")' ELSE rec.published
      BY <1>2, <2>3, UnownedLemma DEF Paths
    <3>2. rec' = [m EXCEPT !.owned = [m.owned EXCEPT !["backup"] = rec.owned["backup"]]]
      BY <1>4
    <3>3. rec.owned["backup"] \in Ids /\ "backup" \in Paths
      BY <1>2 DEF Paths
    <3> HIDE DEF m
    <3>4. m.owned \in [Paths -> Ids]
      BY <3>1 DEF Records
    <3> DEFINE o == [m.owned EXCEPT !["backup"] = rec.owned["backup"]]
    <3>5. o \in [Paths -> Ids] /\ o["backup"] = rec.owned["backup"]
          /\ \A q \in Paths \ {"backup"} : o[q] = m.owned[q]
      BY <3>3, <3>4
    <3>6. rec' = [m EXCEPT !.owned = o]
      BY <3>2
    <3> HIDE DEF o
    <3>7. rec' \in Records /\ rec'.phase = m.phase /\ rec'.backup = m.backup
          /\ rec'.source = m.source /\ rec'.published = m.published /\ rec'.owned = o
      BY <3>1, <3>5, <3>6 DEF Records
    <3> QED  BY <3>1, <3>5, <3>7
  <2>5. rec' # None
    BY <2>4, HostFilesAssumption
  <2>6. Recorded(rec, job, at'["destination"], stamp')
        /\ (jrn # None => Recorded(jrn, job, at'["destination"], stamp'))
    BY <1>2, <2>3, RecordKept DEF TypeOK, Sound
  <2>7. \A q \in Paths : Id(q).ino = at[q] /\ Id(q)'.ino = at'[q]
          /\ (at'[q] # None => Id(q)'.stamp = stamp'[at'[q]])
          /\ (at[q] # None => Id(q).stamp = stamp[at[q]])
    BY DEF Id
  <2>8. rec'.owned["stage"] = rec.owned["stage"] /\ rec'.owned["box"] = rec.owned["box"]
    BY <1>2, <2>2, <2>4, <2>7, HostFilesAssumption DEF Recorded, Paths, Inodes
  <2>9. \/ rec'.published = rec.published
        \/ /\ rec'.published = Id("destination")' /\ rec.published.ino = "old"
           /\ at'["destination"] = "old"
    BY <1>2, <2>2, <2>3, <2>4, <2>7 DEF Recorded, Paths
  <2>10. \/ rec'.owned["destination"] = rec.owned["destination"]
         \/ rec'.owned["destination"] = Id("destination")' /\ at'["destination"] = "old"
    BY <2>2, <2>3, <2>4 DEF Paths
  <2>11. "old" # "src" /\ None \notin Inodes /\ NoId.ino = None
    BY HostFilesAssumption DEF Inodes, NoId
  <2>12. Recorded(rec', job, at'["destination"], stamp')
    <3>1. job.kind # "special" /\ rec'.published = NoId => rec'.owned["destination"].ino \in {None, "new"}
      <4> SUFFICES ASSUME job.kind # "special", rec'.published = NoId
                   PROVE  rec'.owned["destination"].ino \in {None, "new"}
        OBVIOUS
      <4>1. rec.published = NoId
        BY <2>7, <2>9, <2>11 DEF Paths, Inodes
      <4>2. rec.owned["destination"].ino \in {None, "new"}
        BY <1>2, <4>1 DEF Recorded
      <4>3. rec'.owned["destination"] = rec.owned["destination"]
        BY <2>2, <2>4, <2>7, <2>11, <4>2 DEF Paths, Inodes
      <4> QED  BY <4>2, <4>3
    <3>2. /\ job.kind = "special" => rec'.published.ino \in {None, "src", "old"}
          /\ rec'.published.ino = "old" =>
               /\ rec'.published.stamp <= stamp'["old"]
               /\ rec'.published.stamp = stamp'["old"] => at'["destination"] = "old"
          /\ job.kind = "special" /\ rec'.published.ino = "src" =>
               (rec'.source.stamp = stamp'["src"] => at'["destination"] = "src")
      <4>1. CASE rec'.published = rec.published
        BY <2>4, <2>6, <4>1 DEF Recorded
      <4>2. CASE rec'.published = Id("destination")' /\ at'["destination"] = "old"
        <5>1. rec'.published.ino = "old" /\ rec'.published.stamp = stamp'["old"] /\ stamp'["old"] \in Nat
          BY <2>3, <2>7, <2>11, <4>2 DEF Paths, Inodes
        <5> QED  BY <4>2, <5>1
      <4> QED  BY <2>9, <4>1, <4>2
    <3> QED  BY <2>4, <2>6, <2>8, <3>1, <3>2 DEF Recorded
  <2>13. /\ rec.published # NoId => rec'.published # NoId
         /\ rec.published.ino = "src" => rec'.published = rec.published
         /\ rec.published = NoId => rec'.published = NoId
         /\ rec.owned["destination"] # NoId => rec'.owned["destination"] # NoId
    BY <2>7, <2>9, <2>10, <2>11 DEF Paths, Inodes, NoId
  <2>14. TypeOK'
    BY <1>1, <1>2, <2>1, <2>3, <2>4, <2>5, <2>6, <2>12, <2>13 DEF TypeOK
  <2>15. Control'
    BY <1>1, <1>2, <2>1, <2>3, <2>4, <2>5, <2>6, <2>12, <2>13
    DEF Control, Special, SpecialRun, FileRun, SpecialRecovery, FileRecovery, Restoring, Linked
  <2>16. Naming'
    BY <1>1, <1>2, <2>1, <2>3, <2>4, <2>5, <2>6, <2>12, <2>13 DEF Naming, Special
  <2>17. Sound(rec)'
    BY <1>1, <1>2, <2>1, <2>3, <2>4, <2>5, <2>6, <2>12, <2>13 DEF Sound
  <2>18. Sound(jrn)'
    BY <1>1, <1>2, <2>1, <2>3, <2>4, <2>5, <2>6, <2>12, <2>13 DEF Sound
  <2>19. Renaming'
    BY <1>1, <1>2, <2>1, <2>3, <2>4, <2>5, <2>6, <2>12, <2>13
    DEF Renaming, Special, Completing, Linked, Forward
  <2>20. Evidence'
    BY <1>1, <1>2, <2>1, <2>3, <2>4, <2>5, <2>6, <2>12, <2>13
    DEF Evidence, Special, Before, Reserved, Unstaged, Unboxed
  <2>21. Journaled'
    BY <1>1, <1>2, <2>1, <2>3, <2>4, <2>5, <2>6, <2>12, <2>13
    DEF Journaled, Special, Reserved, Linked
  <2>22. Favorite'
    BY <1>1, <1>2, <2>1, <2>3, <2>4, <2>5, <2>6, <2>12, <2>13
    DEF Favorite, TypeOK, Untold, Told, Completing, Special, Before, Reserved, Linked
  <2>23. Undoable'
    BY <1>1, <1>2, <2>1, <2>3, <2>4, <2>5, <2>6, <2>12, <2>13
    DEF Undoable, InPlace, Special, Reserved, Restoring
  <2>24. FailedClean'
    BY <1>1, <1>2, <2>1, <2>3, <2>4, <2>5, <2>6, <2>12, <2>13 DEF FailedClean, InPlace, Control
  <2> QED  BY <2>14, <2>15, <2>16, <2>17, <2>18, <2>19, <2>20, <2>21, <2>22, <2>23, <2>24
<1> QED  BY <1>3, <1>4 DEF Unbackup

LEMMA UnboxStep ==
  ASSUME FilesInv, Unbox, UNCHANGED <<job, whole, jrn, fav, bounds>> PROVE FilesInv'
<1> USE DEF FilesInv, bounds
<1>1. /\ op.pc = "unbox" /\ op.mode \in {"run", "undo", "abort", "recover"}
      /\ (op.mode # "undo" => jrn # None) /\ (op.mode = "undo" => rec.published # NoId)
  BY PlaceLemma DEF Unbox, Journaled
<1>2. rec # None /\ rec \in Records /\ Recorded(rec, job, at["destination"], stamp)
  BY <1>1, RecLemma
<1>3. CASE Boxed(FALSE) /\ UNCHANGED <<at, stamp, rec>>
  BY <1>1, <1>3, BoxKeptStep DEF disk
<1>4. CASE /\ IF at["box"] = None THEN UNCHANGED <<at, stamp>> ELSE Unlink("box")
           /\ rec' = [rec EXCEPT !.owned["backup"] = NoId, !.owned["box"] = NoId]
           /\ Boxed(TRUE)
  <2>1. op' = [op EXCEPT !.pc = BoxedNext] /\ answer' = answer
    BY <1>1, <1>4, BoxedLemma DEF Go
  <2>2. /\ op.mode = "run" /\ Special => BoxedNext = "backup-cleaned"
        /\ op.mode = "run" /\ ~ Special => BoxedNext = "finish"
        /\ op.mode = "recover" /\ rec.phase = "source-unlinked" =>
             Special /\ BoxedNext = "backup-cleaned"
        /\ op.mode \in {"undo", "abort"} \/ (op.mode = "recover" /\ rec.phase # "source-unlinked") =>
             BoxedNext \in {"restore-backup-cleaned", "conclude"}
    BY <1>1, BoxedLemma
  <2>3. op' \in [pc : Places, mode : Modes, ok : BOOLEAN]
        /\ op'.pc = BoxedNext /\ op'.mode = op.mode /\ op'.ok = op.ok /\ answer' = answer
    BY <1>1, <2>1, <2>2 DEF TypeOK, Places, Phases, Rollback
  <2>4. /\ at' \in [Paths -> Inodes \union {None}] /\ stamp' \in [Inodes -> Nat]
        /\ at'["destination"] = at["destination"] /\ at'["source"] = at["source"]
        /\ at'["box"] = None /\ at'["stage"] = at["stage"] /\ at'["backup"] = at["backup"]
        /\ \A i \in Inodes : stamp[i] \in Nat /\ stamp[i] <= stamp'[i]
    <3>1. CASE at["box"] = None
      BY <1>4, <3>1 DEF TypeOK
    <3>2. CASE at["box"] # None
      BY <1>4, <3>2, UnlinkLemma DEF TypeOK, Paths, Inodes
    <3> QED  BY <3>1, <3>2
  <2>5. /\ rec' \in Records /\ rec'.phase = rec.phase /\ rec'.backup = rec.backup
        /\ rec'.published = rec.published /\ rec'.source = rec.source
        /\ rec'.owned["backup"] = NoId /\ rec'.owned["box"] = NoId
        /\ rec'.owned["stage"] = rec.owned["stage"]
        /\ rec'.owned["destination"] = rec.owned["destination"]
    <3> DEFINE o == [rec.owned EXCEPT !["backup"] = NoId, !["box"] = NoId]
    <3>1. o \in [Paths -> Ids] /\ o["backup"] = NoId /\ o["box"] = NoId
          /\ o["stage"] = rec.owned["stage"] /\ o["destination"] = rec.owned["destination"]
      BY <1>2 DEF Records, Paths, NoId, Ids
    <3>2. rec' = [rec EXCEPT !.owned = o]
      BY <1>2, <1>4 DEF Records
    <3> HIDE DEF o
    <3> QED  BY <1>2, <3>1, <3>2 DEF Records
  <2>6. rec' # None /\ at["backup"] = None
    BY <1>1, <2>5, HostFilesAssumption DEF Evidence
  <2>7. Recorded(rec, job, at'["destination"], stamp')
        /\ (jrn # None => Recorded(jrn, job, at'["destination"], stamp'))
    BY <1>2, <2>4, RecordKept DEF TypeOK, Sound
  <2>8. Recorded(rec', job, at'["destination"], stamp')
    BY <2>4, <2>5, <2>7 DEF Recorded, NoId, Inodes
  <2>9. op.mode = "run" => at["stage"] = None
    BY <1>1 DEF Evidence
  <2>10. Special /\ Completing => rec.published.ino = "src" /\ fav.path # "source"
    BY <1>1 DEF Renaming, Favorite, Told
  <2>11. TypeOK'
    BY <1>1, <1>2, <2>2, <2>3, <2>4, <2>5, <2>6, <2>7, <2>8, <2>9, <2>10 DEF TypeOK
  <2>12. Control'
    BY <1>1, <1>2, <2>2, <2>3, <2>4, <2>5, <2>6, <2>7, <2>8, <2>9, <2>10
    DEF Control, Special, SpecialRun, FileRun, SpecialRecovery, FileRecovery, Restoring, Linked
  <2>13. Naming'
    BY <1>1, <1>2, <2>2, <2>3, <2>4, <2>5, <2>6, <2>7, <2>8, <2>9, <2>10 DEF Naming, Special
  <2>14. Sound(rec)'
    BY <1>1, <1>2, <2>2, <2>3, <2>4, <2>5, <2>6, <2>7, <2>8, <2>9, <2>10 DEF Sound
  <2>15. Sound(jrn)'
    BY <1>1, <1>2, <2>2, <2>3, <2>4, <2>5, <2>6, <2>7, <2>8, <2>9, <2>10 DEF Sound
  <2>16. Renaming'
    BY <1>1, <1>2, <2>2, <2>3, <2>4, <2>5, <2>6, <2>7, <2>8, <2>9, <2>10
    DEF Renaming, Special, Completing, Linked, Forward
  <2>17. Evidence'
    BY <1>1, <1>2, <2>2, <2>3, <2>4, <2>5, <2>6, <2>7, <2>8, <2>9, <2>10
    DEF Evidence, Special, Before, Reserved, Unstaged, Unboxed
  <2>18. Journaled'
    BY <1>1, <1>2, <2>2, <2>3, <2>4, <2>5, <2>6, <2>7, <2>8, <2>9, <2>10
    DEF Journaled, Special, Reserved, Linked
  <2>19. Favorite'
    BY <1>1, <1>2, <2>2, <2>3, <2>4, <2>5, <2>6, <2>7, <2>8, <2>9, <2>10
    DEF Favorite, TypeOK, Untold, Told, Completing, Special, Before, Reserved, Linked
  <2>20. Undoable'
    BY <1>1, <1>2, <2>2, <2>3, <2>4, <2>5, <2>6, <2>7, <2>8, <2>9, <2>10
    DEF Undoable, InPlace, Special, Reserved, Restoring
  <2>21. FailedClean'
    BY <1>1, <1>2, <2>2, <2>3, <2>4, <2>5, <2>6, <2>7, <2>8, <2>9, <2>10
    DEF FailedClean, InPlace, Control
  <2> QED  BY <2>11, <2>12, <2>13, <2>14, <2>15, <2>16, <2>17, <2>18, <2>19, <2>20, <2>21
<1> QED  BY <1>3, <1>4 DEF Unbox

LEMMA ConcludeStep == ASSUME FilesInv, Conclude PROVE FilesInv'
<1> USE DEF FilesInv, disk, bounds
<1>1. /\ op.pc = "conclude" /\ op.mode \in {"undo", "abort", "recover"} /\ rec # None
      /\ (op.mode # "undo" => jrn # None)
      /\ UNCHANGED <<job, at, stamp, whole, rec, fav, crashes, faults, edits>>
  BY PlaceLemma DEF Conclude, Control, Journaled
<1>2. rec \in Records /\ Recorded(rec, job, at["destination"], stamp)
  BY <1>1, RecLemma
<1>3. op' \in [pc : Places, mode : Modes, ok : BOOLEAN] /\ op'.pc = "idle" /\ op'.mode = "ready"
  BY DEF Conclude, TypeOK, Places, Modes
<1>4. answer' \in {answer, "failed"} /\ (op.mode = "recover" => answer' = answer)
  BY DEF Conclude
<1>5. CASE jrn' = [rec EXCEPT !.phase = "recovery-pending"]
  <2>1. /\ jrn' \in Records /\ Recorded(jrn', job, at["destination"], stamp)
        /\ jrn'.phase = "recovery-pending" /\ jrn'.backup = rec.backup
    <3> HIDE DEF FilesInv
    <3> QED  BY <1>2, <1>5, PhaseKept
  <2>2. jrn' # None
    BY <2>1, HostFilesAssumption
  <2>3. TypeOK'
    BY <1>1, <1>2, <1>3, <1>4, <2>1, <2>2 DEF TypeOK
  <2>4. Control'
    BY <1>1, <1>2, <1>3, <1>4, <2>1, <2>2
    DEF Control, Special, SpecialRun, FileRun, SpecialRecovery, FileRecovery, Restoring, Linked
  <2>5. Naming'
    BY <1>1, <1>2, <1>3, <1>4, <2>1, <2>2 DEF Naming, Special
  <2>6. Sound(rec)'
    BY <1>1, <1>2, <1>3, <1>4, <2>1, <2>2 DEF Sound
  <2>7. Sound(jrn)'
    BY <1>1, <1>2, <1>3, <1>4, <2>1, <2>2 DEF Sound
  <2>8. Renaming'
    BY <1>1, <1>2, <1>3, <1>4, <2>1, <2>2 DEF Renaming, Special, Completing, Linked, Forward
  <2>9. Evidence'
    BY <1>1, <1>2, <1>3, <1>4, <2>1, <2>2 DEF Evidence, Special, Before, Reserved, Unstaged, Unboxed
  <2>10. Journaled'
    BY <1>1, <1>2, <1>3, <1>4, <2>1, <2>2 DEF Journaled, Special, Reserved, Linked
  <2>11. Favorite'
    BY <1>1, <1>2, <1>3, <1>4, <2>1, <2>2
    DEF Favorite, TypeOK, Untold, Told, Completing, Special, Before, Reserved, Linked
  <2>12. Undoable'
    BY <1>1, <1>2, <1>3, <1>4, <2>1, <2>2 DEF Undoable, InPlace, Special, Reserved, Restoring
  <2>13. FailedClean'
    BY <1>1, <1>2, <1>3, <1>4, <2>1, <2>2 DEF FailedClean, InPlace, Control
  <2> QED  BY <2>3, <2>4, <2>5, <2>6, <2>7, <2>8, <2>9, <2>10, <2>11, <2>12, <2>13
<1>6. CASE op.ok /\ (op.mode # "undo" \/ rec.published = NoId) /\ jrn' = None
  <2>1. at["box"] = None /\ at["backup"] = None
    BY <1>1, <1>6 DEF Evidence
  <2>2. at["stage"] = None
    BY <1>1, <1>6, PlaceLemma DEF Evidence
  <2>3. ~ fav.pending
    BY <1>1, <1>6 DEF Favorite, Untold
  <2>4. answer' = "failed" /\ crashes = 0 => op.mode \in {"undo", "abort"}
    BY <1>1, <1>4 DEF Control
  <2>5. op.mode = "abort" => Special
    BY PlaceLemma
  <2>6. Special => at["destination"] # "new"
    BY DEF Naming
  <2>7. None \notin Inodes
    BY HostFilesAssumption
  <2>8. job.kind = "special" <=> Special
    BY DEF Special
  <2>9. FailedClean'
    <3> SUFFICES ASSUME answer' = "failed", crashes = 0, job.kind \in {"copy", "special"}
                 PROVE  at["destination"] # "new" /\ (edits = 0 => InPlace)
      BY <1>1, <2>1, <2>2, <2>7 DEF FailedClean, InPlace, Inodes
    <3>1. CASE op.mode = "undo"
      BY <1>1, <1>6, <2>6, <2>8, <3>1 DEF Undoable
    <3>2. CASE op.mode = "abort"
      BY <1>1, <1>6, <2>5, <2>6, <3>2 DEF Undoable, Restoring
    <3> QED  BY <1>1, <2>4, <3>1, <3>2
  <2>10. TypeOK'
    BY <1>1, <1>2, <1>3, <1>4, <1>6, <2>1, <2>2, <2>3, <2>6 DEF TypeOK
  <2>11. Control'
    BY <1>1, <1>2, <1>3, <1>4, <1>6, <2>1, <2>2, <2>3, <2>6
    DEF Control, Special, SpecialRun, FileRun, SpecialRecovery, FileRecovery, Restoring, Linked
  <2>12. Naming'
    BY <1>1, <1>2, <1>3, <1>4, <1>6, <2>1, <2>2, <2>3, <2>6 DEF Naming, Special
  <2>13. Sound(rec)'
    BY <1>1, <1>2, <1>3, <1>4, <1>6, <2>1, <2>2, <2>3, <2>6 DEF Sound
  <2>14. Sound(jrn)'
    BY <1>1, <1>2, <1>3, <1>4, <1>6, <2>1, <2>2, <2>3, <2>6 DEF Sound
  <2>15. Renaming'
    BY <1>1, <1>2, <1>3, <1>4, <1>6, <2>1, <2>2, <2>3, <2>6
    DEF Renaming, Special, Completing, Linked, Forward
  <2>16. Evidence'
    BY <1>1, <1>2, <1>3, <1>4, <1>6, <2>1, <2>2, <2>3, <2>6
    DEF Evidence, Special, Before, Reserved, Unstaged, Unboxed
  <2>17. Journaled'
    BY <1>1, <1>2, <1>3, <1>4, <1>6, <2>1, <2>2, <2>3, <2>6 DEF Journaled, Special, Reserved, Linked
  <2>18. Favorite'
    BY <1>1, <1>2, <1>3, <1>4, <1>6, <2>1, <2>2, <2>3, <2>6
    DEF Favorite, TypeOK, Untold, Told, Completing, Special, Before, Reserved, Linked
  <2>19. Undoable'
    BY <1>1, <1>2, <1>3, <1>4, <1>6, <2>1, <2>2, <2>3, <2>6
    DEF Undoable, InPlace, Special, Reserved, Restoring
  <2> QED  BY <2>10, <2>11, <2>12, <2>13, <2>14, <2>15, <2>16, <2>17, <2>18, <2>19, <2>9
<1> QED  BY <1>5, <1>6 DEF Conclude

LEMMA RecoverLookStep == ASSUME FilesInv, RecoverLook PROVE FilesInv'
<1> USE DEF FilesInv, disk, bounds
<1>1. /\ op.pc = "recover-look" /\ op.mode = "recover" /\ ~ Special /\ rec # None /\ jrn # None
      /\ jrn.published = rec.published
      /\ UNCHANGED <<job, at, stamp, whole, rec, jrn, fav, answer, crashes, faults, edits>>
  BY PlaceLemma DEF RecoverLook, Control, Journaled
<1>2. rec \in Records /\ Recorded(rec, job, at["destination"], stamp)
  BY <1>1, RecLemma
<1>3. /\ op'.mode = "recover"
      /\ \/ op'.pc = "unbackup" /\ rec.published # NoId /\ op'.ok = op.ok
         \/ op'.pc = "conclude" /\ ~ rec.backup /\ op'.ok = op.ok
         \/ op'.pc = "conclude" /\ op'.ok = FALSE
         \/ op'.pc = "recover-publication" /\ rec.published = NoId /\ op'.ok = op.ok
  BY <1>1 DEF RecoverLook, Go, TypeOK
<1>4. op' \in [pc : Places, mode : Modes, ok : BOOLEAN]
  BY <1>1, ZenonT(60) DEF RecoverLook, Go, TypeOK, Places, Rollback
<1>5. TypeOK'
  BY <1>1, <1>2, <1>3, <1>4 DEF TypeOK
<1>6. Control'
  BY <1>1, <1>2, <1>3, <1>4
  DEF Control, Special, SpecialRun, FileRun, SpecialRecovery, FileRecovery, Restoring, Linked
<1>7. Naming'
  BY <1>1, <1>2, <1>3, <1>4 DEF Naming, Special
<1>8. Sound(rec)'
  BY <1>1, <1>2, <1>3, <1>4 DEF Sound
<1>9. Sound(jrn)'
  BY <1>1, <1>2, <1>3, <1>4 DEF Sound
<1>10. Renaming'
  BY <1>1, <1>2, <1>3, <1>4 DEF Renaming, Special, Completing, Linked, Forward
<1>11. Evidence'
  BY <1>1, <1>2, <1>3, <1>4 DEF Evidence, Special, Before, Reserved, Unstaged, Unboxed
<1>12. Journaled'
  BY <1>1, <1>2, <1>3, <1>4 DEF Journaled, Special, Reserved, Linked
<1>13. Favorite'
  BY <1>1, <1>2, <1>3, <1>4
  DEF Favorite, TypeOK, Untold, Told, Completing, Special, Before, Reserved, Linked
<1>14. Undoable'
  BY <1>1, <1>2, <1>3, <1>4 DEF Undoable, InPlace, Special, Reserved, Restoring
<1>15. FailedClean'
  BY <1>1, <1>2, <1>3, <1>4 DEF FailedClean, InPlace, Control
<1> QED  BY <1>5, <1>6, <1>7, <1>8, <1>9, <1>10, <1>11, <1>12, <1>13, <1>14, <1>15

LEMMA RecoverSpecialStep == ASSUME FilesInv, RecoverSpecial PROVE FilesInv'
<1> USE DEF FilesInv, disk, bounds
<1>1. /\ op.pc = "recover-special" /\ op.mode = "recover" /\ Special /\ rec # None /\ jrn # None
      /\ rec = jrn
      /\ UNCHANGED <<job, at, stamp, whole, jrn, fav, answer, crashes, faults, edits>>
  BY PlaceLemma DEF RecoverSpecial, Control, Journaled, Renaming
<1>2. rec \in Records /\ Recorded(rec, job, at["destination"], stamp)
  BY <1>1, RecLemma
<1>3. rec.phase \in Forward /\ rec.published # NoId => rec.published.ino = "src"
  BY <1>1 DEF Renaming
<1>4. fav.path = None <=> ~ job.favorite
  BY DEF Favorite
<1>5. CASE /\ rec.published # NoId /\ rec.phase = "linked" /\ fav.path = "source"
           /\ Go("abort") /\ UNCHANGED rec
  <2>1. op' \in [pc : Places, mode : Modes, ok : BOOLEAN]
        /\ op'.pc = "abort" /\ op'.mode = "recover" /\ op'.ok = op.ok
    BY <1>1, <1>5 DEF TypeOK, Places, Go
  <2>2. rec.published.ino = "src"
    BY <1>3, <1>5 DEF Forward
  <2>3. TypeOK'
    BY <1>1, <1>2, <1>5, <2>1, <2>2 DEF TypeOK
  <2>4. Control'
    BY <1>1, <1>2, <1>5, <2>1, <2>2
    DEF Control, Special, SpecialRun, FileRun, SpecialRecovery, FileRecovery, Restoring, Linked
  <2>5. Naming'
    BY <1>1, <1>2, <1>5, <2>1, <2>2 DEF Naming, Special
  <2>6. Sound(rec)'
    BY <1>1, <1>2, <1>5, <2>1, <2>2 DEF Sound
  <2>7. Sound(jrn)'
    BY <1>1, <1>2, <1>5, <2>1, <2>2 DEF Sound
  <2>8. Renaming'
    BY <1>1, <1>2, <1>5, <2>1, <2>2 DEF Renaming, Special, Completing, Linked, Forward
  <2>9. Evidence'
    BY <1>1, <1>2, <1>5, <2>1, <2>2 DEF Evidence, Special, Before, Reserved, Unstaged, Unboxed
  <2>10. Journaled'
    BY <1>1, <1>2, <1>5, <2>1, <2>2 DEF Journaled, Special, Reserved, Linked
  <2>11. Favorite'
    BY <1>1, <1>2, <1>5, <2>1, <2>2, HostFilesAssumption
    DEF Favorite, TypeOK, Untold, Told, Completing, Special, Before, Reserved, Linked, Paths
  <2>12. Undoable'
    BY <1>1, <1>2, <1>5, <2>1, <2>2 DEF Undoable, InPlace, Special, Reserved, Restoring
  <2>13. FailedClean'
    BY <1>1, <1>2, <1>5, <2>1, <2>2 DEF FailedClean, InPlace, Control
  <2> QED  BY <2>3, <2>4, <2>5, <2>6, <2>7, <2>8, <2>9, <2>10, <2>11, <2>12, <2>13
<1>6. CASE /\ rec.published # NoId /\ rec.phase \in {"linked", "source-unlink-authorized"}
           /\ ~ job.favorite \/ fav.path = "destination"
           /\ Go("source-unlink-authorized") /\ UNCHANGED rec
  <2>1. op' \in [pc : Places, mode : Modes, ok : BOOLEAN]
        /\ op'.pc = "source-unlink-authorized" /\ op'.mode = "recover" /\ op'.ok = op.ok
    BY <1>1, <1>6 DEF TypeOK, Places, Go, Phases
  <2>2. rec.published.ino = "src"
    BY <1>3, <1>6 DEF Forward
  <2>3. fav.path # "source"
    BY <1>4, <1>6, HostFilesAssumption DEF Paths
  <2>4. TypeOK'
    BY <1>1, <1>2, <1>6, <2>1, <2>2, <2>3 DEF TypeOK
  <2>5. Control'
    BY <1>1, <1>2, <1>6, <2>1, <2>2, <2>3
    DEF Control, Special, SpecialRun, FileRun, SpecialRecovery, FileRecovery, Restoring, Linked
  <2>6. Naming'
    BY <1>1, <1>2, <1>6, <2>1, <2>2, <2>3 DEF Naming, Special
  <2>7. Sound(rec)'
    BY <1>1, <1>2, <1>6, <2>1, <2>2, <2>3 DEF Sound
  <2>8. Sound(jrn)'
    BY <1>1, <1>2, <1>6, <2>1, <2>2, <2>3 DEF Sound
  <2>9. Renaming'
    BY <1>1, <1>2, <1>6, <2>1, <2>2, <2>3 DEF Renaming, Special, Completing, Linked, Forward
  <2>10. Evidence'
    BY <1>1, <1>2, <1>6, <2>1, <2>2, <2>3 DEF Evidence, Special, Before, Reserved, Unstaged, Unboxed
  <2>11. Journaled'
    BY <1>1, <1>2, <1>6, <2>1, <2>2, <2>3 DEF Journaled, Special, Reserved, Linked
  <2>12. Favorite'
    BY <1>1, <1>2, <1>6, <2>1, <2>2, <2>3
    DEF Favorite, TypeOK, Untold, Told, Completing, Special, Before, Reserved, Linked
  <2>13. Undoable'
    BY <1>1, <1>2, <1>6, <2>1, <2>2, <2>3 DEF Undoable, InPlace, Special, Reserved, Restoring
  <2>14. FailedClean'
    BY <1>1, <1>2, <1>6, <2>1, <2>2, <2>3 DEF FailedClean, InPlace, Control
  <2> QED  BY <2>4, <2>5, <2>6, <2>7, <2>8, <2>9, <2>10, <2>11, <2>12, <2>13, <2>14
<1>7. CASE op' = [op EXCEPT !.pc = "conclude", !.ok = FALSE] /\ UNCHANGED rec
  <2>1. op' \in [pc : Places, mode : Modes, ok : BOOLEAN]
        /\ op'.pc = "conclude" /\ op'.mode = "recover" /\ op'.ok = FALSE
    BY <1>1, <1>7 DEF TypeOK, Places
  <2>2. TypeOK'
    BY <1>1, <1>2, <1>7, <2>1 DEF TypeOK
  <2>3. Control'
    BY <1>1, <1>2, <1>7, <2>1
    DEF Control, Special, SpecialRun, FileRun, SpecialRecovery, FileRecovery, Restoring, Linked
  <2>4. Naming'
    BY <1>1, <1>2, <1>7, <2>1 DEF Naming, Special
  <2>5. Sound(rec)'
    BY <1>1, <1>2, <1>7, <2>1 DEF Sound
  <2>6. Sound(jrn)'
    BY <1>1, <1>2, <1>7, <2>1 DEF Sound
  <2>7. Renaming'
    BY <1>1, <1>2, <1>7, <2>1 DEF Renaming, Special, Completing, Linked, Forward
  <2>8. Evidence'
    BY <1>1, <1>2, <1>7, <2>1 DEF Evidence, Special, Before, Reserved, Unstaged, Unboxed
  <2>9. Journaled'
    BY <1>1, <1>2, <1>7, <2>1 DEF Journaled, Special, Reserved, Linked
  <2>10. Favorite'
    BY <1>1, <1>2, <1>7, <2>1
    DEF Favorite, TypeOK, Untold, Told, Completing, Special, Before, Reserved, Linked
  <2>11. Undoable'
    BY <1>1, <1>2, <1>7, <2>1 DEF Undoable, InPlace, Special, Reserved, Restoring
  <2>12. FailedClean'
    BY <1>1, <1>2, <1>7, <2>1 DEF FailedClean, InPlace, Control
  <2> QED  BY <2>2, <2>3, <2>4, <2>5, <2>6, <2>7, <2>8, <2>9, <2>10, <2>11, <2>12
<1>8. CASE op' = [op EXCEPT !.pc = "idle", !.mode = "ready"] /\ UNCHANGED rec
  <2>1. op' \in [pc : Places, mode : Modes, ok : BOOLEAN]
        /\ op'.pc = "idle" /\ op'.mode = "ready"
    BY <1>1, <1>8 DEF TypeOK, Places, Modes
  <2>2. TypeOK'
    BY <1>1, <1>2, <1>8, <2>1 DEF TypeOK
  <2>3. Control'
    BY <1>1, <1>2, <1>8, <2>1
    DEF Control, Special, SpecialRun, FileRun, SpecialRecovery, FileRecovery, Restoring, Linked
  <2>4. Naming'
    BY <1>1, <1>2, <1>8, <2>1 DEF Naming, Special
  <2>5. Sound(rec)'
    BY <1>1, <1>2, <1>8, <2>1 DEF Sound
  <2>6. Sound(jrn)'
    BY <1>1, <1>2, <1>8, <2>1 DEF Sound
  <2>7. Renaming'
    BY <1>1, <1>2, <1>8, <2>1 DEF Renaming, Special, Completing, Linked, Forward
  <2>8. Evidence'
    BY <1>1, <1>2, <1>8, <2>1 DEF Evidence, Special, Before, Reserved, Unstaged, Unboxed
  <2>9. Journaled'
    BY <1>1, <1>2, <1>8, <2>1 DEF Journaled, Special, Reserved, Linked
  <2>10. Favorite'
    BY <1>1, <1>2, <1>8, <2>1
    DEF Favorite, TypeOK, Untold, Told, Completing, Special, Before, Reserved, Linked
  <2>11. Undoable'
    BY <1>1, <1>2, <1>8, <2>1 DEF Undoable, InPlace, Special, Reserved, Restoring
  <2>12. FailedClean'
    BY <1>1, <1>2, <1>8, <2>1 DEF FailedClean, InPlace, Control
  <2> QED  BY <2>2, <2>3, <2>4, <2>5, <2>6, <2>7, <2>8, <2>9, <2>10, <2>11, <2>12
<1>9. CASE /\ rec.published # NoId
           /\ ~ job.favorite \/ fav.path = "destination"
           /\ rec.phase \in {"source-unlink-authorized", "source-unlinked", "backup-cleaned"}
           /\ at["destination"] = rec.published.ino
           /\ rec' = [Remembering(rec, {"destination"}) EXCEPT !.published = Id("destination")]
           /\ Go("source-unlinked")
  <2>1. op' \in [pc : Places, mode : Modes, ok : BOOLEAN]
        /\ op'.pc = "source-unlinked" /\ op'.mode = "recover" /\ op'.ok = op.ok
    BY <1>1, <1>9 DEF TypeOK, Places, Go, Phases
  <2>2. at["destination"] = "src"
    BY <1>3, <1>9 DEF Forward
  <2>3. fav.path # "source"
    BY <1>4, <1>9, HostFilesAssumption DEF Paths
  <2>4. /\ Id("destination") = [ino |-> "src", stamp |-> stamp["src"]]
        /\ Id("destination")' = [ino |-> "src", stamp |-> stamp["src"]]
        /\ stamp["src"] \in Nat
    BY <1>1, <2>2, HostFilesAssumption DEF Id, Inodes, TypeOK
  <2>5. /\ rec' \in Records /\ rec'.phase = rec.phase /\ rec'.backup = rec.backup
        /\ rec'.published = [ino |-> "src", stamp |-> stamp["src"]]
        /\ rec'.source = rec.source
        /\ rec'.owned["stage"] = rec.owned["stage"] /\ rec'.owned["box"] = rec.owned["box"]
        /\ rec'.owned["backup"] = rec.owned["backup"]
        /\ rec'.owned["destination"] = [ino |-> "src", stamp |-> stamp["src"]]
    <3> DEFINE m == Remembering(rec, {"destination"})
               id == [ino |-> "src", stamp |-> stamp["src"]]
    <3>0. at' \in [Paths -> Inodes \union {None}] /\ stamp' \in [Inodes -> Nat]
      BY <1>1 DEF TypeOK
    <3>1. /\ m \in Records /\ m.phase = rec.phase /\ m.backup = rec.backup /\ m.source = rec.source
          /\ \A p \in Paths \ {"destination"} : m.owned[p] = rec.owned[p]
          /\ \A p \in Paths \intersect {"destination"} : m.owned[p] = Id(p)'
      BY <1>2, <3>0, RememberLemma
    <3>2. rec' = [m EXCEPT !.published = id]
      BY <1>9, <2>4
    <3>3. id \in Ids
      BY <2>4 DEF Ids, Inodes
    <3> HIDE DEF m, id
    <3>4. rec' \in Records /\ rec'.phase = m.phase /\ rec'.backup = m.backup /\ rec'.owned = m.owned
          /\ rec'.source = m.source /\ rec'.published = id
      BY <3>1, <3>2, <3>3 DEF Records
    <3>5. m.owned["stage"] = rec.owned["stage"] /\ m.owned["box"] = rec.owned["box"]
          /\ m.owned["backup"] = rec.owned["backup"] /\ m.owned["destination"] = Id("destination")'
      BY <3>1 DEF Paths
    <3> QED  BY <2>4, <3>1, <3>4, <3>5 DEF id
  <2>6. rec' # None /\ rec'.published # NoId
    BY <2>5, HostFilesAssumption DEF NoId, Inodes
  <2>7. Recorded(rec', job, at["destination"], stamp)
    BY <1>1, <1>2, <2>2, <2>4, <2>5 DEF Recorded, Inodes, Special
  <2>8. TypeOK'
    BY <1>1, <1>2, <1>9, <2>1, <2>2, <2>3, <2>5, <2>6, <2>7 DEF TypeOK
  <2>9. Control'
    BY <1>1, <1>2, <1>9, <2>1, <2>2, <2>3, <2>5, <2>6, <2>7
    DEF Control, Special, SpecialRun, FileRun, SpecialRecovery, FileRecovery, Restoring, Linked
  <2>10. Naming'
    BY <1>1, <1>2, <1>9, <2>1, <2>2, <2>3, <2>5, <2>6, <2>7 DEF Naming, Special
  <2>11. Sound(rec)'
    BY <1>1, <1>2, <1>9, <2>1, <2>2, <2>3, <2>5, <2>6, <2>7 DEF Sound
  <2>12. Sound(jrn)'
    BY <1>1, <1>2, <1>9, <2>1, <2>2, <2>3, <2>5, <2>6, <2>7 DEF Sound
  <2>13. Renaming'
    BY <1>1, <1>2, <1>9, <2>1, <2>2, <2>3, <2>5, <2>6, <2>7
    DEF Renaming, Special, Completing, Linked, Forward
  <2>14. Evidence'
    BY <1>1, <1>2, <1>9, <2>1, <2>2, <2>3, <2>5, <2>6, <2>7
    DEF Evidence, Special, Before, Reserved, Unstaged, Unboxed
  <2>15. Journaled'
    BY <1>1, <1>2, <1>9, <2>1, <2>2, <2>3, <2>5, <2>6, <2>7 DEF Journaled, Special, Reserved, Linked
  <2>16. Favorite'
    BY <1>1, <1>2, <1>9, <2>1, <2>2, <2>3, <2>5, <2>6, <2>7
    DEF Favorite, TypeOK, Untold, Told, Completing, Special, Before, Reserved, Linked
  <2>17. Undoable'
    BY <1>1, <1>2, <1>9, <2>1, <2>2, <2>3, <2>5, <2>6, <2>7
    DEF Undoable, InPlace, Special, Reserved, Restoring
  <2>18. FailedClean'
    BY <1>1, <1>2, <1>9, <2>1, <2>2, <2>3, <2>5, <2>6, <2>7 DEF FailedClean, InPlace, Control
  <2> QED  BY <2>8, <2>9, <2>10, <2>11, <2>12, <2>13, <2>14, <2>15, <2>16, <2>17, <2>18
<1> QED  BY <1>5, <1>6, <1>7, <1>8, <1>9 DEF RecoverSpecial

-----------------------------------------------------------------------------
(* The invariant, and what it says of the files                             *)

(* Every step keeps the invariant                                           *)
LEMMA NextStep == ASSUME FilesInv, [Next]_vars PROVE FilesInv'
<1>1. CASE FileStep
  <2> USE DEF FileStep, bounds
  <2>1. CASE OpenStage
    BY <1>1, <2>1, OpenStageStep
  <2>2. CASE Quarantine
    BY <1>1, <2>2, QuarantineStep
  <2>3. CASE RenameBackup
    BY <1>1, <2>3, RenameBackupStep
  <2>4. CASE Publish
    BY <1>1, <2>4, PublishStep
  <2>5. CASE UnlinkStage
    BY <1>1, <2>5, UnlinkStageStep
  <2>6. CASE RecordPublication
    BY <1>1, <2>6, RecordPublicationStep
  <2>7. CASE LinkBackup
    BY <1>1, <2>7, LinkBackupStep
  <2>8. CASE UnlinkDestination
    BY <1>1, <2>8, UnlinkDestinationStep
  <2>9. CASE LinkSource
    BY <1>1, <2>9, LinkSourceStep
  <2>10. CASE CheckUnlink
    BY <1>1, <2>10, CheckUnlinkStep
  <2>11. CASE UnlinkSource
    BY <1>1, <2>11, UnlinkSourceStep
  <2>12. CASE Finalize
    BY <1>1, <2>12, FinalizeStep
  <2>13. CASE AbortSpecial
    BY <1>1, <2>13, AbortSpecialStep
  <2>14. CASE Unbackup
    BY <1>1, <2>14, UnbackupStep
  <2>15. CASE Unbox
    BY <1>1, <2>15, UnboxStep
  <2> QED  BY <1>1, <2>1, <2>2, <2>3, <2>4, <2>5, <2>6, <2>7, <2>8, <2>9, <2>10, <2>11, <2>12,
              <2>13, <2>14, <2>15
<1>2. CASE UndoStep
  <2> USE DEF UndoStep, bounds
  <2>1. CASE MakeContainer
    BY <1>2, <2>1, MakeContainerStep
  <2>2. CASE UndoStage
    BY <1>2, <2>2, UndoStageStep
  <2>3. CASE UndoPublication
    BY <1>2, <2>3, UndoPublicationStep
  <2>4. CASE Restore
    BY <1>2, <2>4, RestoreStep
  <2>5. CASE RecoverStage
    BY <1>2, <2>5, RecoverStageStep
  <2>6. CASE RecoverPublication
    BY <1>2, <2>6, RecoverPublicationStep
  <2> QED  BY <1>2, <2>1, <2>2, <2>3, <2>4, <2>5, <2>6
<1>3. CASE \E p \in {"source", "destination", "stage", "backup"} : Edit(p)
  BY <1>3, EditStep
<1>4. CASE UNCHANGED vars
  BY <1>4
  DEF vars, disk, bounds, FilesInv, TypeOK, Control, Naming, Sound, Renaming, Evidence, Journaled,
      Favorite, Undoable, FailedClean, InPlace, Untold, Told, Completing, Special
<1> QED  BY <1>1, <1>2, <1>3, <1>4, BeginStep, CheckpointStep, StreamStep, StreamIsLostStep,
            FinishStep, MoveFavoritesStep, MoveSourceStep, FavoritesFollowStep, FavoritesRefuseStep,
            FavoritesSettleStep, ConcludeStep, RecoverStep, RecoverLookStep, RecoverSpecialStep,
            FaultStep, CrashStep DEF Next

LEMMA FilesInvHolds == Spec => []FilesInv
  BY InitStep, NextStep, PTL DEF Spec

(* Every variable of the engine keeps to its type, a record to the shape of  *)
(* the journal's (engine.ts, OperationRecord).                              *)
THEOREM TypeCorrect == Spec => []TypeOK
<1>1. FilesInv => TypeOK
  BY DEF FilesInv
<1> QED  BY <1>1, FilesInvHolds, PTL

(* Whatever lies in the engine's private names is on record: the journal is  *)
(* written before the staged file, the container or the backup is made, and *)
(* a record only goes once they are gone, in every rollback and recovery.   *)
THEOREM EvidenceIsKept == Spec => []EvidenceKept
<1>1. FilesInv => EvidenceKept
  BY HostFilesAssumption DEF FilesInv, Evidence, EvidenceKept, Inodes
<1> QED  BY <1>1, FilesInvHolds, PTL

(* Once an operation is over or recovered without a record left, and no      *)
(* other program interfered, the favorite names a file and no repair of it  *)
(* is pending: the favorites are rewritten between the new name and the     *)
(* removal of the old one, or not at all.                                   *)
THEOREM FavoritesAreLive == Spec => []FavoriteIsLive
<1>1. FilesInv => FavoriteIsLive
  BY DEF FilesInv, Favorite, FavoriteIsLive
<1> QED  BY <1>1, FilesInvHolds, PTL

(* A copy or special rename that reports a failure and leaves no record has  *)
(* undone all it did: no new file, no container, and the file that it was   *)
(* to replace is where it was.                                              *)
THEOREM FailuresAreClean == Spec => []FailureIsClean
<1>1. FilesInv => FailureIsClean
  <2> SUFFICES ASSUME FilesInv, answer = "failed", jrn = None, crashes = 0, job.kind \in {"copy", "special"}
               PROVE  Names("new") = {} /\ Names("dir") = {} /\ (edits = 0 => InPlace)
    BY DEF FailureIsClean, InPlace
  <2>1. \A p \in Paths : at[p] \notin {"new", "dir"}
    BY HostFilesAssumption DEF FilesInv, FailedClean, Naming, Paths, Inodes
  <2> QED  BY <2>1 DEF FilesInv, FailedClean, Names
<1> QED  BY <1>1, FilesInvHolds, PTL

(* The files that are not the engine's keep a name                          *)
Others == {"src", "old", "foreign"}
Keeps == \A i \in Others : (\E p \in Paths : at[p] = i) => \E p \in Paths : at'[p] = i

LEMMA BindKeeps ==
  ASSUME TypeOK, NEW p \in Paths, NEW i \in Inodes, Bind(p, i), at[p] \notin Others
  PROVE  Keeps
<1>1. \A q \in Paths : at'[q] = IF q = p THEN i ELSE at[q]
  BY BindLemma
<1> QED  BY <1>1 DEF Keeps

LEMMA UnlinkKeeps ==
  ASSUME TypeOK, NEW p \in Paths, Unlink(p),
         at[p] \in Others => \E q \in Paths \ {p} : at[q] = at[p]
  PROVE  Keeps
<1>1. \A q \in Paths : at'[q] = IF q = p THEN None ELSE at[q]
  BY UnlinkLemma
<1> QED  BY <1>1 DEF Keeps

\* What may lose its last name.
Losable(i) == CASE i = "old" -> jrn # None /\ jrn.published # NoId
                [] i = "src" -> job.kind = "move" /\ whole /\ fav.path # "source"
                [] OTHER -> FALSE

(* A step forward takes the last name of none of them, but for the backup's *)
LEMMA FileStepKeeps == ASSUME FilesInv, FileStep PROVE Keeps \/ (Unbackup /\ Unlink("backup"))
<1> USE DEF FilesInv
<1>0. None \notin Others /\ None # "new" /\ None # "dir" /\ Others \subseteq Inodes
      /\ {"stage", "destination", "box", "backup", "source"} \subseteq Paths
      /\ {"new", "dir"} \subseteq Inodes
  BY HostFilesAssumption DEF Others, Inodes, Paths
<1>1. at' = at => Keeps
  BY DEF Keeps
<1>2. CASE OpenStage
  <2>1. at' = at \/ (at["stage"] = None /\ Bind("stage", "new"))
    BY <1>2 DEF OpenStage, Steps
  <2> QED  BY <1>0, <1>1, <2>1, BindKeeps
<1>3. CASE Quarantine \/ RecordPublication \/ CheckUnlink \/ Finalize
  BY <1>1, <1>3 DEF Quarantine, RecordPublication, CheckUnlink, Finalize, Steps
<1>4. CASE RenameBackup
  <2>1. CASE at' = at
    BY <1>1, <2>1
  <2>2. CASE Rename("destination", "backup")
    <3>1. at["backup"] = None
      BY <1>4 DEF RenameBackup, Evidence, Reserved
    <3>2. \A q \in Paths : at'[q] = IF q = "backup" THEN at["destination"]
                                   ELSE IF q = "destination" THEN None ELSE at[q]
      BY <1>0, <2>2, RenameLemma
    <3> QED  BY <1>0, <3>1, <3>2 DEF Keeps
  <2> QED  BY <1>4, <2>1, <2>2 DEF RenameBackup, Steps
<1>5. CASE Publish
  <2>1. at' = at \/ (at["destination"] = None /\ at["stage"] # None /\ Bind("destination", at["stage"]))
    BY <1>5 DEF Publish, Steps, Is
  <2> QED  BY <1>0, <1>1, <2>1, BindKeeps DEF TypeOK
<1>6. CASE UnlinkStage
  <2>1. at' = at \/ (Is("stage", rec.owned["stage"]) /\ Unlink("stage"))
    BY <1>6 DEF UnlinkStage, Steps
  <2>2. Recorded(rec, job, at["destination"], stamp)
    BY <1>6, RecLemma DEF UnlinkStage
  <2>3. Is("stage", rec.owned["stage"]) => at["stage"] = "new"
    BY <2>2 DEF Is, Id, Recorded
  <2> QED  BY <1>0, <1>1, <2>1, <2>3, UnlinkKeeps DEF Others
<1>7. CASE LinkBackup
  <2>1. at["backup"] = None
    BY <1>7 DEF LinkBackup, Evidence, Reserved
  <2>2. at' = at \/ (at["destination"] # None /\ Bind("backup", at["destination"]))
    BY <1>7 DEF LinkBackup, Steps, Is
  <2> QED  BY <1>0, <1>1, <2>1, <2>2, BindKeeps DEF TypeOK
<1>8. CASE UnlinkDestination
  <2>1. at' = at \/ (Is("destination", rec.owned["backup"]) /\ Unlink("destination"))
    BY <1>8 DEF UnlinkDestination, Steps
  <2>2. Recorded(rec, job, at["destination"], stamp)
    BY <1>8, RecLemma DEF UnlinkDestination
  <2>3. Is("destination", rec.owned["backup"]) => at["destination"] = "old" /\ at["backup"] = "old"
    BY <1>8, <2>2, HostFilesAssumption DEF Is, Id, Recorded, Inodes, Journaled, UnlinkDestination
  <2> QED  BY <1>0, <1>1, <2>1, <2>3, UnlinkKeeps
<1>9. CASE LinkSource
  <2>1. at' = at \/ (at["destination"] = None /\ at["source"] # None /\ Bind("destination", at["source"]))
    BY <1>9 DEF LinkSource, Steps, Is
  <2> QED  BY <1>0, <1>1, <2>1, BindKeeps DEF TypeOK
<1>10. CASE UnlinkSource
  <2>1. at' = at \/ (Is("source", rec.source) /\ Unlink("source"))
    BY <1>10 DEF UnlinkSource, Steps
  <2>2. Recorded(rec, job, at["destination"], stamp) /\ Special /\ rec.published.ino = "src"
    BY <1>10, RecLemma, PlaceLemma DEF UnlinkSource, Renaming, Linked
  <2>3. Is("source", rec.source) => at["source"] = "src" /\ at["destination"] = "src"
    BY <2>2, HostFilesAssumption DEF Is, Id, Recorded, Inodes, Special
  <2> QED  BY <1>0, <1>1, <2>1, <2>3, UnlinkKeeps
<1>11. CASE AbortSpecial
  <2>1. at' = at \/ (/\ Is("source", rec.source) /\ Is("destination", rec.published)
                     /\ Unlink("destination"))
    BY <1>11 DEF AbortSpecial
  <2>2. Recorded(rec, job, at["destination"], stamp) /\ rec.published.ino = "src"
    BY <1>11, RecLemma DEF AbortSpecial, Renaming
  <2>3. Is("source", rec.source) /\ Is("destination", rec.published) =>
          at["source"] = "src" /\ at["destination"] = "src"
    BY <2>2 DEF Is, Id, Recorded
  <2> QED  BY <1>0, <1>1, <2>1, <2>3, UnlinkKeeps
<1>12. CASE Unbackup
  BY <1>1, <1>12 DEF Unbackup
<1>13. CASE Unbox
  <2>1. at' = at \/ Unlink("box")
    BY <1>13 DEF Unbox
  <2> QED  BY <1>0, <1>1, <2>1, UnlinkKeeps DEF Naming, Others
<1> QED  BY <1>2, <1>3, <1>4, <1>5, <1>6, <1>7, <1>8, <1>9, <1>10, <1>11, <1>12, <1>13 DEF FileStep

(* ... and no step of a rollback or a recovery does                          *)
LEMMA UndoStepKeeps == ASSUME FilesInv, UndoStep PROVE Keeps
<1> USE DEF FilesInv
<1>0. None \notin Others /\ None # "new" /\ None # "dir" /\ Others \subseteq Inodes
      /\ {"stage", "destination", "box", "backup", "source"} \subseteq Paths
      /\ {"new", "dir"} \subseteq Inodes
  BY HostFilesAssumption DEF Others, Inodes, Paths
<1>1. at' = at => Keeps
  BY DEF Keeps
<1>2. CASE MakeContainer
  BY <1>0, <1>2, BindKeeps DEF MakeContainer, Naming, Others
<1>3. CASE UndoStage \/ RecoverStage
  <2>1. Recorded(rec, job, at["destination"], stamp)
    BY <1>3, RecLemma DEF UndoStage, RecoverStage
  <2>2. at' = at \/ (rec.owned["stage"].ino = at["stage"] /\ Unlink("stage"))
    BY <1>3 DEF UndoStage, RecoverStage, Clean, Known, Is, Id
  <2> QED  BY <1>0, <1>1, <2>1, <2>2, UnlinkKeeps DEF Recorded, Others
<1>4. CASE UndoPublication \/ RecoverPublication
  <2>1. Recorded(rec, job, at["destination"], stamp) /\ rec.published = NoId /\ ~ Special
    BY <1>4, RecLemma, PlaceLemma DEF UndoPublication, RecoverPublication, Journaled
  <2>2. at' = at \/ (rec.owned["destination"].ino = at["destination"] /\ Unlink("destination"))
    BY <1>4 DEF UndoPublication, RecoverPublication, Clean, Known, Is, Id
  <2> QED  BY <1>0, <1>1, <2>1, <2>2, UnlinkKeeps DEF Recorded, Others, Special
<1>5. CASE Restore
  <2>1. at' = at \/ (at["destination"] = None /\ at["backup"] # None /\ Bind("destination", at["backup"]))
    BY <1>5 DEF Restore, Restorable, Is
  <2> QED  BY <1>0, <1>1, <2>1, BindKeeps DEF TypeOK
<1> QED  BY <1>2, <1>3, <1>4, <1>5 DEF UndoStep

(* What a step takes the last name of, it may                                *)
LEMMA LostStep ==
  ASSUME FilesInv, [Next]_vars, NEW i \in Others,
         \E p \in Paths : at[p] = i, \A p \in Paths : at'[p] # i, edits' = edits
  PROVE  Losable(i)
<1>1. ~ Keeps
  BY DEF Keeps
<1>2. at' # at
  BY <1>1 DEF Keeps
<1>3. CASE FileStep
  <2>1. Unbackup /\ Unlink("backup")
    BY <1>1, <1>3, FileStepKeeps
  <2>2. \A q \in Paths : at'[q] = IF q = "backup" THEN None ELSE at[q]
    BY <2>1, UnlinkLemma DEF FilesInv, Paths
  <2>3. i = at["backup"] /\ i # None
    BY <2>2, HostFilesAssumption DEF Others, Inodes
  <2>4. Recorded(rec, job, at["destination"], stamp) /\ jrn # None /\ jrn.published # NoId
    BY <2>1, RecLemma DEF Unbackup, FilesInv, Journaled
  <2>5. at' = at \/ Known("backup")
    BY <2>1 DEF Unbackup
  <2>6. i = "old"
    BY <1>2, <2>3, <2>4, <2>5, HostFilesAssumption DEF Known, Is, Id, Recorded
  <2> QED  BY <2>4, <2>6 DEF Losable
<1>4. CASE UndoStep
  BY <1>1, <1>4, UndoStepKeeps
<1>5. CASE MoveSource
  <2>1. at["source"] = "src" /\ Unlink("source")
    BY <1>2, <1>5 DEF MoveSource, Is, Id, Prepared
  <2>2. \A q \in Paths : at'[q] = IF q = "source" THEN None ELSE at[q]
    BY <2>1, UnlinkLemma DEF FilesInv, Paths
  <2>3. i = "src"
    BY <2>1, <2>2, HostFilesAssumption DEF Others, Inodes
  <2>4. op.mode = "run" /\ ~ Special
    BY <1>5, PlaceLemma DEF MoveSource
  <2>5. job.kind = "move" /\ whole /\ fav.path # "source"
    BY <1>5, <2>4 DEF MoveSource, FilesInv, Journaled, Favorite, Told
  <2> QED  BY <2>3, <2>5 DEF Losable
<1>6. CASE \E p \in {"source", "destination", "stage", "backup"} : Edit(p)
  <2>1. edits' = edits + 1 /\ edits \in Nat
    BY <1>6, HostFilesAssumption DEF Edit, FilesInv, TypeOK
  <2> QED  BY <2>1
<1> QED  BY <1>2, <1>3, <1>4, <1>5, <1>6
         DEF Next, vars, disk, bounds, Begin, Checkpoint, Stream, StreamIsLost, Finish, MoveFavorites,
             FavoritesFollow, FavoritesRefuse, FavoritesSettle, Conclude, Recover, RecoverLook,
             RecoverSpecial, Fault, Crash, Steps

(* No step of the engine takes the last name of a file of the user's: of the *)
(* replaced file only once the publication is on record, of the source only *)
(* at the end of a move, of a file another program put there never.         *)
THEOREM NothingIsLost == Spec => NothingLost
<1> DEFINE A == \A i \in {"src", "old", "foreign"} :
                  Names(i) # {} /\ Names(i)' = {} /\ edits' = edits => Losable(i)
<1>1. FilesInv /\ [Next]_vars => [A]_vars
  <2> SUFFICES ASSUME FilesInv, [Next]_vars, NEW i \in Others,
                      Names(i) # {}, Names(i)' = {}, edits' = edits
               PROVE  Losable(i)
    BY DEF Others
  <2>1. (\E p \in Paths : at[p] = i) /\ \A p \in Paths : at'[p] # i
    BY DEF Names
  <2> QED  BY <2>1, LostStep
<1>2. Spec => [][A]_vars
  BY <1>1, FilesInvHolds, PTL DEF Spec
<1> QED  BY <1>2 DEF NothingLost, Losable

=============================================================================
