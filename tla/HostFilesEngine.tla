--------------------------- MODULE HostFilesEngine ---------------------------
(***************************************************************************)
(* HostFilesEngine (apps/server/src/host-files/engine.ts): one upload,     *)
(* copy, move or special rename, its rollback, and the recovery of its     *)
(* journal record after the engine stopped in the middle.                  *)
(*                                                                         *)
(* A file is an inode and a path a name of it.  An identity is an inode    *)
(* with its change time, which every link, unlink, rename and edit         *)
(* advances: an object is only touched while it still has the identity     *)
(* that was prepared or recorded for it.  Objects are regular files (the   *)
(* walk of a directory tree repeats the steps shown here); a call and the  *)
(* lstat beside it are one step, so the instant between the two, which no  *)
(* POSIX program can close, is left out.                                   *)
(***************************************************************************)
EXTENDS Naturals, FiniteSets

CONSTANTS
  Jobs,          \* what the service asks for: [kind, replace, favorite]
  MaxCrashes,    \* bound: stops of the engine
  MaxFaults,     \* bound: calls that fail and cancellations by the caller
  MaxEdits,      \* bound: changes by other programs
  None

Kinds == {"upload", "copy", "move", "special"}

Paths  == {"source", "destination", "stage", "box", "backup"}
Inodes == {"src", "old", "new", "dir", "foreign"}   \* "dir" is the backup container
Ids == [ino : Inodes \union {None}, stamp : Nat]
Phases == {"prepared", "stage-planned", "streaming", "staged", "backup-planned",
           "backup-reserved", "backup-linked", "quarantined", "publishing", "unstaged",
           "published", "linked", "source-unlink-authorized", "source-unlinked",
           "backup-cleaned", "restored", "restore-backup-cleaned", "recovery-stage-cleaned",
           "recovery-destination-cleaned"}
Records == [phase : Phases \union {"recovery-pending"}, backup : BOOLEAN,
            owned : [Paths -> Ids], published : Ids, source : Ids]

ASSUME HostFilesAssumption ==
  /\ Jobs \subseteq [kind : Kinds, replace : BOOLEAN, favorite : BOOLEAN]
  /\ \A j \in Jobs : j.kind = "upload" => ~ j.favorite   \* it has no source
  /\ MaxCrashes \in Nat /\ MaxFaults \in Nat /\ MaxEdits \in Nat
  /\ None \notin Inodes \union Paths \union Records

VARIABLES
  job,           \* the operation
  at,            \* the inode a path names
  stamp,         \* change time and link count of an inode
  whole,         \* is the new file completely written?
  rec,           \* the record in the engine's memory
  jrn,           \* the record in the journal file, or None
  op,            \* where the engine is: pc, mode and the verdict of a rollback
  fav,           \* the favorite: its path and whether its ctime is pending
  answer,
  crashes, faults, edits

disk == <<at, stamp, whole>>
bounds == <<crashes, faults, edits>>
vars == <<job, disk, rec, jrn, op, fav, answer, bounds>>

Id(p) == [ino |-> at[p], stamp |-> IF at[p] = None THEN 0 ELSE stamp[at[p]]]
NoId == [ino |-> None, stamp |-> 0]
Prepared(p) ==
  CASE p = "source" -> [ino |-> "src", stamp |-> 0]
    [] p = "destination" -> [ino |-> IF job.replace THEN "old" ELSE None, stamp |-> 0]

Special == job.kind = "special"
NewRecord == [phase |-> "prepared", backup |-> FALSE, owned |-> [p \in Paths |-> NoId],
              published |-> NoId, source |-> Prepared("source")]

\* checkpoint(): the phases of a record, and what follows each.
After(phase) ==
  CASE phase = "stage-planned"   -> "open"
    [] phase = "streaming"       -> "stream"
    [] phase \in {"prepared", "staged"} ->
         IF job.replace THEN "quarantine" ELSE IF Special THEN "link-source" ELSE "publish"
    [] phase = "backup-planned"  -> "mkdir"
    [] phase = "backup-reserved" -> IF Special THEN "link-backup" ELSE "rename"
    [] phase = "backup-linked"   -> "unlink-destination"
    [] phase = "quarantined"     -> IF Special THEN "link-source" ELSE "publish"
    [] phase = "publishing"      -> "unlink-stage"
    [] phase = "unstaged"        -> "record"
    [] phase = "published"       -> IF job.replace THEN "unbackup" ELSE "finish"
    [] phase = "linked"          -> "favorites-1"
    [] phase = "source-unlink-authorized" -> "unlink-source"
    [] phase = "source-unlinked" -> "favorites-2"
    [] phase = "backup-cleaned"  -> "favorites-3"
    [] phase = "restored"        -> "unbackup"
    [] phase = "restore-backup-cleaned" -> "conclude"
    [] phase = "recovery-stage-cleaned" -> "recover-look"
    [] phase = "recovery-destination-cleaned" -> "restore"
\* These are past the catch of their call: a failure leaves the record as it is.
Late == {"favorites-1", "unlink-check", "source-unlink-authorized", "unlink-source",
         "source-unlinked", "favorites-2", "finalize", "backup-cleaned", "favorites-3",
         "move-favorites", "move-source"}
         \union (IF Special THEN {"unbackup", "unbox", "finish"} ELSE {})
Rollback == {"undo-stage", "undo-publication", "restore", "restored", "unbackup", "unbox",
             "restore-backup-cleaned"}

Places == Phases \union Rollback \union
  {"begin", "open", "stream", "quarantine", "mkdir", "rename", "link-backup",
   "unlink-destination", "publish", "unlink-stage", "record", "link-source", "favorites-1",
   "unlink-check", "unlink-source", "favorites-2", "finalize", "favorites-3", "finish",
   "move-favorites", "move-source", "abort", "conclude", "recover-stage", "recover-look",
   "recover-publication", "recover-special", "idle"}
Modes == {"down", "run", "undo", "abort", "recover", "ready", "broken"}

TypeOK ==
  /\ job \in Jobs
  /\ at \in [Paths -> Inodes \union {None}]
  /\ stamp \in [Inodes -> Nat] /\ whole \in BOOLEAN
  /\ rec \in Records \union {None} /\ jrn \in Records \union {None}
  /\ op \in [pc : Places, mode : Modes, ok : BOOLEAN]
  /\ fav \in [path : {"source", "destination", None}, pending : BOOLEAN]
  /\ answer \in {"none", "done", "failed"}
  /\ crashes \in 0 .. MaxCrashes /\ faults \in 0 .. MaxFaults /\ edits \in 0 .. MaxEdits

Init ==
  /\ job \in Jobs
  /\ at = [p \in Paths |-> CASE p = "source" /\ job.kind # "upload" -> "src"
                             [] p = "destination" /\ job.replace -> "old"
                             [] OTHER -> None]
  /\ stamp = [i \in Inodes |-> 0] /\ whole = FALSE
  /\ rec = None /\ jrn = None
  /\ op = [pc |-> "begin", mode |-> "run", ok |-> TRUE]
  /\ fav = [path |-> IF job.favorite THEN "source" ELSE None, pending |-> FALSE]
  /\ answer = "none"
  /\ crashes = 0 /\ faults = 0 /\ edits = 0

-----------------------------------------------------------------------------
(* Calls on the filesystem, and what the record knows of their results.     *)

Inside(p) == IF p = "backup" THEN {"dir"} ELSE {}
Touch(is) == stamp' = [i \in Inodes |-> IF i \in is THEN stamp[i] + 1 ELSE stamp[i]]
Bind(p, i) == at' = [at EXCEPT ![p] = i] /\ Touch({i} \union Inside(p))
Unlink(p) == at' = [at EXCEPT ![p] = None] /\ Touch({at[p]} \union Inside(p))
Rename(p, q) ==
  at' = [at EXCEPT ![p] = None, ![q] = at[p]] /\ Touch({at[p]} \union Inside(p) \union Inside(q))

Go(pc) == op' = [op EXCEPT !.pc = pc]
\* remember(): the identities of `ps` after this step.
Remembering(r, ps) ==
  [r EXCEPT !.owned = [p \in Paths |-> IF p \in ps THEN Id(p)' ELSE r.owned[p]]]
Remember(ps) == rec' = Remembering(rec, ps)
Is(p, id) == at[p] # None /\ Id(p) = id
\* Mutant: a rollback removes what the record does not know.
Known_Any(p) == TRUE

Known(p) == at[p] = None \/ Is(p, rec.owned[p])

\* cleanup() removes an owned path; other names of the inode stay known.
Unowned(p) ==
  [rec EXCEPT !.owned = [q \in Paths |->
       IF q = p THEN NoId
       ELSE IF rec.owned[q] = Id(p) /\ at[p] # None /\ at[q] = at[p] THEN Id(q)' ELSE @[q]],
     !.published = IF @ = Id(p) /\ rec.owned["destination"] = @ /\ at[p] # None
                   THEN Id("destination")' ELSE @]
Clean(p, next, otherwise) ==
  \/ /\ Known(p)
     /\ IF at[p] = None THEN UNCHANGED <<at, stamp>> ELSE Unlink(p)
     /\ rec' = Unowned(p)
     /\ Go(next)
  \/ /\ ~ Known(p)
     /\ op' = [op EXCEPT !.pc = otherwise, !.ok = FALSE]
     /\ UNCHANGED <<at, stamp, rec>>

GiveUp == /\ op' = [op EXCEPT !.pc = "idle", !.mode = "ready"]
          /\ answer' = IF op.mode = "recover" THEN answer ELSE "failed"
Throw ==
  \/ /\ op.mode = "run" /\ op.pc \notin Late
     /\ op' = [pc |-> IF Special THEN "restore" ELSE "undo-stage", mode |-> "undo", ok |-> TRUE]
     /\ UNCHANGED answer
  \/ /\ op.mode = "run" /\ op.pc \in Late
     /\ GiveUp
  \/ /\ op.mode = "recover" /\ Special
     /\ op' = [op EXCEPT !.pc = "conclude", !.ok = FALSE]
     /\ UNCHANGED answer
\* A step that needs `guard`, and otherwise throws.
Steps(guard, step) ==
  \/ guard /\ step /\ UNCHANGED answer
  \/ ~ guard /\ Throw /\ UNCHANGED <<at, stamp, rec>>

Phased(r) == [r EXCEPT !.phase = op.pc]
Checkpoint ==
  /\ op.pc \in Phases
  /\ rec' = Phased(rec) /\ jrn' = rec'
  /\ Go(After(op.pc))
  /\ UNCHANGED <<job, disk, fav, answer, bounds>>

-----------------------------------------------------------------------------
(* The operation *)

Begin ==
  /\ op.pc = "begin"
  /\ LET fresh == /\ Id("destination") = Prepared("destination")
                  /\ job.kind = "upload" \/ Is("source", Prepared("source"))
     IN \/ /\ fresh
           /\ rec' = NewRecord
           /\ Go(IF Special THEN "prepared" ELSE "stage-planned")
           /\ UNCHANGED answer
        \/ ~ fresh /\ GiveUp /\ UNCHANGED rec
  /\ UNCHANGED <<job, disk, jrn, fav, bounds>>

OpenStage ==
  /\ op.pc = "open"
  /\ Steps(at["stage"] = None, Bind("stage", "new") /\ Remember({"stage"}) /\ Go("streaming"))

\* The body arrives whole, or the descriptor keeps what came of it; a copy is
\* discarded when its source changed meanwhile.
Stream ==
  /\ op.pc = "stream"
  /\ at["stage"] = "new"
  /\ Touch({"new"}) /\ UNCHANGED at
  /\ Remember({"stage"})
  /\ \/ /\ job.kind = "upload" \/ Is("source", Prepared("source"))
        /\ whole' = TRUE
        /\ Go("staged")
        /\ UNCHANGED <<answer, faults>>
     \/ /\ UNCHANGED whole
        /\ Throw
        /\ \/ job.kind # "upload" /\ ~ Is("source", Prepared("source")) /\ UNCHANGED faults
           \/ faults < MaxFaults /\ faults' = faults + 1
  /\ UNCHANGED <<job, jrn, fav, crashes, edits>>
StreamIsLost ==
  /\ op.pc = "stream" /\ at["stage"] # "new"
  /\ Throw
  /\ UNCHANGED <<job, disk, rec, jrn, fav, bounds>>

Quarantine ==
  /\ op.pc = "quarantine"
  /\ Steps(Is("destination", Prepared("destination")),
           rec' = [rec EXCEPT !.backup = TRUE] /\ Go("backup-planned") /\ UNCHANGED <<at, stamp>>)
MakeContainer ==
  /\ op.pc = "mkdir"
  /\ Bind("box", "dir") /\ Remember({"box"}) /\ Go("backup-reserved")
RenameBackup ==
  /\ op.pc = "rename"
  /\ Steps(Is("destination", Prepared("destination")),
           Rename("destination", "backup") /\ Remember({"backup", "box"}) /\ Go("quarantined"))

\* An exclusive link makes the staged file the destination.
Publish ==
  /\ op.pc = "publish"
  /\ Steps(Is("stage", rec.owned["stage"]) /\ at["destination"] = None,
           Bind("destination", at["stage"]) /\ Remember({"stage", "destination"})
             /\ Go("publishing"))
UnlinkStage ==
  /\ op.pc = "unlink-stage"
  /\ Steps(Is("stage", rec.owned["stage"]) /\ at["destination"] # None,
           Unlink("stage") /\ rec' = [Remembering(rec, {"destination"}) EXCEPT !.owned["stage"] = NoId]
             /\ Go("unstaged"))
RecordPublication ==
  /\ op.pc = "record"
  /\ Steps(at["destination"] # None,
           rec' = [rec EXCEPT !.published = Id("destination")] /\ Go("published")
             /\ UNCHANGED <<at, stamp>>)
\* Mutant: a move removes its source before the favorites follow.
Finish_SourceFirst ==
  /\ op.pc = "finish"
  /\ jrn' = None
  /\ IF job.kind = "move" THEN Go("move-source") /\ UNCHANGED answer
     ELSE op' = [op EXCEPT !.pc = "idle", !.mode = "ready"]
            /\ answer' = IF op.mode = "run" THEN "done" ELSE answer
  /\ UNCHANGED <<job, disk, rec, fav, bounds>>

Finish ==
  /\ op.pc = "finish"
  /\ jrn' = None
  /\ \/ /\ job.kind = "move" /\ op.mode = "run"
        /\ Go("move-favorites") /\ UNCHANGED answer
     \/ /\ job.kind # "move" \/ op.mode = "recover"
        /\ op' = [op EXCEPT !.pc = "idle", !.mode = "ready"]
        /\ answer' = IF op.mode = "run" THEN "done" ELSE answer
  /\ UNCHANGED <<job, disk, rec, fav, bounds>>

\* runItem(): a move is a copy, the favorites' rewrite and the removal.
MoveFavorites ==
  /\ op.pc = "move-favorites"
  /\ Steps(at["destination"] # None \/ ~ job.favorite, Go("move-source") /\ UNCHANGED <<at, stamp, rec>>)
  /\ fav' = IF op'.pc = "move-source" /\ job.favorite THEN [fav EXCEPT !.path = "destination"] ELSE fav
  /\ UNCHANGED <<job, whole, jrn, bounds>>
MoveSource ==
  /\ op.pc = "move-source"
  /\ \/ /\ Is("source", Prepared("source"))
        /\ Unlink("source")
        /\ op' = [op EXCEPT !.pc = "idle", !.mode = "ready"] /\ answer' = "done"
     \/ ~ Is("source", Prepared("source")) /\ GiveUp /\ UNCHANGED <<at, stamp>>
  /\ UNCHANGED <<job, whole, rec, jrn, fav, bounds>>

-----------------------------------------------------------------------------
(* A special object keeps its inode: it is linked under the new name, the    *)
(* favorites are retargeted, and only then the old name goes.                *)

LinkBackup ==
  /\ op.pc = "link-backup"
  /\ Steps(Is("destination", Prepared("destination")),
           Bind("backup", at["destination"]) /\ Remember({"backup", "box"}) /\ Go("backup-linked"))
UnlinkDestination ==
  /\ op.pc = "unlink-destination"
  /\ Steps(Is("destination", rec.owned["backup"]),
           Unlink("destination") /\ Remember({"backup", "box"}) /\ Go("quarantined"))
LinkSource ==
  /\ op.pc = "link-source"
  /\ Steps(Is("source", rec.source) /\ at["destination"] = None,
           /\ Bind("destination", at["source"])
           /\ rec' = [Remembering(rec, {"destination"}) EXCEPT
                        !.source = Id("source")', !.published = Id("destination")']
           /\ Go("linked"))
FavoritesFollow ==
  /\ op.pc = "favorites-1"
  /\ fav' = IF job.favorite THEN [path |-> "destination", pending |-> TRUE] ELSE fav
  /\ Go("unlink-check")
  /\ UNCHANGED <<job, disk, rec, jrn, answer, bounds>>
FavoritesRefuse ==
  /\ op.pc = "favorites-1" /\ job.favorite
  /\ faults < MaxFaults /\ faults' = faults + 1
  /\ op' = [pc |-> "abort", mode |-> "abort", ok |-> TRUE]
  /\ UNCHANGED <<job, disk, rec, jrn, fav, answer, crashes, edits>>
CheckUnlink ==
  /\ op.pc = "unlink-check"
  /\ Steps(Is("source", rec.source) /\ Is("destination", rec.published),
           Go("source-unlink-authorized") /\ UNCHANGED <<at, stamp, rec>>)
UnlinkSource ==
  /\ op.pc = "unlink-source"
  /\ Steps(Is("source", rec.source),
           /\ Unlink("source")
           /\ rec' = [Remembering(rec, {"destination"}) EXCEPT !.published = Id("destination")']
           /\ Go("source-unlinked"))
FavoritesSettle ==
  /\ op.pc \in {"favorites-2", "favorites-3"}
  /\ fav' = IF job.favorite THEN [path |-> "destination", pending |-> FALSE] ELSE fav
  /\ Go(IF op.pc = "favorites-2" THEN "finalize" ELSE "finish")
  /\ UNCHANGED <<job, disk, rec, jrn, answer, bounds>>
Finalize ==
  /\ op.pc = "finalize"
  /\ Steps(Is("destination", rec.published),
           Go(IF rec.backup THEN "unbackup" ELSE "backup-cleaned") /\ UNCHANGED <<at, stamp, rec>>)
AbortSpecial ==
  /\ op.pc = "abort"
  /\ \/ /\ Is("source", rec.source) /\ Is("destination", rec.published)
        /\ Unlink("destination")
        /\ rec' = [rec EXCEPT !.source = Id("source")', !.owned["destination"] = NoId,
                              !.published = NoId]
        /\ Go("restore") /\ UNCHANGED answer
     \/ /\ ~ (Is("source", rec.source) /\ Is("destination", rec.published))
        /\ IF op.mode = "recover"
           THEN op' = [op EXCEPT !.pc = "conclude", !.ok = FALSE] /\ UNCHANGED answer
           ELSE GiveUp
        /\ UNCHANGED <<at, stamp, rec>>

-----------------------------------------------------------------------------
(* Rollback and recovery share the removal of private files and restore().  *)

\* Mutant: a failed copy keeps what it had published.
Undoes_Never == FALSE

\* What a failed operation undoes after its stage.
Undoes == job.kind # "upload" /\ rec.owned["destination"] # NoId
AfterStage == IF rec.published # NoId THEN "conclude"
              ELSE IF Undoes THEN "undo-publication" ELSE "restore"
UndoStage ==
  /\ op.pc = "undo-stage"
  /\ LET same == at["stage"] # None /\ rec.owned["stage"].ino = at["stage"]
         sure == at["stage"] = None \/ (same /\ (job.kind = "upload" \/ Known("stage")))
     IN \/ /\ sure
           /\ IF at["stage"] = None THEN UNCHANGED <<at, stamp>> ELSE Unlink("stage")
           /\ rec' = Unowned("stage")
           /\ Go(AfterStage)
        \/ /\ ~ sure
           /\ op' = [op EXCEPT !.pc = AfterStage, !.ok = FALSE]
           /\ UNCHANGED <<at, stamp, rec>>

UndoPublication ==
  /\ op.pc = "undo-publication"
  /\ Clean("destination", "restore", "restore")

\* restore() never overwrites: a backup whose name is taken stays a backup.
Restorable == /\ rec.owned["backup"] # NoId /\ Is("backup", rec.owned["backup"])
              /\ at["destination"] = None /\ at["box"] # None
Restore ==
  /\ op.pc = "restore"
  /\ \/ /\ ~ rec.backup
        /\ Go("conclude") /\ UNCHANGED <<at, stamp, rec>>
     \/ /\ rec.backup /\ ~ Restorable
        /\ op' = [op EXCEPT !.pc = "conclude", !.ok = FALSE] /\ UNCHANGED <<at, stamp, rec>>
     \/ /\ rec.backup /\ Restorable
        /\ Bind("destination", at["backup"])
        /\ rec' = [Remembering(rec, {"backup", "box", "destination"}) EXCEPT
                     !.published = Id("destination")']
        /\ Go("restored")

\* Cleanup of the container: the backup first, then the empty directory.
Boxed(ok) ==
  LET next == CASE op.mode = "run" /\ Special -> "backup-cleaned"
                [] op.mode = "run" /\ ~ Special -> "finish"
                [] op.mode = "recover" /\ rec.phase = "source-unlinked" -> "backup-cleaned"
                [] op.mode # "run" /\ rec.phase = "restored" -> "restore-backup-cleaned"
                [] OTHER -> "conclude"
  IN \/ ok /\ Go(next) /\ UNCHANGED answer
     \/ ~ ok /\ op.mode = "run" /\ Throw
     \/ /\ ~ ok /\ op.mode # "run"
        /\ op' = [op EXCEPT !.pc = IF next = "backup-cleaned" THEN "conclude" ELSE next, !.ok = FALSE]
        /\ UNCHANGED answer
Unbackup ==
  /\ op.pc = "unbackup"
  /\ LET sure == Known("backup") /\ Known("box") IN
     \/ /\ sure
        /\ IF at["backup"] = None THEN UNCHANGED <<at, stamp>> ELSE Unlink("backup")
        /\ rec' = [Unowned("backup") EXCEPT !.owned["backup"] = rec.owned["backup"]]
        /\ Go("unbox") /\ UNCHANGED answer
     \/ ~ sure /\ Boxed(FALSE) /\ UNCHANGED <<at, stamp, rec>>
Unbox ==
  /\ op.pc = "unbox"
  /\ \/ /\ at["backup"] = None
        /\ IF at["box"] = None THEN UNCHANGED <<at, stamp>> ELSE Unlink("box")
        /\ rec' = [rec EXCEPT !.owned["backup"] = NoId, !.owned["box"] = NoId]
        /\ Boxed(TRUE)
     \/ at["backup"] # None /\ Boxed(FALSE) /\ UNCHANGED <<at, stamp, rec>>

\* Mutant: the record always goes.
Conclude_Forgets ==
  /\ op.pc = "conclude"
  /\ jrn' = None
  /\ op' = [op EXCEPT !.pc = "idle", !.mode = "ready"]
  /\ answer' = IF op.mode = "recover" THEN answer ELSE "failed"
  /\ UNCHANGED <<job, disk, rec, fav, bounds>>

\* Mutant: a record that stays has a phase recovery does not know.
Conclude_OwnPhase ==
  /\ op.pc = "conclude"
  /\ jrn' = IF op.ok THEN None ELSE Phased(rec)
  /\ op' = [op EXCEPT !.pc = "idle", !.mode = "ready"]
  /\ answer' = IF op.mode = "recover" THEN answer ELSE "failed"
  /\ UNCHANGED <<job, disk, rec, fav, bounds>>

\* The record goes once nothing private is left, and is kept as pending else.
Conclude ==
  /\ op.pc = "conclude"
  /\ jrn' = IF op.ok /\ (op.mode # "undo" \/ rec.published = NoId)
            THEN None ELSE [rec EXCEPT !.phase = "recovery-pending"]
  /\ op' = [op EXCEPT !.pc = "idle", !.mode = "ready"]
  /\ answer' = IF op.mode = "recover" THEN answer ELSE "failed"
  /\ UNCHANGED <<job, disk, rec, fav, bounds>>

Recover ==
  /\ op.mode = "down"
  /\ rec' = jrn
  /\ op' = IF jrn = None THEN [op EXCEPT !.pc = "idle", !.mode = "ready"]
           ELSE [pc |-> IF Special THEN "recover-special" ELSE "recover-stage",
                 mode |-> "recover", ok |-> TRUE]
  /\ UNCHANGED <<job, disk, jrn, fav, answer, bounds>>
RecoverStage ==
  /\ op.pc = "recover-stage"
  /\ Clean("stage", "recovery-stage-cleaned", "recovery-stage-cleaned")
RecoverLook ==
  /\ op.pc = "recover-look"
  /\ LET has == rec.published # NoId /\ Is("destination", rec.published) IN
     \/ has /\ Go(IF rec.backup THEN "unbackup" ELSE "conclude")
     \/ /\ rec.published # NoId /\ ~ has
        /\ op' = [op EXCEPT !.pc = "conclude", !.ok = FALSE]
     \/ rec.published = NoId /\ Go("recover-publication")
  /\ UNCHANGED <<job, disk, rec, jrn, fav, answer, bounds>>
RecoverPublication ==
  /\ op.pc = "recover-publication"
  /\ Clean("destination", "recovery-destination-cleaned", "conclude")

(* recoverSpecial(): the favorites tell how far the rename had come; without *)
(* favorites every proof holds, and an interrupted rename is completed.     *)
RecoverSpecial ==
  /\ op.pc = "recover-special"
  /\ UNCHANGED <<job, disk, jrn, fav, answer, bounds>>
  /\ LET pending  == ~ job.favorite \/ fav = [path |-> "destination", pending |-> TRUE]
         original == job.favorite /\ fav.path = "source"
         final    == ~ job.favorite \/ fav = [path |-> "destination", pending |-> FALSE]
         linked   == rec.published # NoId
         there    == at["source"] # None
         aborts   == linked /\ there /\ original /\ rec.phase = "linked"
         unlinks  == /\ linked /\ there /\ ~ aborts /\ pending /\ Is("source", rec.source)
                     /\ rec.phase \in {"linked", "source-unlink-authorized"}
         settles  == /\ linked /\ ~ there /\ (pending \/ final)
                     /\ rec.phase \in {"source-unlink-authorized", "source-unlinked", "backup-cleaned"}
                     /\ at["destination"] = rec.published.ino
     IN \/ /\ aborts
           /\ Go("abort") /\ UNCHANGED rec
        \/ /\ unlinks
           /\ IF Is("destination", rec.published) THEN Go("source-unlink-authorized")
              ELSE op' = [op EXCEPT !.pc = "conclude", !.ok = FALSE]
           /\ UNCHANGED rec
        \/ /\ settles
           /\ rec' = [Remembering(rec, {"destination"}) EXCEPT !.published = Id("destination")]
           /\ Go("source-unlinked")
        \/ /\ ~ (aborts \/ unlinks \/ settles)
           /\ op' = [op EXCEPT !.pc = "idle", !.mode = "ready"] /\ UNCHANGED rec

-----------------------------------------------------------------------------
(* A call that fails, a caller that cancels, a stop, and other programs.     *)
(* step() and the copied stream look at the caller's signal; a checkpoint    *)
(* does not pass it on, and only its journal write can fail.                 *)

\* recover() or the journal's first read failed: the rejection is kept, and
\* every request fails until the next start.
Break == op' = [op EXCEPT !.pc = "idle", !.mode = "broken"] /\ UNCHANGED answer

Fault ==
  /\ faults < MaxFaults /\ faults' = faults + 1
  /\ jrn' \in {jrn} \union (IF op.pc \in Phases THEN {Phased(rec)} ELSE {})
  /\ \/ /\ op.mode = "run" /\ op.pc \notin {"begin", "stream", "favorites-1"}
        /\ Throw
     \/ /\ op.mode \in {"undo", "abort", "recover"} /\ op.pc \in Rollback
        /\ op' = [op EXCEPT !.ok = FALSE,
                            !.pc = CASE @ = "undo-stage" -> AfterStage
                                    [] @ = "undo-publication" -> "restore"
                                    [] OTHER -> "conclude"]
        /\ UNCHANGED answer
     \/ op.mode \in {"undo", "abort"} /\ op.pc \in {"conclude", "abort"} /\ GiveUp
     \/ /\ op.mode = "recover" /\ Special /\ op.pc \notin Rollback \union {"conclude"}
        /\ Throw
     \/ /\ op.mode = "recover" /\ ~ Special
        /\ op.pc \in {"recovery-stage-cleaned", "recovery-destination-cleaned", "conclude"}
        /\ Break
     \/ op.mode = "down" /\ Break
  /\ UNCHANGED <<job, disk, rec, fav, crashes, edits>>

Crash ==
  /\ crashes < MaxCrashes /\ crashes' = crashes + 1
  /\ op' = [op EXCEPT !.pc = "idle", !.mode = "down"]
  /\ rec' = None
  /\ UNCHANGED <<job, disk, jrn, fav, answer, faults, edits>>

\* Another program edits, replaces, adds or removes a file; names in the
\* engine's private folders are random, so only what is there is found.
Edit(p) ==
  /\ p \in {"stage", "backup"} => at[p] # None
  /\ edits < MaxEdits /\ edits' = edits + 1
  /\ \/ at[p] # None /\ Touch({at[p]}) /\ UNCHANGED at
     \/ at[p] # None /\ Unlink(p)
     \/ "foreign" \notin {at[q] : q \in Paths}
          /\ at' = [at EXCEPT ![p] = "foreign"]
          /\ Touch({at[p], "foreign"} \union Inside(p))
  /\ UNCHANGED <<job, whole, rec, jrn, op, fav, answer, crashes, faults>>

FileStep ==
  /\ \/ OpenStage \/ Quarantine \/ RenameBackup \/ Publish \/ UnlinkStage \/ RecordPublication
     \/ LinkBackup \/ UnlinkDestination \/ LinkSource \/ CheckUnlink \/ UnlinkSource
     \/ Finalize \/ AbortSpecial \/ Unbackup \/ Unbox
  /\ UNCHANGED <<job, whole, jrn, fav, bounds>>
UndoStep ==
  /\ \/ MakeContainer \/ UndoStage \/ UndoPublication \/ Restore \/ RecoverStage
     \/ RecoverPublication
  /\ UNCHANGED <<job, whole, jrn, fav, answer, bounds>>

Next ==
  \/ Begin \/ Checkpoint \/ FileStep \/ UndoStep \/ Stream \/ StreamIsLost
  \/ Finish \/ MoveFavorites \/ MoveSource \/ FavoritesFollow \/ FavoritesRefuse
  \/ FavoritesSettle \/ Conclude \/ Recover \/ RecoverLook \/ RecoverSpecial
  \/ Fault \/ Crash
  \/ \E p \in {"source", "destination", "stage", "backup"} : Edit(p)

Spec == Init /\ [][Next]_vars

-----------------------------------------------------------------------------
(* Properties *)

Names(i) == {p \in Paths : at[p] = i}

(* The engine never takes the last name of a file that is not its own: the   *)
(* file it replaces goes only after the publication is on record, the source *)
(* of a move only after it was copied and its favorites follow, the inode of *)
(* a special rename never, and a file that another program put in the way   *)
(* never, through cancellations, stops and every recovery.                  *)
NothingLost ==
  [][\A i \in {"src", "old", "foreign"} :
       Names(i) # {} /\ Names(i)' = {} /\ edits' = edits =>
         CASE i = "old" -> jrn # None /\ jrn.published # NoId
           [] i = "src" -> job.kind = "move" /\ whole /\ fav.path # "source"
           [] OTHER -> FALSE]_vars

(* Whatever the engine left on disk, the journal says so: a staged file, the *)
(* container and the file that waits in it are on record, also between a    *)
(* stop and the recovery.                                                   *)
EvidenceKept ==
  /\ at["stage"] = "new" => jrn # None
  /\ (at["box"] = "dir" \/ at["backup"] = "old") => jrn # None /\ jrn.backup

(* A copy that reports failure and keeps no record left nothing behind: its  *)
(* file is not at the destination and the old one is.                       *)
FailureIsClean ==
  answer = "failed" /\ jrn = None /\ crashes = 0 /\ job.kind \in {"copy", "special"} =>
    /\ Names("new") = {} /\ Names("dir") = {}
    /\ edits = 0 => at["destination"] = (IF job.replace THEN "old" ELSE None)

(* When a rename or move is over, or recovered, its favorite names the file, *)
(* with no repair pending.                                                  *)
FavoriteIsLive ==
  op.mode = "ready" /\ op.pc = "idle" /\ jrn = None /\ edits = 0 /\ fav.path # None =>
    at[fav.path] # None /\ ~ fav.pending

\* engine.ts:1101 "preserve unresolved backups or partial publications for
\* recovery": a failed upload is undone or on record.
PublicationIsOnRecord ==
  answer = "failed" /\ job.kind = "upload" /\ jrn = None => at["destination"] # "new"
=============================================================================
