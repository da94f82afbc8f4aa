---------------------------- MODULE PaneViewport ----------------------------
(***************************************************************************)
(* Browsers that show one pane of a terminal and size it                   *)
(* (logs/viewport-scheduler.ts, PaneViewportCoordinator).  The latest      *)
(* browser owns the pane's entry; resizes, clamps and releases of an entry *)
(* run one after the other, each reading the pane and then resizing it;    *)
(* the last owner gives the pane at least its old size back.               *)
(*                                                                         *)
(* One pane, whose size is a number; no terminal is attached to it.        *)
(***************************************************************************)
EXTENDS Naturals, Sequences

CONSTANTS
  MaxLeases,       \* bound on the browsers that come, numbered in order
  MaxTasks,        \* bound on the resizes and clamps they ask for
  Sizes, OriginalSize

ASSUME ViewportAssumption ==
  /\ MaxLeases \in Nat /\ MaxTasks \in Nat
  /\ Sizes \subseteq Nat \ {0} /\ OriginalSize \in Sizes

Leases == 1..MaxLeases

VARIABLES
  paneSize,
  paneEntry,       \* the entry the coordinator has for the pane, or 0
  entries,         \* all entries it ever had, each with its own queue
  lease,           \* each browser's lease: its entry, the size its window asks
                   \* for, and whether it is open
  tasks,           \* how many were asked for
  closing,         \* the server restores every pane
  unlucky          \* history: tmux did not answer some read or resize

viewport == <<paneSize, paneEntry, entries, lease, tasks, closing, unlucky>>

(* An owner is a lease, or the mark of one of its releases: <<lease, 0>>,    *)
(* <<lease, 1>>, ...  A queued task is [kind, by, size].                    *)
NewEntry(l) == [owner |-> <<l, 0>>, restore |-> 0, queue |-> <<>>, step |-> "begin"]
NoLease == [entry |-> 0, size |-> 0, open |-> FALSE]

Tasks == [kind : {"resize", "ensure", "release"}, by : Leases \X (0..2), size : Sizes \union {0}]
Entries == [owner : Leases \X (0..2), restore : Sizes \union {0}, queue : Seq(Tasks),
            step : {"begin", "read", "apply", "delete"}]

ViewportTypeOK ==
  /\ paneSize \in Sizes
  /\ entries \in Seq(Entries) /\ paneEntry \in 0..Len(entries)
  /\ \A e \in DOMAIN entries : entries[e].step # "begin" => entries[e].queue # <<>>
  /\ lease \in [Leases -> [entry : Nat, size : Sizes \union {0}, open : BOOLEAN]]
  /\ \A l \in Leases : lease[l].entry <= Len(entries)
  /\ tasks \in Nat /\ closing \in BOOLEAN /\ unlucky \in BOOLEAN

ViewportInit ==
  /\ paneSize = OriginalSize /\ paneEntry = 0 /\ entries = <<>>
  /\ lease = [l \in Leases |-> NoLease]
  /\ tasks = 0 /\ closing = FALSE /\ unlucky = FALSE

Acquired(l) == lease[l].entry # 0

\* acquire(): the new browser owns the entry from now on.
Acquire(l) ==
  /\ ~Acquired(l) /\ (l > 1 => Acquired(l - 1)) /\ ~closing
  /\ IF paneEntry = 0
     THEN entries' = Append(entries, NewEntry(l)) /\ paneEntry' = Len(entries) + 1
     ELSE entries' = [entries EXCEPT ![paneEntry].owner = <<l, 0>>] /\ UNCHANGED paneEntry
  /\ lease' = [lease EXCEPT ![l] = [entry |-> paneEntry', size |-> 0, open |-> TRUE]]
  /\ UNCHANGED <<paneSize, tasks, closing, unlucky>>

Enqueue(e, kind, by, size) ==
  [entries EXCEPT ![e].queue = Append(@, [kind |-> kind, by |-> by, size |-> size])]

\* A browser's window has a size, or its pane's layout changed.
AskFor(l, kind, size) ==
  /\ lease[l].open /\ tasks < MaxTasks /\ tasks' = tasks + 1
  /\ kind = "ensure" => size = lease[l].size
  /\ size # 0
  /\ lease' = [lease EXCEPT ![l].size = size]
  /\ entries' = Enqueue(lease[l].entry, kind, <<l, 0>>, size)
  /\ UNCHANGED <<paneSize, paneEntry, closing, unlucky>>

\* release(): only the owner gives the pane back.
ReleaseAs(e, owner) ==
  IF paneEntry # e \/ entries[e].owner # owner THEN entries
  ELSE LET mark == <<owner[1], owner[2] + 1>> IN
       [Enqueue(e, "release", mark, 0) EXCEPT ![e].owner = mark]
ReleaseLease(l) ==
  /\ lease[l].open
  /\ lease' = [lease EXCEPT ![l].open = FALSE]
  /\ entries' = ReleaseAs(lease[l].entry, <<l, 0>>)
  /\ UNCHANGED <<paneSize, paneEntry, tasks, closing, unlucky>>
RestoreAll ==
  /\ ~closing /\ closing' = TRUE
  /\ paneEntry # 0 /\ entries' = ReleaseAs(paneEntry, entries[paneEntry].owner)
  /\ UNCHANGED <<paneSize, paneEntry, lease, tasks, unlucky>>

(* --------------------- the queue of an entry, one by one ----------------- *)

task(e) == entries[e].queue[1]
HasTask(e, step) == e \in DOMAIN entries /\ entries[e].queue # <<>> /\ entries[e].step = step
Owns(e) == paneEntry = e /\ entries[e].owner = task(e).by
AtStep(e, step) == [entries EXCEPT ![e].step = step]
\* Mutant: the task after this one starts in its middle.
Done_KeepsStep(e) == [entries EXCEPT ![e].queue = Tail(@)]
Done(e) == [entries EXCEPT ![e].queue = Tail(@), ![e].step = "begin"]
Bigger(a, b) == IF a > b THEN a ELSE b

BeginTask(e) ==
  /\ HasTask(e, "begin")
  /\ entries' = IF ~Owns(e) THEN Done(e)
                ELSE IF task(e).kind = "release" /\ entries[e].restore = 0 THEN AtStep(e, "delete")
                ELSE AtStep(e, "read")
  /\ UNCHANGED <<paneSize, paneEntry, lease, tasks, closing, unlucky>>

\* Mutant: what is restored is the size before the latest resize.
Baseline_Latest(e) == paneSize
\* The size before the entry's first resize, and what was asked for since
Baseline(e) == IF entries[e].restore = 0 THEN paneSize ELSE entries[e].restore

ReadPane(e) ==
  /\ HasTask(e, "read")
  /\ entries' = CASE task(e).kind = "release" -> AtStep(e, "apply")
                  [] task(e).kind # "release" /\ entries[e].owner # task(e).by -> Done(e)
                  [] task(e).kind = "ensure" /\ entries[e].owner = task(e).by ->
                       IF paneSize = task(e).size THEN Done(e) ELSE AtStep(e, "apply")
                  [] OTHER -> [AtStep(e, "apply") EXCEPT ![e].restore = Bigger(Baseline(e), task(e).size)]
  /\ UNCHANGED <<paneSize, paneEntry, lease, tasks, closing, unlucky>>
ReadFails(e) ==
  /\ HasTask(e, "read")
  /\ entries' = IF task(e).kind = "release" THEN AtStep(e, "apply") ELSE Done(e)
  /\ unlucky' = TRUE
  /\ UNCHANGED <<paneSize, paneEntry, lease, tasks, closing>>

ApplySize(e) ==
  /\ HasTask(e, "apply")
  /\ \/ /\ paneSize' = IF task(e).kind = "release" THEN entries[e].restore ELSE task(e).size
        /\ UNCHANGED unlucky
     \/ UNCHANGED paneSize /\ unlucky' = TRUE
  /\ entries' = IF task(e).kind = "release" THEN AtStep(e, "delete") ELSE Done(e)
  /\ UNCHANGED <<paneEntry, lease, tasks, closing>>

\* Mutant: the entry goes although another browser took it over meanwhile.
DeleteEntry_TakenOver(e) ==
  /\ HasTask(e, "delete")
  /\ paneEntry' = 0
  /\ entries' = Done(e)
  /\ UNCHANGED <<paneSize, lease, tasks, closing, unlucky>>
DeleteEntry(e) ==
  /\ HasTask(e, "delete")
  /\ paneEntry' = IF Owns(e) THEN 0 ELSE paneEntry
  /\ entries' = Done(e)
  /\ UNCHANGED <<paneSize, lease, tasks, closing, unlucky>>

ViewportNext ==
  \/ \E l \in Leases : Acquire(l) \/ ReleaseLease(l)
  \/ \E l \in Leases, kind \in {"resize", "ensure"}, size \in Sizes : AskFor(l, kind, size)
  \/ RestoreAll
  \/ \E e \in DOMAIN entries : \/ BeginTask(e) \/ ReadPane(e) \/ ReadFails(e)
                               \/ ApplySize(e) \/ DeleteEntry(e)

ViewportAlone == ViewportInit /\ [][ViewportNext]_viewport

(* ------------------------------ properties ------------------------------- *)

(* When the last browser has given the pane back, it is no smaller than      *)
(* before the first one came, through takeovers in the middle of a resize or *)
(* of a release, unless tmux failed on the way.                             *)
SizeComesBack == paneEntry = 0 /\ ~unlucky => paneSize >= OriginalSize

Latest == CHOOSE l \in Leases : Acquired(l) /\ \A k \in Leases : Acquired(k) => k <= l
Calm == \A e \in DOMAIN entries : entries[e].queue = <<>>

(* Once everything that was asked for is done, the pane has the size of the  *)
(* browser that came last: neither a task of an earlier owner nor a restore  *)
(* that it overtook lands on it.                                            *)
LatestBrowserIsServed ==
  Calm /\ ~unlucky /\ ~closing /\ entries # <<>> =>
    LET l == Latest IN lease[l].open /\ lease[l].size # 0 => paneSize = lease[l].size
=============================================================================
