------------------------------ MODULE Services ------------------------------
(***************************************************************************)
(* Five services of the console that share no state: prompt delivery (here  *)
(* with the idle restart of an Agent), configured buttons, the viewport of  *)
(* a pane, the schedule of a note, and the reviews of a Worktree.  A         *)
(* behaviour moves one of them, `part`, and leaves the others as they began. *)
(***************************************************************************)
EXTENDS PromptDelivery, ButtonActions, PaneViewport, Schedules, Reviews

VARIABLE part

Parts == {"delivery", "buttons", "viewport", "schedules", "reviews"}
ServicesInit ==
  /\ Init /\ ButtonsInit /\ ViewportInit /\ SchedulesInit /\ ReviewsInit
  /\ part \in Parts
  /\ part # "buttons" => agentHere = FALSE
  /\ part # "reviews" => ahead = CHOOSE course \in Courses : TRUE

ServicesNext ==
  \/ part = "delivery" /\ Next /\ UNCHANGED <<buttonVars, viewport, schedules, reviewing, part>>
  \/ part = "buttons" /\ ButtonsNext /\ UNCHANGED <<vars, viewport, schedules, reviewing, part>>
  \/ part = "viewport" /\ ViewportNext /\ UNCHANGED <<vars, buttonVars, schedules, reviewing, part>>
  \/ part = "schedules" /\ SchedulesNext /\ UNCHANGED <<vars, buttonVars, viewport, reviewing, part>>
  \/ part = "reviews" /\ ReviewsNext /\ UNCHANGED <<vars, buttonVars, viewport, schedules, part>>

ServicesSpec == ServicesInit /\ [][ServicesNext]_<<vars, buttonVars, viewport, schedules, reviewing, part>>

SchedulesSpec ==
  /\ ServicesInit /\ part = "schedules"
  /\ [][ServicesNext]_<<vars, buttonVars, viewport, schedules, reviewing, part>>

ServicesTypeOK == ButtonsTypeOK /\ ViewportTypeOK /\ SchedulesTypeOK /\ ReviewsTypeOK
=============================================================================
