----------------------------- MODULE HostProofs -----------------------------
(***************************************************************************)
(* The theorems about the file engine and about the settings helper hold   *)
(* when both run on one host.                                              *)
(***************************************************************************)
EXTENDS Host, HostFilesProofs, SettingsApplierProofs
-----------------------------------------------------------------------------
(* What runs both parts runs each of them as if it were alone: every theorem *)
(* about one of them holds in that composition.                              *)
THEOREM HostRunsAlone == HostSpec => Spec /\ SettingsAlone
<1>1. HostInit => Init /\ SettingsInit
  BY DEF HostInit
<1>2. [HostNext]_<<vars, settings, part>> => [Next]_vars /\ [SettingsNext]_settings
  BY DEF HostNext
<1> QED  BY <1>1, <1>2, PTL DEF HostSpec, Spec, SettingsAlone

(* The variables of the file engine and of the settings helper keep their    *)
(* types, whatever stops, fails or is edited in between.                     *)
THEOREM HostTypeCorrect == HostSpec => []HostTypeOK
<1>1. TypeOK /\ SettingsTypeOK => HostTypeOK
  BY DEF HostTypeOK
<1> QED  BY <1>1, HostRunsAlone, TypeCorrect, SettingsTypeCorrect, PTL
=============================================================================
