-------------------------------- MODULE Host --------------------------------
(***************************************************************************)
(* The two parts that change files of the host: the file engine of the     *)
(* server and the settings helper.  They share no file and no process, so  *)
(* a behaviour moves one of them, `part`, and leaves the other as it began. *)
(***************************************************************************)
EXTENDS HostFilesEngine, SettingsApplier

VARIABLE part

HostInit ==
  /\ Init /\ SettingsInit
  /\ part \in {"files", "settings"}
  /\ part = "settings" => job = CHOOSE j \in Jobs : TRUE

HostNext ==
  \/ part = "files" /\ Next /\ UNCHANGED <<settings, part>>
  \/ part = "settings" /\ SettingsNext /\ UNCHANGED <<vars, part>>

HostSpec == HostInit /\ [][HostNext]_<<vars, settings, part>> /\ SettingsFairness

FilesSpec == HostInit /\ part = "files" /\ [][HostNext]_<<vars, settings, part>>
SettingsSpec == HostInit /\ part = "settings" /\ [][HostNext]_<<vars, settings, part>>

HostTypeOK == TypeOK /\ SettingsTypeOK
=============================================================================
