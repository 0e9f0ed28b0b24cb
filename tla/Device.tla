------------------------------- MODULE Device -------------------------------
(***************************************************************************)
(* The device over its restarts: the start of main.c (app_main and         *)
(* initialize) brings up the settings, the facts and the conversation, and *)
(* decides about the image it runs on; then the agent and the console work *)
(* on them until the power goes, the firmware stops or an update restarts. *)
(***************************************************************************)
EXTENDS Settings, Facts, Firmware

CONSTANTS
  Scenes      \* bound: what a run is about, the flash operations that fail in it, the power losses

ASSUME DeviceAssumption ==
  Scenes \subseteq [about : {"settings", "facts", "update"}, faults : Nat, restarts : Nat]

VARIABLES scene, faults, restarts

all == <<settings, remembered, firmware, scene, faults, restarts>>

DeviceInit ==
  /\ scene \in Scenes /\ faults = 0 /\ restarts = 0
  /\ SettingsInit /\ FirmwareInit
  /\ FactsInit(IF scene.about = "facts" THEN {0} ELSE {})

Fault(fails) ==
  /\ faults' = (IF fails THEN faults + 1 ELSE faults) /\ faults' <= scene.faults

(* The tasks run from mp_agent_start on, before the image is confirmed.    *)
TasksRun == stage \in {"confirm", "up"} /\ Works # "crashes"
----------------------------------------------------------------------------
UseSettings ==
  /\ scene.about = "settings" /\ TasksRun
  /\ \E fails \in BOOLEAN : Fault(fails) /\ SettingsStep(fails)
  /\ UNCHANGED <<remembered, firmware, scene, restarts>>

UseFacts ==
  /\ scene.about = "facts" /\ TasksRun
  /\ \E fails \in BOOLEAN : Fault(fails) /\ FactsStep(fails)
  /\ UNCHANGED <<settings, firmware, scene, restarts>>

UseUpdate ==
  /\ scene.about = "update" /\ TasksRun
  /\ \/ UpdateRefused \/ UpdateFails
     \/ \E image \in Releases : UpdateBegins(image) \/ UpdateFinishes(image)
  /\ UNCHANGED <<settings, remembered, scene, faults, restarts>>

(* After "OTA complete" has had 30 s to go out: esp_restart.               *)
RestartUpdated ==
  /\ update = "done" /\ Restart /\ SettingsLost /\ FactsLost
  /\ UNCHANGED <<scene, faults, restarts>>

(* The power goes, at any point; also the user turning a halted device off *)
(* and on.                                                                 *)
PowerLost ==
  /\ stage # "off" /\ restarts < scene.restarts /\ restarts' = restarts + 1
  /\ Restart /\ SettingsLost /\ FactsLost
  /\ UNCHANGED <<scene, faults>>

(* An image that stops before its initialisation is over: the watchdog.    *)
Crashes ==
  /\ stage = "start" /\ Works = "crashes"
  /\ Restart /\ SettingsLost /\ FactsLost
  /\ UNCHANGED <<scene, faults, restarts>>
----------------------------------------------------------------------------
BootImage ==
  /\ Bootloader /\ UNCHANGED <<settings, remembered, scene, faults, restarts>>

(* A value that cannot be read ends the start; a missing one does not.     *)
LoadSettings(fails) ==
  /\ InitStep("config", "memory", fails) /\ Fault(fails)
  /\ IF fails THEN UNCHANGED settings ELSE SettingsLoad
  /\ UNCHANGED <<remembered, scene, restarts>>

LoadFacts(fails) ==
  /\ stage = "memory" /\ StageTo("agent") /\ Fault(fails) /\ FactsLoad(fails)
  /\ UNCHANGED <<settings, scene, restarts>>

(* mp_agent_init: when there is nothing to migrate, or the append fails,   *)
(* the legacy conversation stays.                                          *)
AppendHistory(fails) ==
  /\ stage = "agent"
  /\ StageTo(IF context = {} /\ history # {} /\ ~fails THEN "erase" ELSE "start")
  /\ Fault(fails) /\ Migrate(fails)
  /\ UNCHANGED <<settings, scene, restarts>>

DropHistory(fails) ==
  /\ stage = "erase" /\ StageTo("start") /\ Fault(fails) /\ EraseHistory(fails)
  /\ UNCHANGED <<settings, scene, restarts>>

(* Mutant: an image that cannot initialise is not rolled back.             *)
StartTasksRegardless ==
  /\ stage = "start" /\ Works # "crashes"
  /\ IF Works = "fails" THEN StageTo("halted") ELSE StageTo("confirm")
  /\ UNCHANGED <<settings, remembered, scene, faults, restarts>>

(* Mutant: what fails is logged, and the image confirmed all the same.     *)
StartTasksLogged ==
  /\ Works # "crashes" /\ InitStep("start", "confirm", FALSE)
  /\ UNCHANGED <<settings, remembered, scene, faults, restarts>>

(* The rest of initialize, from mp_briefing_init to the console's task.    *)
StartTasks ==
  /\ Works # "crashes" /\ InitStep("start", "confirm", Works = "fails")
  /\ UNCHANGED <<settings, remembered, scene, faults, restarts>>

ConfirmRunning(fails) ==
  /\ Confirm(fails) /\ Fault(fails)
  /\ IF stage' = "off" THEN SettingsLost /\ FactsLost ELSE UNCHANGED <<settings, remembered>>
  /\ UNCHANGED <<scene, restarts>>

BootStep ==
  \/ BootImage \/ StartTasks \/ Crashes
  \/ \E fails \in BOOLEAN :
       \/ LoadSettings(fails) \/ LoadFacts(fails) \/ AppendHistory(fails)
       \/ DropHistory(fails) \/ ConfirmRunning(fails)

DeviceNext == UseSettings \/ UseFacts \/ UseUpdate \/ RestartUpdated \/ PowerLost \/ BootStep

(* The start goes on by itself.                                            *)
DeviceSpec == DeviceInit /\ [][DeviceNext]_all /\ WF_all(BootStep) /\ WF_all(RestartUpdated)
----------------------------------------------------------------------------
(* Whatever is downloaded, breaks off or is installed, and wherever the    *)
(* power goes, one slot holds a confirmed image that works, which a start  *)
(* can come back to: a new one is confirmed only when its initialisation   *)
(* is over (main.c:277-293), and only a confirmed one overwrites the other *)
(* slot.  A device that has given up runs such an image.                   *)
SoundImageKept ==
  /\ \E s \in {0, 1} : slots[s] # NoImage /\ slots[s].works = "fine" /\ state[s] = "valid"
  /\ stage = "halted" => state[running] = "valid" /\ Works = "fine"

(* Every start ends with a running device, whatever image was installed    *)
(* and wherever the power went: one that does not initialise gives way to  *)
(* the one before.  Only a confirmed image that cannot read its settings   *)
(* stays down (main.c:277-293 has no second try for it).                   *)
UpAgain ==
  (stage # "up") ~> (stage = "up" \/ (stage = "halted" /\ state[running] = "valid" /\ Works = "fine"))
=============================================================================
