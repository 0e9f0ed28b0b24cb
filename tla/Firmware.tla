------------------------------ MODULE Firmware ------------------------------
(***************************************************************************)
(* The two firmware slots, the update that writes the one not running      *)
(* (mp_ota.c, from /update in mp_agent.c) and the start of an image that   *)
(* keeps it or rolls it back (main.c, app_main).  What the bootloader and  *)
(* the OTA library do is external, as the code relies on it with           *)
(* CONFIG_BOOTLOADER_APP_ROLLBACK_ENABLE (sdkconfig.defaults:45).          *)
(*                                                                         *)
(* An image is [version, works]: it starts ("fine"), its initialisation    *)
(* fails ("fails") or it stops before the end of it ("crashes").           *)
(***************************************************************************)
EXTENDS Integers

CONSTANTS
  Releases,   \* bound: images the release page may hold
  NoImage,    \* a slot with nothing that can be started
  MaxUpdates  \* bound: /update commands

\* The image the device is flashed with.
First == [version |-> 0, works |-> "fine"]

ASSUME FirmwareAssumption ==
  /\ Releases \subseteq [version : Nat, works : {"fine", "fails", "crashes"}]
  /\ NoImage \notin Releases \cup {First} /\ MaxUpdates \in Nat

VARIABLES
  slots,   \* the image in each slot
  state,   \* its state in otadata: "new", "pending", "valid", "aborted", "invalid", "none"
  latest,  \* the slot otadata prefers
  running, \* the slot that runs
  stage,   \* where the start is, "up" once it is over, "halted" when app_main gave up
  update,  \* where /update is: "idle", "loading" or "done"
  updates

firmware == <<slots, state, latest, running, stage, update, updates>>

Other(s) == 1 - s

FirmwareInit ==
  /\ slots = [s \in {0, 1} |-> IF s = 0 THEN First ELSE NoImage]
  /\ state = [s \in {0, 1} |-> IF s = 0 THEN "valid" ELSE "none"]
  /\ latest = 0 /\ running = 0 /\ stage = "off" /\ update = "idle" /\ updates = 0

Works == slots[running].works
----------------------------------------------------------------------------
(* mp_ota_update: connect, look at the description and the size, and only  *)
(* then write.  The same version is skipped.  The library takes no update  *)
(* while the running image waits for its confirmation.                     *)
UpdateRefused ==
  /\ update = "idle" /\ updates < MaxUpdates /\ updates' = updates + 1
  /\ UNCHANGED <<slots, state, latest, running, stage, update>>

UpdateBegins(image) ==
  /\ update = "idle" /\ updates < MaxUpdates /\ updates' = updates + 1
  /\ state[running] # "pending" /\ image.version # slots[running].version
  /\ slots' = [slots EXCEPT ![Other(running)] = NoImage]
  /\ update' = "loading"
  /\ UNCHANGED <<state, latest, running, stage>>

(* The download breaks off or comes short, or the signature is wrong.      *)
UpdateFails ==
  /\ update = "loading" /\ update' = "idle"
  /\ UNCHANGED <<slots, state, latest, running, stage, updates>>

(* esp_https_ota_finish: the image is whole and signed; the next start is  *)
(* its first.                                                              *)
UpdateFinishes(image) ==
  /\ update = "loading" /\ image.version # slots[running].version
  /\ slots' = [slots EXCEPT ![Other(running)] = image]
  /\ state' = [state EXCEPT ![Other(running)] = "new"]
  /\ latest' = Other(running) /\ update' = "done"
  /\ UNCHANGED <<running, stage, updates>>
----------------------------------------------------------------------------
(* The bootloader: an image that started before without being confirmed is *)
(* given up; the latest of those left starts, a new one on probation.      *)
Startable(st, s) == slots[s] # NoImage /\ st[s] \in {"new", "pending", "valid"}

Bootloader ==
  LET seen == [s \in {0, 1} |-> IF state[s] = "pending" THEN "aborted" ELSE state[s]]
      pick == IF Startable(seen, latest) THEN latest ELSE Other(latest)
  IN  /\ stage = "off"
      /\ Startable(seen, pick)
      /\ running' = pick
      /\ state' = IF seen[pick] = "new" THEN [seen EXCEPT ![pick] = "pending"] ELSE seen
      /\ stage' = "config" /\ UNCHANGED <<slots, latest, update, updates>>

(* esp_ota_mark_app_invalid_rollback_and_reboot, for an image on probation *)
(* only: a confirmed one that cannot initialise stays where it is.         *)
RollbackPending ==
  /\ IF state[running] = "pending"
       THEN state' = [state EXCEPT ![running] = "invalid"] /\ stage' = "off"
       ELSE stage' = "halted" /\ UNCHANGED state
  /\ UNCHANGED <<slots, latest, running, update, updates>>

(* mp_ota_confirm_running; when it fails the image is rolled back.         *)
Confirm(fails) ==
  /\ stage = "confirm"
  /\ IF state[running] = "pending" /\ fails
       THEN RollbackPending
       ELSE /\ state' = [state EXCEPT ![running] = "valid"] /\ stage' = "up"
            /\ UNCHANGED <<slots, latest, running, update, updates>>

StageTo(s) == stage' = s /\ UNCHANGED <<slots, state, latest, running, update, updates>>

(* A step of initialize.  One that fails ends it.                          *)
InitStep(from, to, fails) ==
  /\ stage = from
  /\ IF fails THEN RollbackPending ELSE StageTo(to)

(* Power lost, a crash, or a restart the code asks for.                    *)
Restart ==
  /\ stage' = "off" /\ update' = "idle"
  /\ UNCHANGED <<slots, state, latest, running, updates>>
=============================================================================
