------------------------------ MODULE Settings ------------------------------
(***************************************************************************)
(* The configuration (mp_config.c): one string per key in flash, all of    *)
(* them copied to RAM at boot.  The console sets a key, imports a file or  *)
(* erases everything; the agent sets the briefing's keys.  There is no     *)
(* lock, so an operation of one may fall between two steps of the other.   *)
(*                                                                         *)
(* A value is valid for its key or "bad"; that is all the code that stores *)
(* settings asks of it.  A line of a file is [key, value]; key 0 stands    *)
(* for a blank or a comment, one outside Keys for a line that does not     *)
(* parse.                                                                  *)
(***************************************************************************)
EXTENDS Integers, FiniteSets, Sequences, FiniteSetsExt

CONSTANTS
  Keys,       \* s_fields, numbered: an import writes them in this order
  AgentKeys,  \* the keys the agent sets: /briefing on, off and HH:MM
  Values,     \* valid values
  Default,    \* config_defaults, a valid value too
  Unset,      \* no value in flash
  Files,      \* bound: the files imported
  MaxWrites   \* bound: operations begun

ASSUME SettingsAssumption ==
  /\ Keys \subseteq Nat \ {0} /\ IsFiniteSet(Keys) /\ AgentKeys \subseteq Keys
  /\ Default \in Values /\ Unset \notin Values /\ "bad" \notin Values
  /\ Files \subseteq Seq([key : Nat, value : Values \cup {"bad"}])
  /\ MaxWrites \in Nat

VARIABLES
  nvs,      \* flash, key by key
  config,   \* s_config
  writer,   \* what the console and the agent are in the middle of
  spoiled,  \* keys not loaded yet, or touched by a failed or an overlapping operation (history)
  writes

settings == <<nvs, config, writer, spoiled, writes>>

Writers == {"console", "agent"}
Idle    == [op |-> "idle", keys |-> {}, left |-> {}, gives |-> <<>>]

Loaded == [k \in Keys |-> IF nvs[k] = Unset THEN Default ELSE nvs[k]]

SettingsInit ==
  /\ nvs = [k \in Keys |-> Unset] /\ config = [k \in Keys |-> Default]
  /\ writer = [w \in Writers |-> Idle]
  /\ spoiled = Keys /\ writes = 0

(* The keys an operation under way writes, in flash or in RAM: the import  *)
(* copies its whole snapshot.                                              *)
Touches(w) ==
  CASE writer[w].op = "idle" -> {}
    [] writer[w].op = "set"  -> writer[w].keys
    [] OTHER                 -> Keys

Begin(w) == writer[w].op = "idle" /\ writes < MaxWrites /\ writes' = writes + 1
Overlap(w, keys) ==
  keys \cap UNION {Touches(v) : v \in Writers \ {w}}

(* nvs_set_str and nvs_commit; one that fails may have stored the value.   *)
Store(k, v, fails) ==
  IF fails THEN nvs' \in {nvs, [nvs EXCEPT ![k] = v]} ELSE nvs' = [nvs EXCEPT ![k] = v]
----------------------------------------------------------------------------
(* mp_config_set: flash first, and only when that worked the RAM.          *)
Set(w, k, v, fails) ==
  /\ w = "agent" => k \in AgentKeys
  /\ v # "bad" /\ Begin(w) /\ Store(k, v, fails)
  /\ IF fails
       THEN writer' = writer /\ spoiled' = spoiled \cup {k}
       ELSE /\ writer' = [writer EXCEPT ![w] = [op |-> "set", keys |-> {k}, left |-> {}, gives |-> [x \in {k} |-> v]]]
            /\ spoiled' = (spoiled \ {k}) \cup Overlap(w, {k})
  /\ UNCHANGED config

SetDone(w) ==
  /\ writer[w].op = "set"
  /\ config' = [k \in Keys |-> IF k \in writer[w].keys THEN writer[w].gives[k] ELSE config[k]]
  /\ writer' = [writer EXCEPT ![w] = Idle]
  /\ UNCHANGED <<nvs, spoiled, writes>>
----------------------------------------------------------------------------
(* parse_toml: every line is blank or gives a known key, once, a valid     *)
(* value; one line at least gives something.                               *)
Given(file) == {i \in DOMAIN file : file[i].key # 0}
Parses(file) ==
  /\ Given(file) # {}
  /\ \A i \in Given(file) :
       /\ file[i].key \in Keys /\ file[i].value # "bad"
       /\ \A j \in Given(file) : j < i => file[j].key # file[i].key
Gives(file) ==
  [k \in {file[i].key : i \in Given(file)} |->
     file[CHOOSE i \in Given(file) : file[i].key = k].value]

(* mp_config_import_toml: the whole file is read into a copy of s_config   *)
(* before anything is written.                                             *)
Import(file) ==
  /\ Begin("console")
  /\ IF Parses(file)
       THEN LET new == Gives(file)
                copy == [k \in Keys |-> IF k \in DOMAIN new THEN new[k] ELSE config[k]]
            IN  /\ writer' = [writer EXCEPT !["console"] =
                                [op |-> "import", keys |-> DOMAIN new, left |-> DOMAIN new, gives |-> copy]]
                /\ spoiled' = spoiled \cup Overlap("console", Keys)
       ELSE UNCHANGED <<writer, spoiled>>
  /\ UNCHANGED <<nvs, config>>

(* Mutant: the copy reaches s_config whether or not all was written.       *)
ImportWriteRegardless(fails) ==
  LET me == writer["console"]
      k  == Min(me.left)
  IN  /\ me.op = "import" /\ me.left # {}
      /\ Store(k, me.gives[k], fails)
      /\ IF fails
           THEN /\ writer' = [writer EXCEPT !["console"] = Idle]
                /\ config' = me.gives
                /\ spoiled' = spoiled \cup {k} \cup (me.keys \ me.left)
           ELSE /\ writer' = [writer EXCEPT !["console"].left = me.left \ {k}]
                /\ UNCHANGED <<config, spoiled>>
      /\ UNCHANGED writes

(* The next key goes to flash; a failure ends the import, and the keys     *)
(* written so far differ from RAM until the next boot.                     *)
ImportWrite(fails) ==
  LET me == writer["console"]
      k  == Min(me.left)
  IN  /\ me.op = "import" /\ me.left # {}
      /\ Store(k, me.gives[k], fails)
      /\ IF fails
           THEN /\ writer' = [writer EXCEPT !["console"] = Idle]
                /\ spoiled' = spoiled \cup {k} \cup (me.keys \ me.left)
           ELSE /\ writer' = [writer EXCEPT !["console"].left = me.left \ {k}]
                /\ UNCHANGED spoiled
      /\ UNCHANGED <<config, writes>>

ImportDone ==
  /\ writer["console"].op = "import" /\ writer["console"].left = {}
  /\ config' = writer["console"].gives
  /\ writer' = [writer EXCEPT !["console"] = Idle]
  /\ UNCHANGED <<nvs, spoiled, writes>>
----------------------------------------------------------------------------
(* mp_config_erase; one that fails has erased some of the keys.            *)
Erase(fails) ==
  /\ Begin("console")
  /\ IF fails
       THEN /\ \E gone \in SUBSET Keys : nvs' = [k \in Keys |-> IF k \in gone THEN Unset ELSE nvs[k]]
            /\ spoiled' = Keys /\ UNCHANGED writer
       ELSE /\ nvs' = [k \in Keys |-> Unset]
            /\ writer' = [writer EXCEPT !["console"] = [op |-> "erase", keys |-> Keys, left |-> {}, gives |-> [k \in Keys |-> Default]]]
            /\ spoiled' = Overlap("console", Keys)
  /\ UNCHANGED config

EraseDone ==
  /\ writer["console"].op = "erase"
  /\ config' = writer["console"].gives
  /\ writer' = [writer EXCEPT !["console"] = Idle]
  /\ UNCHANGED <<nvs, spoiled, writes>>

SettingsStep(fails) ==
  \/ \E w \in Writers, k \in Keys, v \in Values \cup {"bad"} : Set(w, k, v, fails)
  \/ \E file \in Files : ~fails /\ Import(file)
  \/ ImportWrite(fails)
  \/ Erase(fails)
  \/ ~fails /\ (ImportDone \/ EraseDone \/ \E w \in Writers : SetDone(w))

(* The power goes: an operation under way has written what it has written. *)
SettingsLost ==
  /\ writer' = [w \in Writers |-> Idle] /\ spoiled' = Keys
  /\ UNCHANGED <<nvs, config, writes>>

(* mp_config_init: the defaults, and over them what is in flash.           *)
SettingsLoad == config' = Loaded /\ spoiled' = {} /\ UNCHANGED <<nvs, writer, writes>>
----------------------------------------------------------------------------
(* The device runs with the settings a reboot would give it, and all of    *)
(* them are valid: a refused file changes nothing, a failing import leaves *)
(* the keys it did not come to alone.  Left out are keys whose operation   *)
(* is under way, failed, or overlapped another one (mp_config.c:350-414).  *)
SettingsHold ==
  /\ \A k \in Keys \ (spoiled \cup UNION {Touches(w) : w \in Writers}) : config[k] = Loaded[k]
  /\ \A k \in Keys : {config[k], Loaded[k]} \subseteq Values
=============================================================================
