----------------------------- MODULE ConfigStore -----------------------------
(***************************************************************************)
(* Config (src/src/config.cpp, config.h): the settings in memory and the   *)
(* file they are saved to.  A change takes m_mutex, is made in memory and  *)
(* releases it; Save takes it again, opens the file, which truncates it,   *)
(* and writes all settings.  The process may end between any two of these  *)
(* steps (Restart, in the module that extends this one).                   *)
(*                                                                         *)
(* Settings are functions of their keys.  The contents of the file are a   *)
(* function of some of the keys: none when the file is missing, empty,     *)
(* torn or cannot be parsed.                                               *)
(***************************************************************************)
CONSTANTS Keys,         \* the dotted paths
          Defaults,     \* Defaults()
          Faults,       \* of "throw" and "save": what may go wrong
          Null          \* no thread

VARIABLES
    config,     \* m_json
    file,       \* what is in the file
    saver,      \* the thread that holds m_mutex in Save, or Null
    \* history, read by properties only
    unsaved     \* a change that was not followed by a Save, or whose Save has failed

Empty == [k \in {} |-> Null]

(* MergeDefaults: a key that is missing gets its default.                  *)
MergeDefaults_Overwrites(f) == [k \in Keys |-> Defaults[k]]

MergeDefaults(f) == [k \in Keys |-> IF k \in DOMAIN f THEN f[k] ELSE Defaults[k]]

Load(f) ==
    /\ config = MergeDefaults(f)
    /\ file = f
    /\ saver = Null
    /\ unsaved = FALSE

(* m_mutex of Config, for all but the thread in Save.                      *)
StoreFree == saver = Null

(* Update and SetValue: the values v of the keys ks.                       *)
Merged(s, ks, v) == [k \in Keys |-> IF k \in ks THEN v[k] ELSE s[k]]

Change(ks, v) ==
    /\ StoreFree
    /\ config' = Merged(config, ks, v)
    /\ UNCHANGED <<file, saver, unsaved>>

(* An update with a path that cannot be set throws: the keys before it     *)
(* have been changed, Save is not called.                                  *)
ChangeThrows(ks, v) ==
    /\ StoreFree /\ "throw" \in Faults
    /\ config' = Merged(config, ks, v)
    /\ unsaved' = TRUE
    /\ UNCHANGED <<file, saver>>

(* Save: the file is truncated by opening it ...                           *)
SaveOpen(t) ==
    /\ StoreFree
    /\ saver' = t
    /\ file' = Empty
    /\ UNCHANGED <<config, unsaved>>

(* ... or cannot be opened, which is logged.                               *)
SaveFails ==
    /\ StoreFree /\ "save" \in Faults
    /\ unsaved' = TRUE
    /\ UNCHANGED <<config, file, saver>>

(* The settings are written.  Nobody looks at the result: a full disk      *)
(* leaves a torn file.                                                     *)
SaveWrite(t) ==
    /\ saver = t
    /\ saver' = Null
    /\ \/ file' = config /\ unsaved' = FALSE
       \/ "save" \in Faults /\ file' = Empty /\ unsaved' = TRUE
    /\ UNCHANGED config

(* The process ends, whatever its threads were doing, and starts again.    *)
Reload ==
    /\ config' = MergeDefaults(file)
    /\ saver' = Null
    /\ unsaved' = FALSE
    /\ UNCHANGED file
==============================================================================
