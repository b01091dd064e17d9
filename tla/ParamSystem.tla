----------------------------- MODULE ParamSystem ------------------------------
(****************************************************************************)
(* All of platform/common/params/wm_param.c: the parameter store and the    *)
(* user defaults, over one flash driver.  They meet in tls_param_set, which *)
(* changes the one or the other depending on updp_mode, and reads updp_mode *)
(* twice: before it takes the lock and after the change.                    *)
(****************************************************************************)
EXTENDS ParamStore

CONSTANT Users      \* tasks that use the functions for the user defaults

VARIABLES
    user, cache, user_default_param, updp_mode, upc, crc32, fresh,
    param           \* what the tls_param_set of each task is to change

uservars == <<user, cache, user_default_param, updp_mode, upc, crc32, fresh>>
allvars == <<vars, uservars, param>>

UD == INSTANCE UserDefaults WITH Tasks <- Users, Blank <- Erased, pc <- upc

SystemInit == Init /\ UD!Init /\ param = [t \in Tasks |-> "none"]

(* Mutant: the structure is not tested for NULL *)
SetEntry_NoTest(t) ==
    /\ pc[t] = "set" /\ param[t] = "none"
    /\ \/ /\ updp_mode
          /\ param' = [param EXCEPT ![t] = "user"]
          /\ \/ UD!tls_param_user_param_init
             \/ UNCHANGED <<user_default_param, fresh>>
       \/ /\ ~updp_mode
          /\ param' = [param EXCEPT ![t] = "store"]
          /\ UNCHANGED <<user_default_param, fresh>>
    /\ UNCHANGED <<vars, user, cache, updp_mode, upc, crc32>>

(* tls_param_set chooses what to change: in updp_mode the structure of the  *)
(* user defaults, for which there may be no memory, ...                     *)
SetEntry(t) ==
    /\ pc[t] = "set" /\ param[t] = "none"
    /\ \/ /\ updp_mode
          /\ param' = [param EXCEPT ![t] = "user"]
          /\ UD!tls_param_user_param_init
          /\ UNCHANGED pc
       \/ /\ updp_mode /\ user_default_param = Erased
          /\ Goto(t, "idle")
          /\ UNCHANGED <<param, user_default_param, fresh>>
       \/ /\ ~updp_mode
          /\ param' = [param EXCEPT ![t] = "store"]
          /\ UNCHANGED <<pc, user_default_param, fresh>>
    /\ UNCHANGED <<flash, sector, fls_lock, flash_param, sys_param_lock, todo,
                   got, err, cuts, acked, user, cache, updp_mode, upc, crc32>>

(* ... changes it under the lock, and goes on to param_to_flash if to_flash *)
(* and not (any more) in updp_mode                                          *)
SetBody(t) ==
    /\ pc[t] = "set" /\ param[t] # "none"
    /\ sys_param_lock = NoTask
    /\ param' = [param EXCEPT ![t] = "none"]
    /\ \E value \in Params, to_flash \in BOOLEAN :
          /\ \/ /\ param[t] = "store"
                /\ flash_param' = [flash_param EXCEPT !.parameters = value]
                /\ UNCHANGED <<user_default_param, fresh>>
             \/ /\ param[t] = "user"
                /\ UD!Change(value)
                /\ UNCHANGED flash_param
          /\ IF to_flash /\ ~updp_mode
             THEN /\ sys_param_lock' = t
                  /\ todo' = [todo EXCEPT ![t] = <<Toggle>>]
                  /\ Goto(t, "stamp")
             ELSE Goto(t, "idle") /\ UNCHANGED <<sys_param_lock, todo>>
    /\ UNCHANGED <<flash, sector, fls_lock, got, err, cuts, acked,
                   user, cache, updp_mode, upc, crc32>>

(* The other steps of the store.  tls_param_get and tls_param_to_flash are  *)
(* left out here: they have nothing in common with the user defaults.       *)
StoreStep ==
    /\ \/ Boot
       \/ \E t \in Tasks :
             \/ ParamToFlash(t)
             \/ /\ t \in Users => upc[t] = "idle"
                /\ (Call(t) /\ pc'[t] = "set") \/ ToDefault(t)
    /\ UNCHANGED <<uservars, param>>

(* The user defaults: a task makes one call at a time *)
UserStep(t) ==
    /\ \/ Ready /\ (t \in Tasks => pc[t] = "idle") /\ UD!Calls(t)
       \/ UD!Steps(t)
    /\ UNCHANGED <<flash, sector, flash_param, sys_param_lock, pc, todo, got,
                   err, cuts, acked, param>>

PowerLoss == PowerCut /\ UD!Lost /\ param' = [t \in Tasks |-> "none"]

SystemNext ==
    \/ StoreStep
    \/ \E t \in Tasks : SetEntry(t) \/ SetBody(t)
    \/ \E t \in Users : UserStep(t)
    \/ PowerLoss

SystemSpec == SystemInit /\ [][SystemNext]_allvars

-----------------------------------------------------------------------------
(* Properties *)

(* What the store alone guarantees it also guarantees beside the user       *)
(* defaults: a save of these, which takes the flash driver's lock only, and *)
(* a change of updp_mode in the middle of tls_param_set look to the store   *)
(* like nothing, or like a set that changes nothing.                        *)
PS == INSTANCE ParamStore WITH
        fls_lock <- IF \E t \in Users : UD!Programming(t) THEN NoTask ELSE fls_lock
ImplementsStore == PS!Spec

(* The types, and that tls_param_set has the structure it is going to       *)
(* change.                                                                  *)
SystemTypeOK ==
    /\ PS!TypeOK /\ UD!TypeOK
    /\ param \in [Tasks -> {"none", "store", "user"}]
    /\ \A t \in Tasks : param[t] = "user" => user_default_param # Erased

(* A save of the user defaults that no other save and no change of          *)
(* user_default_param interfered with ends with parameters in flash that    *)
(* tls_param_load_user accepts and that are those of the save, whatever     *)
(* earlier, interrupted or interleaved saves left in the sector             *)
(* (tls_param_save_user_default).                                           *)
SaveIsLoadable == [][UD!SavesLoadable]_allvars
=============================================================================
