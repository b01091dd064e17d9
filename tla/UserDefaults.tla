----------------------------- MODULE UserDefaults -----------------------------
(****************************************************************************)
(* The user default parameters of platform/common/params/wm_param.c: a RAM  *)
(* structure (user_default_param) that tls_param_save_user_default stores   *)
(* in one flash sector with three calls of tls_fls_write: magic, parameters,*)
(* crc.  Each call rewrites the whole sector.  None of this takes a lock    *)
(* against a concurrent save.  ParamSystem combines it with the parameter   *)
(* store, which shares the flash driver and whose tls_param_set can change  *)
(* the structure too.                                                       *)
(****************************************************************************)
EXTENDS Naturals

CONSTANTS
    Tasks,      \* tasks that call these functions
    NoTask,     \* a free semaphore
    Params,     \* values of struct tls_sys_param
    Zero,       \* the all-zero structure
    Blank       \* erased flash; also: no structure allocated

VARIABLES
    user,               \* sector at TLS_FLASH_PARAM_DEFAULT
    cache,              \* image of the sector while tls_fls_write holds one
    fls_lock,           \* holder of the flash driver's semaphore
    user_default_param, \* the RAM structure, Blank when not allocated
    updp_mode,
    pc,                 \* the field each task writes next
    crc32,              \* the crc computed by each task
    fresh               \* history: what each task's save is to store, Blank
                        \* when something interfered with the save

Sectors == [magic : {0, 1}, param : Params \union {Blank},
            crc : Params \union {Blank}]

ErasedSector == [magic |-> 0, param |-> Blank, crc |-> Blank]

TypeOK ==
    /\ user \in Sectors
    /\ cache \in Sectors
    /\ user_default_param \in Params \union {Blank}
    /\ updp_mode \in BOOLEAN
    /\ pc \in [Tasks -> {"idle", "magic", "param", "crc",
                         "program magic", "program param", "program crc"}]
    /\ crc32 \in [Tasks -> Params \union {Blank}]
    /\ fresh \in [Tasks -> Params \union {Blank}]

Init ==
    /\ user = ErasedSector
    /\ cache = ErasedSector
    /\ user_default_param = Blank
    /\ updp_mode = FALSE
    /\ pc = [t \in Tasks |-> "idle"]
    /\ crc32 = [t \in Tasks |-> Blank]
    /\ fresh = [t \in Tasks |-> Blank]

Goto(t, label) == pc' = [pc EXCEPT ![t] = label]

(* user_default_param changes, which interferes with the saves under way *)
Change(value) ==
    /\ user_default_param' = value
    /\ fresh' = [s \in Tasks |-> Blank]

(* t starts to save value, which interferes with other saves under way *)
Saving(t, value) ==
    [s \in Tasks |-> IF s = t /\ \A o \in Tasks : pc[o] = "idle"
                     THEN value ELSE Blank]

(* tls_param_user_param_init: the structure is allocated, zeroed *)
tls_param_user_param_init ==
    IF user_default_param = Blank THEN Change(Zero)
    ELSE UNCHANGED <<user_default_param, fresh>>

tls_param_set_updp_mode(mode) ==
    /\ updp_mode' = mode
    /\ UNCHANGED <<user, cache, fls_lock, user_default_param, pc, crc32, fresh>>

(* tls_param_save_user_default is entered: nothing to save, or three writes *)
SaveUserDefault(t) ==
    /\ pc[t] = "idle"
    /\ user_default_param # Blank
    /\ Goto(t, "magic")
    /\ fresh' = Saving(t, user_default_param)
    /\ UNCHANGED <<user, cache, fls_lock, user_default_param, updp_mode, crc32>>

(* tls_param_save_user: fill the structure, in part with constants, then    *)
(* save it                                                                  *)
tls_param_save_user(t, value) ==
    /\ pc[t] = "idle"
    /\ user_default_param' = value
    /\ Goto(t, "magic")
    /\ fresh' = Saving(t, value)
    /\ UNCHANGED <<user, cache, fls_lock, updp_mode, crc32>>

(* Mutant: the driver's lock is not waited for *)
WriteErase_NoLock(t) ==
    /\ pc[t] \in {"magic", "param", "crc"}
    /\ fls_lock' = t
    /\ cache' = user
    /\ user' = ErasedSector
    /\ Goto(t, CASE pc[t] = "magic" -> "program magic"
                 [] pc[t] = "param" -> "program param"
                 [] pc[t] = "crc"   -> "program crc")
    /\ UNCHANGED <<user_default_param, updp_mode, crc32, fresh>>

(* One tls_fls_write: the sector is read into the driver's buffer and       *)
(* erased, under the driver's lock.                                         *)
WriteErase(t) ==
    /\ pc[t] \in {"magic", "param", "crc"}
    /\ fls_lock = NoTask
    /\ fls_lock' = t
    /\ cache' = user
    /\ user' = ErasedSector
    /\ Goto(t, CASE pc[t] = "magic" -> "program magic"
                 [] pc[t] = "param" -> "program param"
                 [] pc[t] = "crc"   -> "program crc")
    /\ UNCHANGED <<user_default_param, updp_mode, crc32, fresh>>

(* The sector is erased and not yet programmed *)
Programming(t) == pc[t] \in {"program magic", "program param", "program crc"}

(* Mutant: the sector buffer is not filled before the erase *)
Merged_NoRead(t) ==
    CASE pc[t] = "program magic" -> [ErasedSector EXCEPT !.magic = 1]
      [] pc[t] = "program param" -> [ErasedSector EXCEPT !.param = user_default_param]
      [] pc[t] = "program crc"   -> [ErasedSector EXCEPT !.crc = crc32[t]]

(* The new bytes are put into the buffer *)
Merged(t) ==
    CASE pc[t] = "program magic" -> [cache EXCEPT !.magic = 1]
      [] pc[t] = "program param" -> [cache EXCEPT !.param = user_default_param]
      [] pc[t] = "program crc"   -> [cache EXCEPT !.crc = crc32[t]]

(* The sector is programmed and the lock released.  After the parameters    *)
(* have been written their crc is computed, from RAM.                       *)
WriteProgram(t) ==
    /\ Programming(t)
    /\ fls_lock' = NoTask
    /\ user' = Merged(t)
    /\ cache' = ErasedSector
    /\ Goto(t, CASE pc[t] = "program magic" -> "param"
                 [] pc[t] = "program param" -> "crc"
                 [] pc[t] = "program crc"   -> "idle")
    /\ crc32' = [crc32 EXCEPT ![t] = IF pc[t] = "program param"
                                     THEN user_default_param ELSE Blank]
    /\ fresh' = [fresh EXCEPT ![t] = IF pc[t] = "program crc" THEN Blank ELSE @]
    /\ UNCHANGED <<user_default_param, updp_mode>>

(* tls_param_load_user: the parameters, or Blank for EINVALID *)
tls_param_load_user ==
    IF user.magic = 1 /\ user.crc = user.param THEN user.param ELSE Blank

(* Power loss: RAM is gone *)
Lost ==
    /\ user_default_param' = Blank
    /\ updp_mode' = FALSE
    /\ pc' = [t \in Tasks |-> "idle"]
    /\ crc32' = [t \in Tasks |-> Blank]
    /\ fresh' = [t \in Tasks |-> Blank]
    /\ cache' = ErasedSector
    /\ UNCHANGED user

(* The steps of task t that do not depend on the parameter store; another   *)
(* call may be made by a task that has none under way                       *)
Calls(t) ==
    \/ \E mode \in BOOLEAN : tls_param_set_updp_mode(mode)
    \/ \E value \in Params \ {Zero} : tls_param_save_user(t, value)
    \/ SaveUserDefault(t)

Steps(t) == WriteErase(t) \/ WriteProgram(t)

-----------------------------------------------------------------------------
(* A save that no other save and no change of user_default_param interfered *)
(* with ends with parameters in flash that tls_param_load_user accepts and  *)
(* that are those of the save, whatever earlier, interrupted or interleaved *)
(* saves left in the sector.                                                *)
SavesLoadable ==
    \A t \in Tasks :
        (pc[t] = "program crc" /\ WriteProgram(t) /\ fresh[t] # Blank)
           => tls_param_load_user' = fresh[t]
=============================================================================
