------------------------------ MODULE ParamStore ------------------------------
(****************************************************************************)
(* The system parameter store of platform/common/params/wm_param.c: one RAM *)
(* image (flash_param) and two flash partitions, each in a sector of its    *)
(* own, that param_to_flash rewrites alternately.  A sector is rewritten by *)
(* tls_fls_write (platform/drivers/internalflash/wm_internal_fls.c): erase, *)
(* then program, under the flash driver's lock.  Power may be lost between  *)
(* any two steps; the next boot runs tls_param_init.                        *)
(*                                                                          *)
(* The parameters themselves are abstract values.  tls_param_set may change *)
(* one field or all of them, always under sys_param_lock, so a call stores  *)
(* some other value of Params.                                              *)
(****************************************************************************)
EXTENDS Integers, Sequences

CONSTANTS
    Tasks,      \* tasks that call the store once it is initialised
    Resetters,  \* those among them that may call tls_param_to_default
    Main,       \* the task_start task: it runs tls_param_init
    NoTask,     \* a free semaphore
    Params,     \* values of struct tls_sys_param
    Factory,    \* what tls_param_load_factory_default stores
    Zero,       \* the all-zero structure
    Erased,     \* contents of a sector that holds no record
    NoCrc,      \* crc32 of an image that was never sealed
    MaxCuts     \* bound on the number of power losses

Procs == Tasks \union {Main}

ASSUME ConstantsAssumption ==
    /\ Resetters \subseteq Tasks
    /\ Main \notin Tasks
    /\ NoTask \notin Procs
    /\ Factory \in Params
    /\ Zero \in Params
    /\ Erased \notin Params \union {0, 1}
    /\ MaxCuts \in Nat

(* tls_param_to_default takes no lock: whoever calls it has to make sure    *)
(* that no other task uses the store.                                       *)
ResetAlone == \A r \in Resetters : Tasks = {r}

Partitions == 0 .. 1

(* partition_num argument of param_to_flash that asks for the other one *)
Toggle == -1

Magic == 1                                      \* TLS_PARAM_MAGIC

(* struct tls_param_flash without its constant and reserved fields.  The    *)
(* crc is represented by the contents it was computed over.                 *)
Stamps == [magic : 0 .. Magic, partition_num : Partitions,
           modify_count : 0 .. 1, parameters : Params]

Images == [magic : 0 .. Magic, partition_num : Partitions,
           modify_count : 0 .. 1, parameters : Params,
           crc : Stamps \union {NoCrc}]

ASSUME ErasedAssumption == Erased \notin Images

get_crc32(img) ==
    [magic |-> img.magic, partition_num |-> img.partition_num,
     modify_count |-> img.modify_count, parameters |-> img.parameters]

Blank == [magic |-> 0, partition_num |-> 0, modify_count |-> 0,
          parameters |-> Zero, crc |-> NoCrc]

(* What tls_param_init accepts: the magic number and the crc are right *)
Valid(copy) == copy # Erased /\ copy.magic = Magic /\ copy.crc = get_crc32(copy)

(* The user defaults are not looked at, although a comment says so *)
tls_param_load_factory_default(img) == [img EXCEPT !.parameters = Factory]

VARIABLES
    flash,          \* the two partitions
    sector,         \* the partition whose sector tls_fls_write is rewriting
    fls_lock,       \* holder of the flash driver's semaphore
    flash_param,    \* the RAM image
    sys_param_lock, \* holder of the store's semaphore
    pc,             \* where each task is
    todo,           \* param_to_flash calls each task still has to make
    got,            \* what tls_param_get(.., from_flash) has read
    err,            \* result of tls_param_init in this power cycle
    cuts,           \* number of power losses so far
    acked           \* history: parameters a reboot may rightly find

vars == <<flash, sector, fls_lock, flash_param, sys_param_lock, pc, todo,
          got, err, cuts, acked>>

Labels == {"off", "idle", "init", "release", "done", "set", "save",
           "compare", "stamp", "match", "erase", "program", "verify",
           "address", "read", "copy"}

(* The labels inside param_to_flash *)
Writing == {"stamp", "match", "erase", "program", "verify"}

TypeOK ==
    /\ flash \in [Partitions -> Images \union {Erased}]
    /\ sector \in Partitions
    /\ fls_lock \in Procs \union {NoTask}
    /\ flash_param \in Images
    /\ sys_param_lock \in Procs \union {NoTask}
    /\ pc \in [Procs -> Labels]
    /\ todo \in [Procs -> Seq({Toggle} \union Partitions)]
    /\ got \in [Tasks -> Partitions \union Params \union {Erased}]
    /\ err \in {"OK", "EIO", "EMEM"}
    /\ cuts \in 0 .. MaxCuts
    /\ acked \in SUBSET Params

Init ==
    /\ flash = [i \in Partitions |-> Erased]
    /\ sector = 0
    /\ fls_lock = NoTask
    /\ flash_param = Blank
    /\ sys_param_lock = NoTask
    /\ pc = [p \in Procs |-> IF p = Main THEN "init" ELSE "off"]
    /\ todo = [p \in Procs |-> << >>]
    /\ got = [t \in Tasks |-> 0]
    /\ err = "OK"
    /\ cuts = 0
    /\ acked = {Factory}

-----------------------------------------------------------------------------
(* param_to_flash, run by task p for the partition argument Head(todo[p])   *)

Goto(p, label) == pc' = [pc EXCEPT ![p] = label]

(* Mutant: the partition number is not masked with 1 *)
Other_NoMask(num) == num + 1

(* (partition_num + 1) & 0x01 *)
Other(num) == (num + 1) % 2

Header(img, arg) ==
    [magic |-> Magic, modify_count |-> 1,
     partition_num |-> IF arg = Toggle THEN Other(img.partition_num) ELSE arg,
     parameters |-> img.parameters, crc |-> img.crc]

Sealed(img) == [img EXCEPT !.crc = get_crc32(img)]

(* Mutant: the crc is computed before the partition number is set *)
Stamped_CrcFirst(img, arg) ==
    [Header(img, arg) EXCEPT !.crc =
        get_crc32(Header(img, img.partition_num))]

(* Header fields, then the crc *)
Stamped(img, arg) == Sealed(Header(img, arg))

Stamp(p) ==
    /\ pc[p] = "stamp"
    /\ flash_param' = Stamped(flash_param, Head(todo[p]))
    /\ Goto(p, "match")
    /\ UNCHANGED <<flash, sector, fls_lock, sys_param_lock, todo, got, err,
                   cuts, acked>>

(* param_to_flash returns.  tls_param_init and tls_param_to_default go on   *)
(* with the next partition if it succeeded; tls_param_set and               *)
(* tls_param_to_flash release the lock.                                     *)
Return(p, ok) ==
    LET last == ~ok \/ Len(todo[p]) = 1
    IN  /\ todo' = [todo EXCEPT ![p] = IF last THEN << >> ELSE Tail(@)]
        /\ Goto(p, IF ~last THEN "stamp"
                   ELSE IF p = Main THEN "release" ELSE "idle")
        /\ err' = IF p = Main /\ ~ok THEN "EIO" ELSE err
        /\ sys_param_lock' = IF last /\ p # Main /\ sys_param_lock = p
                             THEN NoTask ELSE sys_param_lock
        /\ flash_param' = IF /\ p # Main
                             /\ Head(todo[p]) = 1
                          THEN [flash_param EXCEPT !.magic = 0]
                          ELSE flash_param
        /\ acked' = IF p = Main THEN acked
                    ELSE IF ok THEN {flash_param.parameters}
                    ELSE acked \union {flash_param.parameters}

(* param_flash_verify: FALSE when its buffer cannot be allocated *)
param_flash_verify(result) ==
    result \in {FALSE, flash[flash_param.partition_num] = flash_param}

Match(p) ==
    /\ pc[p] = "match"
    /\ fls_lock = NoTask
    /\ \E same \in BOOLEAN :
          /\ param_flash_verify(same)
          /\ \/ /\ same
                /\ Return(p, TRUE)
             \/ /\ ~same
                /\ Goto(p, "erase")
                /\ UNCHANGED <<flash_param, sys_param_lock, todo, err, acked>>
    /\ UNCHANGED <<flash, sector, fls_lock, got, cuts>>

(* tls_fls_write: take the driver's lock and erase the sector, ... *)
Erase(p) ==
    /\ pc[p] = "erase"
    /\ fls_lock = NoTask
    /\ fls_lock' = p
    /\ sector' = flash_param.partition_num
    /\ flash' = [flash EXCEPT ![flash_param.partition_num] = Erased]
    /\ Goto(p, "program")
    /\ UNCHANGED <<flash_param, sys_param_lock, todo, got, err, cuts, acked>>

(* ... then copy the RAM image into the sector buffer and program it *)
Program(p) ==
    /\ pc[p] = "program"
    /\ flash' = [flash EXCEPT ![sector] = flash_param]
    /\ fls_lock' = NoTask
    /\ Goto(p, "verify")
    /\ UNCHANGED <<sector, flash_param, sys_param_lock, todo, got, err, cuts,
                   acked>>

(* Mutant: a failed verification starts the write again *)
Verify_Retry(p) ==
    /\ pc[p] = "verify"
    /\ fls_lock = NoTask
    /\ \E same \in BOOLEAN :
          /\ param_flash_verify(same)
          /\ \/ /\ same
                /\ Return(p, TRUE)
             \/ /\ ~same
                /\ Goto(p, "erase")
                /\ UNCHANGED <<flash_param, sys_param_lock, todo, err, acked>>
    /\ UNCHANGED <<flash, sector, fls_lock, got, cuts>>

Verify(p) ==
    /\ pc[p] = "verify"
    /\ fls_lock = NoTask
    /\ \E same \in BOOLEAN : param_flash_verify(same) /\ Return(p, same)
    /\ UNCHANGED <<flash, sector, fls_lock, got, cuts>>

ParamToFlash(p) ==
    Stamp(p) \/ Match(p) \/ Erase(p) \/ Program(p) \/ Verify(p)

-----------------------------------------------------------------------------
(* tls_param_init *)

(* Mutant: the loop over the partitions stops one short *)
Damaged_First == {i \in {0} : ~Valid(flash[i])}

Damaged == {i \in Partitions : ~Valid(flash[i])}

(* One turn of the loading loop: take copy if nothing is loaded yet or if   *)
(* it has a higher modify_count.                                            *)
Load(img, copy) ==
    IF Valid(copy) /\ (img.magic = 0 \/ img.modify_count < copy.modify_count)
    THEN copy ELSE img

Loaded == Load(Load(Blank, flash[0]), flash[1])

(* The partitions to write, in order *)
Repairs ==
    IF Damaged = {} THEN << >>
    ELSE IF Damaged = Partitions THEN <<0, 1>>
    ELSE IF 0 \in Damaged THEN <<0>> ELSE <<1>>

InitLoad ==
    /\ pc[Main] = "init"
    /\ sys_param_lock' = Main
    /\ \/ /\ err' = "EMEM"                       \* no memory for the buffer
          /\ flash_param' = Blank
          /\ Goto(Main, "release")
          /\ UNCHANGED todo
       \/ /\ flash_param' = IF Damaged = Partitions
                            THEN tls_param_load_factory_default(Blank)
                            ELSE Loaded
          /\ todo' = [todo EXCEPT ![Main] = Repairs]
          /\ Goto(Main, IF Damaged = {} THEN "release" ELSE "stamp")
          /\ UNCHANGED err
    /\ UNCHANGED <<flash, sector, fls_lock, got, cuts, acked>>

(* The lock is released and the application's tasks start *)
InitReturn ==
    /\ pc[Main] = "release"
    /\ sys_param_lock' = NoTask
    /\ pc' = [p \in Procs |-> IF p = Main THEN "done" ELSE "idle"]
    /\ acked' = IF err = "OK" THEN {flash_param.parameters} ELSE acked
    /\ UNCHANGED <<flash, sector, fls_lock, flash_param, todo, got, err, cuts>>

-----------------------------------------------------------------------------
(* The calls of an application task t.  Call is the entry, the other        *)
(* actions are the steps between two points where other tasks may run.      *)

Call(t) ==
    /\ pc[t] = "idle"
    /\ \E entry \in {"set", "save", "address", "copy"} :
          /\ Goto(t, entry)
          /\ got' = [got EXCEPT ![t] = 0]
    /\ UNCHANGED <<flash, sector, fls_lock, flash_param, sys_param_lock, todo,
                   err, cuts, acked>>

(* tls_param_set: update RAM, and go on to param_to_flash if to_flash *)
Set(t) ==
    /\ pc[t] = "set"
    /\ sys_param_lock = NoTask
    /\ \E value \in Params, to_flash \in BOOLEAN :
          /\ flash_param' = [flash_param EXCEPT !.parameters = value]
          /\ sys_param_lock' = IF to_flash THEN t ELSE NoTask
          /\ todo' = [todo EXCEPT ![t] = IF to_flash THEN <<Toggle>> ELSE @]
          /\ Goto(t, IF to_flash THEN "stamp" ELSE "idle")
    /\ UNCHANGED <<flash, sector, fls_lock, got, err, cuts, acked>>

(* tls_param_to_flash: take the lock, ... *)
Save(t) ==
    /\ pc[t] = "save"
    /\ sys_param_lock = NoTask
    /\ sys_param_lock' = t
    /\ \E all \in BOOLEAN :                      \* TLS_PARAM_ID_ALL or one id
          /\ Goto(t, IF all THEN "compare" ELSE "stamp")
          /\ todo' = [todo EXCEPT ![t] = IF all THEN @ ELSE <<Toggle>>]
    /\ UNCHANGED <<flash, sector, fls_lock, flash_param, got, err, cuts, acked>>

(* Mutant: always compares with the first partition *)
SameParameters_First ==
    flash[0] # Erased /\ flash[0].parameters = flash_param.parameters

SameParameters ==
    LET copy == flash[flash_param.partition_num]
    IN  copy # Erased /\ copy.parameters = flash_param.parameters

(* ... and for TLS_PARAM_ID_ALL return if the current partition already has *)
(* these parameters (not noticed when the buffer cannot be allocated)       *)
Compare(t) ==
    /\ pc[t] = "compare"
    /\ fls_lock = NoTask
    /\ \/ /\ SameParameters
          /\ Goto(t, "idle")
          /\ sys_param_lock' = NoTask
          /\ acked' = {flash_param.parameters}
          /\ UNCHANGED todo
       \/ /\ Goto(t, "stamp")
          /\ todo' = [todo EXCEPT ![t] = <<Toggle>>]
          /\ UNCHANGED <<sys_param_lock, acked>>
    /\ UNCHANGED <<flash, sector, fls_lock, flash_param, got, err, cuts>>

(* tls_param_get(.., from_flash): the address is taken from partition_num,  *)
(* without sys_param_lock, ...                                              *)
GetAddress(t) ==
    /\ pc[t] = "address"
    /\ \/ /\ got' = [got EXCEPT ![t] = flash_param.partition_num]
          /\ Goto(t, "read")
       \/ /\ Goto(t, "copy")                     \* no memory: use the RAM image
          /\ UNCHANGED got
    /\ UNCHANGED <<flash, sector, fls_lock, flash_param, sys_param_lock, todo,
                   err, cuts, acked>>

(* Mutant: reads without waiting for the driver's lock *)
GetRead_NoLock(t) ==
    /\ pc[t] = "read"
    /\ LET copy == flash[got[t]]
       IN  got' = [got EXCEPT ![t] =
                      IF copy = Erased THEN Erased ELSE copy.parameters]
    /\ Goto(t, "copy")
    /\ UNCHANGED <<flash, sector, fls_lock, flash_param, sys_param_lock, todo,
                   err, cuts, acked>>

(* ... then tls_fls_read waits for the driver's lock and reads the copy,    *)
(* whose magic and crc are not looked at, ...                               *)
GetRead(t) ==
    /\ pc[t] = "read"
    /\ fls_lock = NoTask
    /\ LET copy == flash[got[t]]
       IN  got' = [got EXCEPT ![t] =
                      IF copy = Erased THEN Erased ELSE copy.parameters]
    /\ Goto(t, "copy")
    /\ UNCHANGED <<flash, sector, fls_lock, flash_param, sys_param_lock, todo,
                   err, cuts, acked>>

(* ... and the field is copied to the caller under sys_param_lock.  A get   *)
(* from RAM is this step alone.                                             *)
GetCopy(t) ==
    /\ pc[t] = "copy"
    /\ sys_param_lock = NoTask
    /\ Goto(t, "idle")
    /\ got' = [got EXCEPT ![t] = 0]
    /\ UNCHANGED <<flash, sector, fls_lock, flash_param, sys_param_lock, todo,
                   err, cuts, acked>>

(* Mutant: the factory parameters are not loaded *)
ToDefault_NoLoad(t) ==
    /\ t \in Resetters
    /\ pc[t] = "idle"
    /\ todo' = [todo EXCEPT ![t] = <<0, 1>>]
    /\ Goto(t, "stamp")
    /\ UNCHANGED <<flash, sector, fls_lock, flash_param, sys_param_lock, got,
                   err, cuts, acked>>

(* tls_param_to_default, up to its first param_to_flash: no lock is taken *)
ToDefault(t) ==
    /\ t \in Resetters
    /\ pc[t] = "idle"
    /\ flash_param' = tls_param_load_factory_default(flash_param)
    /\ todo' = [todo EXCEPT ![t] = <<0, 1>>]
    /\ Goto(t, "stamp")
    /\ UNCHANGED <<flash, sector, fls_lock, sys_param_lock, got, err, cuts,
                   acked>>

-----------------------------------------------------------------------------
(* Power loss: RAM is gone, the flash keeps what it has.  A save that was   *)
(* under way may or may not be found by the next boot.                      *)
PowerCut ==
    /\ cuts < MaxCuts
    /\ cuts' = cuts + 1
    /\ fls_lock' = NoTask
    /\ flash_param' = Blank
    /\ sys_param_lock' = NoTask
    /\ pc' = [p \in Procs |-> IF p = Main THEN "init" ELSE "off"]
    /\ todo' = [p \in Procs |-> << >>]
    /\ got' = [t \in Tasks |-> 0]
    /\ err' = "OK"
    /\ acked' = IF \E t \in Tasks : pc[t] \in Writing
                THEN acked \union {flash_param.parameters} ELSE acked
    /\ UNCHANGED <<flash, sector>>

TaskStep(t) ==
    \/ Set(t) \/ Save(t) \/ Compare(t)
    \/ GetAddress(t) \/ GetRead(t) \/ GetCopy(t)
    \/ ParamToFlash(t)

Boot == InitLoad \/ InitReturn \/ ParamToFlash(Main)

Next ==
    \/ Boot
    \/ \E t \in Tasks : TaskStep(t) \/ Call(t) \/ ToDefault(t)
    \/ PowerCut

Spec == Init /\ [][Next]_vars

(* Tasks run until their call has returned; a semaphore that is released    *)
(* again and again is granted to every waiter in the end (the kernel queues *)
(* waiters of one priority in order).                                       *)
Fairness ==
    /\ WF_vars(Boot)
    /\ \A t \in Tasks : WF_vars(TaskStep(t))
    /\ \A t \in Tasks : SF_vars(Set(t) \/ Save(t) \/ GetCopy(t))
    /\ \A t \in Tasks : SF_vars(GetRead(t) \/ Compare(t) \/ Match(t)
                                \/ Erase(t) \/ Verify(t))

-----------------------------------------------------------------------------
(* Properties *)

(* tls_param_init has returned *)
Ready == pc[Main] = "done"

(* Once tls_param_init has succeeded, both partitions hold a record that    *)
(* tls_param_init would accept, except the one a task is between erasing    *)
(* and programming (tls_fls_write called from param_to_flash).              *)
BothCopies ==
    Ready /\ err = "OK" =>
        \A i \in Partitions :
            Valid(flash[i]) \/ (sector = i /\ \E t \in Tasks : pc[t] = "program")

HasCopy == \E i \in Partitions : Valid(flash[i])

(* No step, of the boot or of any interleaving of calls, and no power loss  *)
(* destroys the last record that tls_param_init would accept, as long as    *)
(* tls_param_init has reported no error in this power cycle.                *)
KeepsACopy == [][err = "OK" /\ HasCopy => HasCopy']_vars

(* When no task is inside param_to_flash, the partition that the RAM image  *)
(* names, from which tls_param_get(.., from_flash) reads, holds the         *)
(* parameters of the last save (or of one that reported an error since).    *)
CurrentIsSaved ==
    (Ready /\ err = "OK" /\ \A t \in Tasks : pc[t] \notin Writing) =>
        flash[flash_param.partition_num].parameters \in acked

(* tls_param_get(.., from_flash) picks the partition without the store's    *)
(* lock and checks neither magic nor crc of what it reads.  Still it never  *)
(* hands out the contents of an erased sector.                              *)
GetReadsARecord ==
    Ready /\ err = "OK" =>
        \A t \in Tasks : pc[t] = "copy" => got[t] # Erased

(* From the return of tls_param_to_default to the next save both partitions *)
(* hold the factory parameters, so that a reboot finds them.                *)
ResetIsDurable ==
    (Ready /\ err = "OK" /\ flash_param.magic = 0) =>
        \A i \in Partitions :
            Valid(flash[i]) /\ flash[i].parameters = Factory

(* "Load the latest parameters" (tls_param_init): what a boot finds is the  *)
(* result of the last save, or of a save that power loss interrupted.       *)
LoadsLatest ==
    (pc[Main] = "release" /\ err = "OK") => flash_param.parameters \in acked

(* Every call of the store returns, unless power is lost before: no task    *)
(* waits for ever on sys_param_lock or on the flash driver's lock.          *)
CallsReturn ==
    \A t \in Tasks : pc[t] \notin {"idle", "off"} ~> pc[t] \in {"idle", "off"}

(* tls_param_init returns, whatever power losses left in the flash. *)
BootCompletes == pc[Main] # "done" ~> Ready
=============================================================================
