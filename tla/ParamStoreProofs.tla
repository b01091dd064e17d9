--------------------------- MODULE ParamStoreProofs ---------------------------
(* Proofs about ParamStore, for any set of tasks and parameters and any     *)
(* number of power losses.                                                  *)
EXTENDS ParamStore, TLAPS

USE ConstantsAssumption DEF Procs, Partitions, Toggle, Magic

-----------------------------------------------------------------------------
(* Typing *)

(* Tasks are inside param_to_flash with one of these arguments left *)
TodoInv ==
    /\ \A t \in Tasks :
          pc[t] \in Writing => todo[t] \in {<<Toggle>>, <<0, 1>>, <<1>>}
    /\ pc[Main] \in Writing => todo[Main] \in {<<0>>, <<1>>, <<0, 1>>}
    /\ \A t \in Tasks : pc[t] = "read" => got[t] \in Partitions

Typed == TypeOK /\ TodoInv

(* Other stays within the two partitions and is never the identity. *)
LEMMA OtherType ==
    ASSUME NEW num \in Partitions
    PROVE  Other(num) \in Partitions /\ Other(num) # num
  BY DEF Other

(* Setting the header fields of an image yields an image for the partition  *)
(* that the argument of param_to_flash asks for.                            *)
LEMMA HeaderType ==
    ASSUME NEW img \in Images, NEW arg \in {Toggle} \union Partitions
    PROVE  /\ Header(img, arg) \in Images
           /\ Header(img, arg).magic = Magic
           /\ Header(img, arg).modify_count = 1
           /\ Header(img, arg).parameters = img.parameters
           /\ arg # Toggle => Header(img, arg).partition_num = arg
<1> DEFINE num == IF arg = Toggle THEN Other(img.partition_num) ELSE arg
<1>1. num \in Partitions
  BY OtherType DEF Images
<1>2. /\ Header(img, arg) \in Images
      /\ Header(img, arg).magic = Magic
      /\ Header(img, arg).modify_count = 1
      /\ Header(img, arg).parameters = img.parameters
      /\ Header(img, arg).partition_num = num
  BY <1>1 DEF Header, Images
<1> QED
  BY <1>2

(* Sealing an image changes its crc only, and makes it right. *)
LEMMA SealedType ==
    ASSUME NEW img \in Images
    PROVE  /\ Sealed(img) \in Images
           /\ Sealed(img).magic = img.magic
           /\ Sealed(img).modify_count = img.modify_count
           /\ Sealed(img).parameters = img.parameters
           /\ Sealed(img).partition_num = img.partition_num
           /\ Sealed(img).crc = get_crc32(Sealed(img))
  BY DEF Sealed, Images, Stamps, get_crc32

(* An image stamped by param_to_flash is one that tls_param_init accepts. *)
LEMMA StampedType ==
    ASSUME NEW img \in Images, NEW arg \in {Toggle} \union Partitions
    PROVE  /\ Stamped(img, arg) \in Images
           /\ Stamped(img, arg).magic = Magic
           /\ Stamped(img, arg).crc = get_crc32(Stamped(img, arg))
           /\ Stamped(img, arg).modify_count = 1
           /\ Stamped(img, arg).parameters = img.parameters
           /\ arg # Toggle => Stamped(img, arg).partition_num = arg
  BY HeaderType, SealedType DEF Stamped

(* Changing one field of an image yields an image. *)
LEMMA ImageExcept ==
    ASSUME NEW img \in Images, NEW v \in Params
    PROVE  /\ [img EXCEPT !.magic = 0] \in Images
           /\ [img EXCEPT !.magic = 0].magic = 0
           /\ [img EXCEPT !.magic = 0].partition_num = img.partition_num
           /\ [img EXCEPT !.magic = 0].parameters = img.parameters
           /\ [img EXCEPT !.parameters = v] \in Images
           /\ [img EXCEPT !.parameters = v].parameters = v
           /\ [img EXCEPT !.parameters = v].partition_num = img.partition_num
           /\ [img EXCEPT !.parameters = v].magic = img.magic
  BY DEF Images

(* The blank image is an image. *)
LEMMA BlankType == Blank \in Images
  BY DEF Blank, Images, Stamps

(* What the loading loop of tls_param_init yields is an image. *)
LEMMA LoadedType == TypeOK => Loaded \in Images
  BY BlankType DEF Loaded, Load, Valid, TypeOK

(* The initial state is typed. *)
LEMMA InitTyped == Init => Typed
  BY BlankType DEF Init, Typed, TypeOK, TodoInv, Labels, Writing

(* The arguments left when one param_to_flash call has returned. *)
LEMMA TodoSeq ==
    /\ Head(<<Toggle>>) = Toggle /\ Len(<<Toggle>>) = 1
    /\ Head(<<0>>) = 0 /\ Len(<<0>>) = 1
    /\ Head(<<1>>) = 1 /\ Len(<<1>>) = 1
    /\ Head(<<0, 1>>) = 0 /\ Len(<<0, 1>>) = 2 /\ Tail(<<0, 1>>) = <<1>>
    /\ <<Toggle>> # <<0, 1>> /\ <<Toggle>> # <<1>>
    /\ <<0>> # <<1>> /\ <<0>> # <<0, 1>> /\ <<1>> # <<0, 1>>
    /\ <<Toggle>> \in Seq({Toggle} \union Partitions)
    /\ <<0>> \in Seq({Toggle} \union Partitions)
    /\ <<1>> \in Seq({Toggle} \union Partitions)
    /\ <<0, 1>> \in Seq({Toggle} \union Partitions)
    /\ << >> \in Seq({Toggle} \union Partitions)
  OBVIOUS

(* Return keeps the types, for any process inside param_to_flash. *)
LEMMA ReturnTyped ==
    ASSUME Typed, NEW p \in Procs, NEW ok \in BOOLEAN, pc[p] \in Writing,
           Return(p, ok), UNCHANGED <<flash, sector, fls_lock, got, cuts>>
    PROVE  Typed'
<1>1. todo[p] \in {<<Toggle>>, <<0>>, <<1>>, <<0, 1>>}
  BY DEF Typed, TodoInv
<1>2. todo' = [todo EXCEPT ![p] = IF ~ok \/ Len(todo[p]) = 1
                                  THEN << >> ELSE Tail(todo[p])]
  BY DEF Return
<1>3. todo'[p] \in {<< >>, <<1>>}
  BY <1>1, <1>2, TodoSeq DEF Typed, TypeOK
<1>4. todo' \in [Procs -> Seq({Toggle} \union Partitions)]
  <2>1. todo'[p] \in Seq({Toggle} \union Partitions)
    BY <1>3, TodoSeq
  <2> QED BY <1>2, <2>1 DEF Typed, TypeOK
<1>5. flash_param' \in Images
  BY ImageExcept DEF Return, Typed, TypeOK
<1>6. acked' \in SUBSET Params
  BY DEF Return, Typed, TypeOK, Images
<1>7. TypeOK'
  BY <1>4, <1>5, <1>6 DEF Return, Typed, TypeOK, Goto, Labels
<1>8. pc'[p] \in Writing => todo'[p] = <<1>>
  <2>1. CASE ~ok \/ Len(todo[p]) = 1
    BY <2>1 DEF Return, Goto, Writing, Typed, TypeOK
  <2>2. CASE ok /\ Len(todo[p]) # 1
    BY <2>2, <1>1, <1>2, TodoSeq DEF Typed, TypeOK
  <2> QED BY <2>1, <2>2
<1>9. TodoInv'
  BY <1>2, <1>8 DEF Return, Goto, Typed, TypeOK, TodoInv, Writing
<1> QED BY <1>7, <1>9 DEF Typed

(* Every step keeps the types. *)
LEMMA NextTyped == Typed /\ [Next]_vars => Typed'
<1> SUFFICES ASSUME Typed, [Next]_vars
             PROVE  Typed'
  OBVIOUS
<1> USE DEF Typed, TodoInv, Labels, Writing, Goto
<1>1. ASSUME NEW p \in Procs, Stamp(p) PROVE Typed'
  <2>1. Head(todo[p]) \in {Toggle} \union Partitions
    BY <1>1, TodoSeq DEF Stamp
  <2>2. flash_param' \in Images
    BY <1>1, <2>1, StampedType DEF Stamp, TypeOK
  <2> QED BY <1>1, <2>2 DEF Stamp, TypeOK
<1>2. ASSUME NEW p \in Procs, Match(p) PROVE Typed'
  <2>1. CASE Return(p, TRUE)
    BY <1>2, <2>1, ReturnTyped DEF Match
  <2>2. CASE Goto(p, "erase") /\ UNCHANGED <<flash_param, sys_param_lock, todo,
                                             err, acked>>
    BY <1>2, <2>2 DEF Match, TypeOK
  <2> QED BY <1>2, <2>1, <2>2 DEF Match
<1>3. ASSUME NEW p \in Procs, Erase(p) PROVE Typed'
  BY <1>3 DEF Erase, TypeOK, Images
<1>4. ASSUME NEW p \in Procs, Program(p) PROVE Typed'
  BY <1>4 DEF Program, TypeOK
<1>5. ASSUME NEW p \in Procs, Verify(p) PROVE Typed'
  BY <1>5, ReturnTyped DEF Verify
<1>6. ASSUME InitLoad PROVE Typed'
  <2>1. flash_param' \in Images
    <3>1. [Blank EXCEPT !.parameters = Factory] \in Images
      BY BlankType, ImageExcept
    <3> QED BY <1>6, <3>1, BlankType, LoadedType DEF InitLoad,
             tls_param_load_factory_default
  <2>2. /\ todo' \in [Procs -> Seq({Toggle} \union Partitions)]
        /\ pc'[Main] \in Writing => todo'[Main] \in {<<0>>, <<1>>, <<0, 1>>}
        /\ \A t \in Tasks : todo'[t] = todo[t]
    <3>1. CASE UNCHANGED todo /\ Goto(Main, "release")
      BY <3>1 DEF TypeOK
    <3>2. CASE /\ todo' = [todo EXCEPT ![Main] = Repairs]
               /\ Goto(Main, IF Damaged = {} THEN "release" ELSE "stamp")
      <4>1. /\ Repairs \in {<< >>, <<0>>, <<1>>, <<0, 1>>}
            /\ Damaged # {} => Repairs \in {<<0>>, <<1>>, <<0, 1>>}
        BY DEF Repairs
      <4>2. Repairs \in Seq({Toggle} \union Partitions)
        BY <4>1, TodoSeq
      <4> QED BY <3>2, <4>1, <4>2 DEF TypeOK
    <3> QED BY <1>6, <3>1, <3>2 DEF InitLoad
  <2> QED BY <1>6, <2>1, <2>2 DEF InitLoad, TypeOK
<1>7. ASSUME InitReturn PROVE Typed'
  BY <1>7 DEF InitReturn, TypeOK, Images
<1>8. ASSUME NEW t \in Tasks, Call(t) PROVE Typed'
  BY <1>8 DEF Call, TypeOK
<1>9. ASSUME NEW t \in Tasks, Set(t) PROVE Typed'
  <2>1. PICK value \in Params, to_flash \in BOOLEAN :
          /\ flash_param' = [flash_param EXCEPT !.parameters = value]
          /\ sys_param_lock' = IF to_flash THEN t ELSE NoTask
          /\ todo' = [todo EXCEPT ![t] = IF to_flash THEN <<Toggle>> ELSE todo[t]]
          /\ Goto(t, IF to_flash THEN "stamp" ELSE "idle")
    BY <1>9 DEF Set
  <2>2. flash_param' \in Images
    BY <2>1, ImageExcept DEF TypeOK
  <2>3. /\ todo' \in [Procs -> Seq({Toggle} \union Partitions)]
        /\ pc'[t] \in Writing => todo'[t] = <<Toggle>>
        /\ \A p \in Procs \ {t} : todo'[p] = todo[p]
    BY <2>1, TodoSeq DEF TypeOK
  <2>4. TypeOK'
    BY <1>9, <2>1, <2>2, <2>3 DEF Set, TypeOK
  <2> QED BY <1>9, <2>1, <2>3, <2>4 DEF Set, TypeOK
<1>10. ASSUME NEW t \in Tasks, Save(t) PROVE Typed'
  <2>1. PICK all \in BOOLEAN :
          /\ Goto(t, IF all THEN "compare" ELSE "stamp")
          /\ todo' = [todo EXCEPT ![t] = IF all THEN todo[t] ELSE <<Toggle>>]
    BY <1>10 DEF Save
  <2>2. /\ todo' \in [Procs -> Seq({Toggle} \union Partitions)]
        /\ pc'[t] \in Writing => todo'[t] = <<Toggle>>
        /\ \A p \in Procs \ {t} : todo'[p] = todo[p]
    BY <2>1, TodoSeq DEF TypeOK
  <2> QED BY <1>10, <2>1, <2>2 DEF Save, TypeOK
<1>11. ASSUME NEW t \in Tasks, Compare(t) PROVE Typed'
  <2>1. /\ todo' \in [Procs -> Seq({Toggle} \union Partitions)]
        /\ pc'[t] \in Writing => todo'[t] = <<Toggle>>
        /\ \A p \in Procs \ {t} : todo'[p] = todo[p]
    <3>1. CASE UNCHANGED todo /\ Goto(t, "idle")
      BY <3>1 DEF TypeOK
    <3>2. CASE todo' = [todo EXCEPT ![t] = <<Toggle>>]
      BY <3>2, TodoSeq DEF TypeOK
    <3> QED BY <1>11, <3>1, <3>2 DEF Compare
  <2>2. acked' \in SUBSET Params
    BY <1>11 DEF Compare, TypeOK, Images
  <2> QED BY <1>11, <2>1, <2>2 DEF Compare, TypeOK
<1>12. ASSUME NEW t \in Tasks, GetAddress(t) PROVE Typed'
  <2>1. flash_param.partition_num \in Partitions
    BY DEF TypeOK, Images
  <2> QED BY <1>12, <2>1 DEF GetAddress, TypeOK
<1>13. ASSUME NEW t \in Tasks, GetRead(t) PROVE Typed'
  <2>1. got' \in [Tasks -> Partitions \union Params \union {Erased}]
    BY <1>13 DEF GetRead, TypeOK, Images
  <2> QED BY <1>13, <2>1 DEF GetRead, TypeOK
<1>14. ASSUME NEW t \in Tasks, GetCopy(t) PROVE Typed'
  BY <1>14 DEF GetCopy, TypeOK
<1>15. ASSUME NEW t \in Tasks, ToDefault(t) PROVE Typed'
  BY <1>15, ImageExcept, TodoSeq DEF ToDefault, TypeOK,
     tls_param_load_factory_default
<1>16. ASSUME PowerCut PROVE Typed'
  BY <1>16, BlankType DEF PowerCut, TypeOK, Images
<1>17. ASSUME UNCHANGED vars PROVE Typed'
  BY <1>17 DEF vars, TypeOK
<1> QED
  BY <1>1, <1>2, <1>3, <1>4, <1>5, <1>6, <1>7, <1>8, <1>9, <1>10, <1>11,
     <1>12, <1>13, <1>14, <1>15, <1>16, <1>17
     DEF Next, Boot, TaskStep, ParamToFlash

(* Each variable keeps its type in every behaviour. *)
THEOREM TypeCorrect == Spec => []TypeOK
<1>1. Typed => TypeOK
  BY DEF Typed
<1> QED BY <1>1, InitTyped, NextTyped, PTL DEF Spec

-----------------------------------------------------------------------------
(* Mutual exclusion *)

(* Who may be where: the boot runs alone; a task in param_to_flash or at    *)
(* the comparison of tls_param_to_flash holds sys_param_lock, unless it is  *)
(* the only task; the flash driver's lock is held between erase and program.*)
LockInv ==
    /\ pc[Main] \in Writing \union {"init", "release", "done"}
    /\ ~Ready => \A t \in Tasks : pc[t] = "off"
    /\ \A t \in Tasks : pc[t] \in Writing \union {"compare"} =>
          sys_param_lock = t \/ Tasks = {t}
    /\ \A p \in Procs : fls_lock = p <=> pc[p] = "program"

(* At most one process is inside param_to_flash. *)
LEMMA OneWriter ==
    ASSUME LockInv, NEW p \in Procs, NEW q \in Procs,
           pc[p] \in Writing, pc[q] \in Writing
    PROVE  p = q
  BY DEF LockInv, Writing, Ready

(* Every step keeps the mutual exclusion. *)
LEMMA NextLock == ResetAlone /\ Typed /\ LockInv /\ [Next]_vars => LockInv'
<1> SUFFICES ASSUME ResetAlone, Typed, LockInv, [Next]_vars
             PROVE  LockInv'
  OBVIOUS
<1> pc \in [Procs -> Labels]
  BY DEF Typed, TypeOK
<1> USE DEF LockInv, Ready, Writing, Goto
<1>1. ASSUME NEW p \in Procs, Stamp(p) PROVE LockInv'
  BY <1>1 DEF Stamp
<1>2. ASSUME NEW p \in Procs, NEW ok \in BOOLEAN, Return(p, ok),
             pc[p] \in {"match", "verify"}, UNCHANGED fls_lock
      PROVE  LockInv'
  <2>1. PICK next \in {"stamp", "release", "idle"} :
          /\ pc' = [pc EXCEPT ![p] = next]
          /\ next = "release" => p = Main
          /\ next = "idle" => p # Main
          /\ next = "stamp" => ok /\ Len(todo[p]) # 1
    BY <1>2 DEF Return
  <2>2. CASE p = Main
    <3>1. UNCHANGED sys_param_lock
      BY <1>2, <2>2 DEF Return
    <3> QED BY <1>2, <2>1, <2>2, <3>1
  <2>3. CASE p # Main
    <3>1. /\ sys_param_lock' \in {sys_param_lock, NoTask}
          /\ sys_param_lock' # sys_param_lock =>
                next # "stamp" /\ sys_param_lock = p
      BY <1>2, <2>1, <2>3 DEF Return
    <3> QED BY <1>2, <2>1, <2>3, <3>1
  <2> QED BY <2>2, <2>3
<1>3. ASSUME NEW p \in Procs, Match(p) PROVE LockInv'
  <2>1. CASE Return(p, TRUE)
    BY <1>2, <1>3, <2>1 DEF Match
  <2>2. CASE Goto(p, "erase") /\ UNCHANGED sys_param_lock
    BY <1>3, <2>2 DEF Match
  <2> QED BY <1>3, <2>1, <2>2 DEF Match
<1>4. ASSUME NEW p \in Procs, Erase(p) PROVE LockInv'
  BY <1>4 DEF Erase
<1>5. ASSUME NEW p \in Procs, Program(p) PROVE LockInv'
  BY <1>5 DEF Program
<1>6. ASSUME NEW p \in Procs, Verify(p) PROVE LockInv'
  BY <1>2, <1>6 DEF Verify
<1>7. ASSUME InitLoad PROVE LockInv'
  BY <1>7 DEF InitLoad
<1>8. ASSUME InitReturn PROVE LockInv'
  BY <1>8 DEF InitReturn
<1>9. ASSUME NEW t \in Tasks, Call(t) PROVE LockInv'
  BY <1>9 DEF Call
<1>10. ASSUME NEW t \in Tasks, Set(t) PROVE LockInv'
  BY <1>10 DEF Set
<1>11. ASSUME NEW t \in Tasks, Save(t) PROVE LockInv'
  BY <1>11 DEF Save
<1>12. ASSUME NEW t \in Tasks, Compare(t) PROVE LockInv'
  BY <1>12 DEF Compare
<1>13. ASSUME NEW t \in Tasks, GetAddress(t) \/ GetRead(t) \/ GetCopy(t)
       PROVE  LockInv'
  BY <1>13 DEF GetAddress, GetRead, GetCopy
<1>14. ASSUME NEW t \in Tasks, ToDefault(t) PROVE LockInv'
  BY <1>14 DEF ToDefault, ResetAlone
<1>15. ASSUME PowerCut PROVE LockInv'
  BY <1>15 DEF PowerCut
<1>16. ASSUME UNCHANGED vars PROVE LockInv'
  BY <1>16 DEF vars
<1> QED
  BY <1>1, <1>3, <1>4, <1>5, <1>6, <1>7, <1>8, <1>9, <1>10, <1>11, <1>12,
     <1>13, <1>14, <1>15, <1>16 DEF Next, Boot, TaskStep, ParamToFlash

-----------------------------------------------------------------------------
(* The record that is being written *)

Busy == {"match", "erase", "program", "verify"}

(* Between the stamping of the RAM image and the return of param_to_flash   *)
(* nobody touches the image.                                                *)
ImageInv ==
    \A p \in Procs : pc[p] \in Busy =>
        /\ Valid(flash_param)
        /\ flash_param.modify_count = 1
        /\ pc[p] = "program" => sector = flash_param.partition_num
        /\ pc[p] = "verify" => flash[flash_param.partition_num] = flash_param
        /\ p = Main => flash_param.partition_num = Head(todo[Main])

(* While a task sets, compares or resets, no other process is inside        *)
(* param_to_flash.                                                          *)
LEMMA NoOtherWriter ==
    ASSUME ResetAlone, LockInv, NEW t \in Tasks,
           Set(t) \/ ToDefault(t) \/ Compare(t) \/ Save(t)
    PROVE  \A p \in Procs : pc[p] \notin Writing
  BY DEF LockInv, Ready, Writing, Set, ToDefault, Compare, Save, ResetAlone

(* Every step leaves the image alone while it is being written. *)
LEMMA NextImage ==
    ResetAlone /\ Typed /\ LockInv /\ ImageInv /\ [Next]_vars => ImageInv'
<1> SUFFICES ASSUME ResetAlone, Typed, LockInv, ImageInv, [Next]_vars
             PROVE  ImageInv'
  OBVIOUS
<1>a. pc \in [Procs -> Labels] /\ flash_param \in Images
      /\ flash \in [Partitions -> Images \union {Erased}]
      /\ todo \in [Procs -> Seq({Toggle} \union Partitions)]
      /\ flash_param.partition_num \in Partitions
  BY DEF Typed, TypeOK, Images
<1>b. Busy \subseteq Writing
  BY DEF Busy, Writing
<1>1. ASSUME NEW p \in Procs, Stamp(p) PROVE ImageInv'
  <2>1. Head(todo[p]) \in {Toggle} \union Partitions
        /\ (p = Main => Head(todo[p]) # Toggle)
    BY <1>1, TodoSeq DEF Stamp, Typed, TodoInv, Writing
  <2>2. /\ flash_param' \in Images
        /\ flash_param'.magic = Magic
        /\ flash_param'.crc = get_crc32(flash_param')
        /\ flash_param'.modify_count = 1
        /\ p = Main => flash_param'.partition_num = Head(todo[p])
    BY <1>1, <1>a, <2>1, StampedType DEF Stamp
  <2>3. Valid(flash_param')
    BY <2>2, ErasedAssumption DEF Valid
  <2>4. \A q \in Procs : q # p => pc[q] \notin Writing
    BY <1>1, OneWriter DEF Stamp, Writing
  <2>5. pc'[p] = "match" /\ \A q \in Procs : q # p => pc'[q] = pc[q]
    BY <1>1, <1>a DEF Stamp, Goto
  <2> QED BY <1>1, <1>a, <1>b, <2>2, <2>3, <2>4, <2>5 DEF ImageInv, Stamp
<1>2. ASSUME NEW p \in Procs, NEW ok \in BOOLEAN, Return(p, ok),
             pc[p] \in Busy
      PROVE  ImageInv'
  <2>1. \A q \in Procs : q # p => pc[q] \notin Writing
    BY <1>2, <1>b, OneWriter
  <2>2. pc'[p] \notin Busy /\ \A q \in Procs : q # p => pc'[q] = pc[q]
    BY <1>2, <1>a DEF Return, Goto, Busy
  <2> QED BY <1>b, <2>1, <2>2 DEF ImageInv
<1>3. ASSUME NEW p \in Procs, Match(p) PROVE ImageInv'
  <2>1. CASE Return(p, TRUE)
    BY <1>2, <1>3, <2>1 DEF Match, Busy
  <2>2. CASE Goto(p, "erase") /\ UNCHANGED <<flash_param, todo>>
    BY <1>3, <1>a, <2>2 DEF Match, Busy, Goto, ImageInv
  <2> QED BY <1>3, <2>1, <2>2 DEF Match
<1>4. ASSUME NEW p \in Procs, Erase(p) \/ Program(p) PROVE ImageInv'
  <2>1. \A q \in Procs : q # p => pc[q] \notin Writing
    BY <1>4, OneWriter DEF Erase, Program, Writing
  <2>2. pc[p] \in Busy /\ \A q \in Procs : q # p => pc'[q] = pc[q]
    BY <1>4, <1>a DEF Erase, Program, Busy, Goto
  <2>3. CASE Erase(p)
    BY <2>3, <1>a, <1>b, <2>1, <2>2 DEF Erase, Goto, ImageInv
  <2>4. CASE Program(p)
    BY <2>4, <1>a, <1>b, <2>1, <2>2 DEF Program, Goto, ImageInv
  <2> QED BY <1>4, <2>3, <2>4
<1>5. ASSUME NEW p \in Procs, Verify(p) PROVE ImageInv'
  BY <1>2, <1>5 DEF Verify, Busy
<1>6. ASSUME InitLoad \/ InitReturn \/ PowerCut PROVE ImageInv'
  <2>1. \A p \in Procs : pc'[p] \notin Busy
    BY <1>6, <1>a DEF InitLoad, InitReturn, PowerCut, Goto, Busy, LockInv, Ready
  <2> QED BY <2>1 DEF ImageInv
<1>7. ASSUME NEW t \in Tasks, Set(t) \/ ToDefault(t) \/ Compare(t) \/ Save(t)
      PROVE  ImageInv'
  <2>1. \A p \in Procs : pc[p] \notin Busy
    BY <1>7, <1>b, NoOtherWriter
  <2>2. \A p \in Procs : pc'[p] \notin Busy
    BY <1>7, <1>a, <2>1 DEF Set, ToDefault, Compare, Save, Goto, Busy
  <2> QED BY <2>2 DEF ImageInv
<1>8. ASSUME NEW t \in Tasks,
             Call(t) \/ GetAddress(t) \/ GetRead(t) \/ GetCopy(t)
      PROVE  ImageInv'
  <2>1. /\ UNCHANGED <<flash, flash_param, sector, todo>>
        /\ \A p \in Procs : pc'[p] \in Busy => pc'[p] = pc[p]
    BY <1>8, <1>a DEF Call, GetAddress, GetRead, GetCopy, Goto, Busy
  <2> QED BY <2>1 DEF ImageInv
<1>9. ASSUME UNCHANGED vars PROVE ImageInv'
  BY <1>9 DEF vars, ImageInv
<1> QED
  BY <1>1, <1>3, <1>4, <1>5, <1>6, <1>7, <1>8, <1>9
     DEF Next, Boot, TaskStep, ParamToFlash

-----------------------------------------------------------------------------
(* The copies in flash *)

(* tls_param_init rewrites damaged partitions only, and has repaired them   *)
(* all when it succeeds.                                                    *)
BootInv ==
    /\ pc[Main] \in {"stamp", "match", "erase"} =>
          ~Valid(flash[Head(todo[Main])])
    /\ pc[Main] \in Writing =>
          /\ todo[Main] = <<0, 1>> => ~Valid(flash[1])
          /\ todo[Main] = <<0>> => Valid(flash[1])
          /\ todo[Main] = <<1>> => Valid(flash[0])
    /\ (pc[Main] = "release" /\ err = "OK") =>
          \A i \in Partitions : Valid(flash[i])

(* A partition holds records that were made for it. *)
HomeInv == \A i \in Partitions : Valid(flash[i]) => flash[i].partition_num = i

Base == ResetAlone /\ Typed /\ LockInv /\ ImageInv

(* The facts on types that the following proofs use. *)
LEMMA Types ==
    ASSUME Typed
    PROVE  /\ pc \in [Procs -> Labels]
           /\ flash_param \in Images
           /\ flash_param.partition_num \in Partitions
           /\ sector \in Partitions
           /\ flash \in [Partitions -> Images \union {Erased}]
           /\ todo \in [Procs -> Seq({Toggle} \union Partitions)]
           /\ got \in [Tasks -> Partitions \union Params \union {Erased}]
  BY DEF Typed, TypeOK, Images

(* The flash changes by Erase and Program only. *)
LEMMA FlashChanges ==
    ASSUME [Next]_vars, flash' # flash
    PROVE  \E p \in Procs : Erase(p) \/ Program(p)
  BY DEF Next, Boot, TaskStep, ParamToFlash, vars, Stamp, Match, Verify,
         InitLoad, InitReturn, Call, Set, Save, Compare, GetAddress, GetRead,
         GetCopy, ToDefault, PowerCut

(* An erased sector holds no valid record. *)
LEMMA ErasedInvalid == ~Valid(Erased)
  BY DEF Valid

(* Every step keeps the records at home. *)
LEMMA NextHome == Base /\ HomeInv /\ [Next]_vars => HomeInv'
<1> SUFFICES ASSUME Base, HomeInv, [Next]_vars PROVE HomeInv'
  OBVIOUS
<1>1. CASE UNCHANGED flash
  BY <1>1 DEF HomeInv
<1>2. ASSUME NEW p \in Procs, Erase(p) PROVE HomeInv'
  BY <1>2, Types, ErasedInvalid DEF Base, HomeInv, Erase
<1>3. ASSUME NEW p \in Procs, Program(p) PROVE HomeInv'
  <2>1. sector = flash_param.partition_num
    BY <1>3 DEF Program, Base, ImageInv, Busy
  <2> QED BY <1>3, <2>1, Types DEF Base, HomeInv, Program
<1> QED BY <1>1, <1>2, <1>3, FlashChanges

(* Main inside param_to_flash: which partition, and who else is there. *)
LEMMA MainWrites ==
    ASSUME Base, pc[Main] \in Writing
    PROVE  /\ todo[Main] \in {<<0>>, <<1>>, <<0, 1>>}
           /\ Head(todo[Main]) \in Partitions
           /\ \A t \in Tasks : pc[t] = "off"
  BY TodoSeq DEF Base, Typed, TodoInv, LockInv, Ready, Writing

(* The two ways for Main to leave param_to_flash. *)
LEMMA MainReturn ==
    ASSUME Base, BootInv, NEW ok \in BOOLEAN, Return(Main, ok),
           pc[Main] \in {"match", "verify"}, UNCHANGED flash,
           ok => flash[flash_param.partition_num] = flash_param
    PROVE  BootInv'
<1>1. todo[Main] \in {<<0>>, <<1>>, <<0, 1>>}
  BY MainWrites DEF Writing
<1>2. /\ Valid(flash_param)
      /\ flash_param.partition_num = Head(todo[Main])
  BY DEF Base, ImageInv, Busy
<1>3. ok => Valid(flash[Head(todo[Main])])
  BY <1>2
<1>4. CASE ~ok
  <2>1. pc'[Main] = "release" /\ err' = "EIO"
    BY <1>4, Types DEF Return, Goto, Base
  <2> QED BY <2>1 DEF BootInv, Writing
<1>5. CASE ok /\ todo[Main] = <<0, 1>>
  <2>1. pc'[Main] = "stamp" /\ todo'[Main] = <<1>>
    BY <1>5, Types, TodoSeq DEF Return, Goto, Base
  <2>2. Valid(flash[0]) /\ ~Valid(flash[1])
    BY <1>3, <1>5, TodoSeq DEF BootInv, Writing
  <2> QED BY <2>1, <2>2, TodoSeq DEF BootInv, Writing
<1>6. CASE ok /\ todo[Main] # <<0, 1>>
  <2>1. pc'[Main] = "release"
    BY <1>1, <1>6, Types, TodoSeq DEF Return, Goto, Base
  <2>2. Valid(flash[0]) /\ Valid(flash[1])
    BY <1>1, <1>3, <1>6, TodoSeq DEF BootInv, Writing
  <2> QED BY <2>1, <2>2 DEF BootInv, Writing
<1> QED BY <1>4, <1>5, <1>6

(* Every step keeps BootInv. *)
LEMMA NextBoot == Base /\ BootInv /\ [Next]_vars => BootInv'
<1> SUFFICES ASSUME Base, BootInv, [Next]_vars PROVE BootInv'
  OBVIOUS
<1>1. ASSUME Stamp(Main) PROVE BootInv'
  BY <1>1, Types DEF Base, Stamp, Goto, BootInv, Writing
<1>2. ASSUME Match(Main) PROVE BootInv'
  <2>1. CASE Return(Main, TRUE) /\ flash[flash_param.partition_num] = flash_param
    BY <1>2, <2>1, MainReturn DEF Match
  <2>2. CASE Goto(Main, "erase") /\ UNCHANGED <<todo, err>>
    BY <1>2, <2>2, Types DEF Base, Match, Goto, BootInv, Writing
  <2> QED BY <1>2, <2>1, <2>2 DEF Match, param_flash_verify
<1>3. ASSUME Erase(Main) PROVE BootInv'
  <2>1. flash_param.partition_num = Head(todo[Main])
    BY <1>3 DEF Erase, Base, ImageInv, Busy
  <2>2. /\ todo[Main] \in {<<0>>, <<1>>, <<0, 1>>}
    BY <1>3, MainWrites DEF Erase, Writing
  <2>3. /\ pc'[Main] = "program" /\ UNCHANGED todo
        /\ flash' = [flash EXCEPT ![Head(todo[Main])] = Erased]
    BY <1>3, <2>1, Types DEF Erase, Goto, Base
  <2> QED BY <1>3, <2>2, <2>3, Types, TodoSeq, ErasedInvalid
          DEF Erase, BootInv, Writing, Base
<1>4. ASSUME Program(Main) PROVE BootInv'
  <2>1. sector = Head(todo[Main])
    BY <1>4 DEF Program, Base, ImageInv, Busy
  <2>2. /\ todo[Main] \in {<<0>>, <<1>>, <<0, 1>>}
    BY <1>4, MainWrites DEF Program, Writing
  <2>3. /\ pc'[Main] = "verify" /\ UNCHANGED todo
        /\ flash' = [flash EXCEPT ![Head(todo[Main])] = flash_param]
    BY <1>4, <2>1, Types DEF Program, Goto, Base
  <2> QED BY <1>4, <2>2, <2>3, Types, TodoSeq DEF Program, BootInv, Writing, Base
<1>5. ASSUME Verify(Main) PROVE BootInv'
  BY <1>5, MainReturn DEF Verify, param_flash_verify
<1>6. ASSUME InitLoad PROVE BootInv'
  <2>1. CASE err' = "EMEM" /\ Goto(Main, "release")
    BY <1>6, <2>1, Types DEF BootInv, Goto, Writing, Base
  <2>2. CASE /\ todo' = [todo EXCEPT ![Main] = Repairs]
             /\ Goto(Main, IF Damaged = {} THEN "release" ELSE "stamp")
    <3>1. UNCHANGED flash /\ todo'[Main] = Repairs
      BY <1>6, <2>2, Types DEF InitLoad, Base
    <3>2. CASE Damaged = {}
      BY <2>2, <3>1, <3>2, Types DEF BootInv, Goto, Writing, Damaged, Base
    <3>3. CASE Damaged # {}
      <4>1. pc'[Main] = "stamp"
        BY <2>2, <3>3, Types DEF Goto, Base
      <4>2. CASE Damaged = Partitions
        BY <3>1, <3>3, <4>1, <4>2, TodoSeq DEF BootInv, Repairs, Damaged
      <4>3. CASE Damaged # Partitions /\ 0 \in Damaged
        BY <3>1, <3>3, <4>1, <4>3, TodoSeq DEF BootInv, Repairs, Damaged
      <4>4. CASE Damaged # Partitions /\ 0 \notin Damaged
        BY <3>1, <3>3, <4>1, <4>4, TodoSeq DEF BootInv, Repairs, Damaged
      <4> QED BY <4>2, <4>3, <4>4
    <3> QED BY <3>2, <3>3
  <2> QED BY <1>6, <2>1, <2>2 DEF InitLoad
<1>7. ASSUME InitReturn \/ PowerCut PROVE BootInv'
  BY <1>7 DEF InitReturn, PowerCut, BootInv, Writing
<1>8. ASSUME NEW t \in Tasks, TaskStep(t) \/ Call(t) \/ ToDefault(t)
      PROVE  BootInv'
  <2>1. pc[t] # "off" /\ pc'[Main] = pc[Main]
    BY <1>8, Types DEF Base, TaskStep, ParamToFlash, Call, ToDefault, Set, Save,
       Compare, GetAddress, GetRead, GetCopy, Stamp, Match, Erase, Program,
       Verify, Return, Goto
  <2>2. pc[Main] = "done"
    BY <2>1 DEF Base, LockInv, Ready
  <2> QED BY <2>1, <2>2 DEF BootInv, Writing
<1>9. ASSUME UNCHANGED vars PROVE BootInv'
  BY <1>9 DEF vars, BootInv
<1> QED
  BY <1>1, <1>2, <1>3, <1>4, <1>5, <1>6, <1>7, <1>8, <1>9
     DEF Next, Boot, ParamToFlash

(* A step of an application task happens after the boot. *)
LEMMA TaskAfterBoot ==
    ASSUME Base, NEW t \in Tasks, TaskStep(t) \/ Call(t) \/ ToDefault(t)
    PROVE  Ready /\ Ready' /\ UNCHANGED err
<1>1. pc[t] # "off" /\ pc'[Main] = pc[Main] /\ UNCHANGED err
  BY Types DEF Base, TaskStep, ParamToFlash, Call, ToDefault, Set, Save,
     Compare, GetAddress, GetRead, GetCopy, Stamp, Match, Erase, Program,
     Verify, Return, Goto
<1> QED BY <1>1 DEF Base, LockInv, Ready

(* A step of the boot or a power loss ends outside Ready, or is the return  *)
(* of tls_param_init.                                                       *)
LEMMA BootStep ==
    ASSUME Base, Boot \/ PowerCut, Ready'
    PROVE  InitReturn
  BY Types DEF Base, Boot, PowerCut, InitLoad, ParamToFlash, Stamp, Match,
     Erase, Program, Verify, Return, Goto, Ready

(* Who writes to the flash, and where. *)
LEMMA Writes ==
    ASSUME Base, NEW t \in Tasks, Erase(t) \/ Program(t)
    PROVE  /\ Erase(t) => /\ \A q \in Tasks : pc[q] # "program"
                          /\ pc'[t] = "program"
                          /\ sector' = flash_param.partition_num
                          /\ flash' = [flash EXCEPT ![sector'] = Erased]
           /\ Program(t) => /\ flash' = [flash EXCEPT ![sector] = flash_param]
                            /\ Valid(flash_param)
<1>1. CASE Erase(t)
  <2>1. pc[t] = "erase" /\ \A q \in Tasks : pc[q] \in Writing => q = t
    BY <1>1, OneWriter DEF Erase, Base, Writing
  <2>2. \A q \in Tasks : pc[q] # "program"
    BY <2>1 DEF Writing
  <2> QED BY <1>1, <2>1, <2>2, Types DEF Erase, Base, Goto, Program
<1>2. CASE Program(t)
  BY <1>2 DEF Program, Erase, Base, ImageInv, Busy
<1> QED BY <1>1, <1>2

(* Every step keeps both copies. *)
LEMMA NextCopies == Base /\ BootInv /\ BothCopies /\ [Next]_vars => BothCopies'
<1> SUFFICES ASSUME Base, BootInv, BothCopies, [Next]_vars,
                    Ready', err' = "OK", NEW i \in Partitions,
                    ~Valid(flash'[i])
             PROVE  sector' = i /\ \E t \in Tasks : pc'[t] = "program"
  BY DEF BothCopies
<1>1. CASE Boot \/ PowerCut
  <2>1. InitReturn
    BY <1>1, BootStep
  <2> QED BY <2>1 DEF InitReturn, BootInv
<1>2. ASSUME NEW t \in Tasks, Erase(t) \/ Program(t)
      PROVE  sector' = i /\ \E q \in Tasks : pc'[q] = "program"
  <2>1. Ready /\ err = "OK"
    BY <1>2, TaskAfterBoot DEF TaskStep, ParamToFlash
  <2>2. CASE Erase(t)
    BY <1>2, <2>1, <2>2, Writes, Types DEF BothCopies, Base
  <2>3. CASE Program(t)
    BY <1>2, <2>1, <2>3, Writes, Types DEF BothCopies, Base, Program
  <2> QED BY <1>2, <2>2, <2>3
<1>3. ASSUME NEW t \in Tasks, TaskStep(t) \/ Call(t) \/ ToDefault(t),
             ~Erase(t), ~Program(t)
      PROVE  sector' = i /\ \E q \in Tasks : pc'[q] = "program"
  <2>1. Ready /\ err = "OK"
    BY <1>3, TaskAfterBoot
  <2>2. UNCHANGED <<flash, sector>> /\ pc[t] # "program"
        /\ \A q \in Tasks : q # t => pc'[q] = pc[q]
    BY <1>3, Types DEF Base, TaskStep, ParamToFlash, Call, ToDefault, Set, Save,
       Compare, GetAddress, GetRead, GetCopy, Stamp, Match, Verify, Return, Goto
  <2> QED BY <2>1, <2>2 DEF BothCopies
<1>4. CASE UNCHANGED vars
  BY <1>4 DEF vars, BothCopies, Ready
<1> QED BY <1>1, <1>2, <1>3, <1>4 DEF Next, TaskStep, ParamToFlash

(* No step destroys the last copy. *)
LEMMA NextKeeps ==
    Base /\ BootInv /\ BothCopies /\ [Next]_vars
        => (err = "OK" /\ HasCopy => HasCopy')
<1> SUFFICES ASSUME Base, BootInv, BothCopies, [Next]_vars, err = "OK",
                    NEW i \in Partitions, Valid(flash[i])
             PROVE  HasCopy'
  BY DEF HasCopy
<1>1. CASE UNCHANGED flash
  BY <1>1 DEF HasCopy
<1>2. ASSUME Erase(Main) PROVE HasCopy'
  <2>1. flash_param.partition_num = Head(todo[Main])
    BY <1>2 DEF Erase, Base, ImageInv, Busy
  <2>2. ~Valid(flash[flash_param.partition_num])
    BY <1>2, <2>1 DEF Erase, BootInv
  <2>3. i # flash_param.partition_num
    BY <2>2
  <2> QED BY <1>2, <2>3, Types DEF Erase, HasCopy, Base
<1>3. ASSUME NEW p \in Procs, Program(p) PROVE HasCopy'
  <2>1. Valid(flash_param)
    BY <1>3 DEF Program, Base, ImageInv, Busy
  <2> QED BY <1>3, <2>1, Types DEF Program, HasCopy, Base
<1>4. ASSUME NEW t \in Tasks, Erase(t) PROVE HasCopy'
  <2>1. Ready
    BY <1>4, TaskAfterBoot DEF TaskStep, ParamToFlash
  <2>2. \A j \in Partitions : Valid(flash[j])
    BY <1>4, <2>1, Writes DEF BothCopies
  <2> DEFINE j == Other(flash_param.partition_num)
  <2>3. j \in Partitions /\ j # flash_param.partition_num
    BY OtherType, Types DEF Base
  <2>4. flash'[j] = flash[j]
    BY <1>4, <2>3, Types DEF Erase, Base
  <2> QED BY <2>2, <2>3, <2>4 DEF HasCopy
<1> QED BY <1>1, <1>2, <1>3, <1>4, FlashChanges

-----------------------------------------------------------------------------
(* What the calls return *)

(* GetReadsARecord, with the value got holds before the read *)
GetInv ==
    /\ GetReadsARecord
    /\ \A t \in Tasks : pc[t] = "address" => got[t] # Erased

(* Every step keeps GetInv: the driver's lock keeps the read out of the     *)
(* window between erase and program.                                        *)
LEMMA NextGet == Base /\ BothCopies /\ GetInv /\ [Next]_vars => GetInv'
<1> SUFFICES ASSUME Base, BothCopies, GetInv, [Next]_vars PROVE GetInv'
  OBVIOUS
<1>1. CASE Boot \/ PowerCut
  <2>1. \A t \in Tasks : pc'[t] \notin {"copy", "address"}
    BY <1>1, Types DEF Base, LockInv, Ready, Boot, PowerCut, InitLoad,
       InitReturn, ParamToFlash, Stamp, Match, Erase, Program, Verify, Return,
       Goto, Writing
  <2> QED BY <2>1 DEF GetInv, GetReadsARecord
<1>2. ASSUME NEW t \in Tasks, GetRead(t) PROVE GetInv'
  <2>1. Ready /\ UNCHANGED err
    BY <1>2, TaskAfterBoot DEF TaskStep
  <2>2. \A q \in Tasks : pc[q] # "program"
    BY <1>2 DEF GetRead, Base, LockInv
  <2>3. got[t] \in Partitions
    BY <1>2 DEF GetRead, Base, Typed, TodoInv
  <2>4. err = "OK" => flash[got[t]] \in Images
    <3>1. err = "OK" => Valid(flash[got[t]])
      BY <2>1, <2>2, <2>3 DEF BothCopies
    <3> QED BY <2>3, <3>1, ErasedInvalid, Types DEF Base
  <2>5. err = "OK" => flash[got[t]].parameters \in Params
    BY <2>4 DEF Images
  <2>6. err = "OK" => got'[t] # Erased
    BY <1>2, <2>4, <2>5, Types, ErasedAssumption DEF GetRead, Base
  <2>7. /\ pc'[t] = "copy" /\ UNCHANGED err
        /\ \A q \in Tasks : q # t => pc'[q] = pc[q] /\ got'[q] = got[q]
    BY <1>2, Types DEF GetRead, Goto, Base
  <2> QED BY <2>1, <2>6, <2>7 DEF GetInv, GetReadsARecord
<1>3. ASSUME NEW t \in Tasks, TaskStep(t) \/ Call(t) \/ ToDefault(t),
             ~GetRead(t)
      PROVE  GetInv'
  <2>1. Ready /\ UNCHANGED err
    BY <1>3, TaskAfterBoot
  <2>2. \A q \in Tasks : q # t => pc'[q] = pc[q] /\ got'[q] = got[q]
    BY <1>3, Types DEF Base, TaskStep, ParamToFlash, Call, ToDefault, Set, Save,
       Compare, GetAddress, GetCopy, Stamp, Match, Erase, Program, Verify,
       Return, Goto
  <2>3. pc'[t] \in {"copy", "address"} => got'[t] # Erased
    BY <1>3, <2>1, Types DEF Base, TaskStep, ParamToFlash, Call, ToDefault, Set,
       Save, Compare, GetAddress, GetCopy, Stamp, Match, Erase, Program, Verify,
       Return, Goto, GetInv, GetReadsARecord
  <2> QED BY <2>1, <2>2, <2>3 DEF GetInv, GetReadsARecord
<1>4. CASE UNCHANGED vars
  BY <1>4 DEF vars, GetInv, GetReadsARecord, Ready
<1> QED BY <1>1, <1>2, <1>3, <1>4 DEF Next

(* CurrentIsSaved, and what tls_param_init establishes before it returns *)
SavedInv ==
    /\ CurrentIsSaved
    /\ (pc[Main] = "release" /\ err = "OK") =>
          flash[flash_param.partition_num].parameters = flash_param.parameters

(* param_to_flash returns with the saved record in the current partition. *)
LEMMA ReturnSaved ==
    ASSUME Base, NEW p \in Procs, NEW ok \in BOOLEAN, Return(p, ok),
           UNCHANGED flash, pc[p] \in Busy,
           flash[flash_param.partition_num] = flash_param
    PROVE  SavedInv'
<1>1. /\ flash_param'.partition_num = flash_param.partition_num
      /\ flash_param'.parameters = flash_param.parameters
  BY Types, ImageExcept DEF Return, Base
<1>2. flash'[flash_param'.partition_num].parameters = flash_param'.parameters
  BY <1>1
<1>3. p = Main => ~Ready'
  BY Types DEF Return, Goto, Base, Ready
<1>4. p # Main => flash_param.parameters \in acked'
  BY DEF Return
<1> QED BY <1>1, <1>2, <1>3, <1>4 DEF SavedInv, CurrentIsSaved

(* Every step keeps SavedInv. *)
LEMMA NextSaved == Base /\ HomeInv /\ SavedInv /\ [Next]_vars => SavedInv'
<1> SUFFICES ASSUME Base, HomeInv, SavedInv, [Next]_vars PROVE SavedInv'
  OBVIOUS
<1>1. ASSUME NEW p \in Procs, pc'[p] \in Writing PROVE SavedInv'
  <2>1. ~Ready' \/ \E t \in Tasks : pc'[t] \in Writing
    BY <1>1 DEF Ready, Writing
  <2>2. ~(pc'[Main] = "release" /\ p = Main)
    BY <1>1 DEF Writing
  <2>3. p # Main => pc'[Main] # "release"
    BY <1>1, NextLock DEF Base, LockInv, Ready, Writing
  <2> QED BY <2>1, <2>2, <2>3 DEF SavedInv, CurrentIsSaved
<1>2. ASSUME NEW p \in Procs, Stamp(p) \/ Erase(p) \/ Program(p)
      PROVE  SavedInv'
  <2>1. pc'[p] \in Writing
    BY <1>2, Types DEF Stamp, Erase, Program, Goto, Writing, Base
  <2> QED BY <1>1, <2>1
<1>3. ASSUME NEW p \in Procs, Match(p) PROVE SavedInv'
  <2>1. CASE Return(p, TRUE) /\ flash[flash_param.partition_num] = flash_param
    BY <1>3, <2>1, ReturnSaved DEF Match, Busy
  <2>2. CASE Goto(p, "erase")
    <3>1. pc'[p] \in Writing
      BY <2>2, Types DEF Goto, Writing, Base
    <3> QED BY <1>1, <3>1
  <2> QED BY <1>3, <2>1, <2>2 DEF Match, param_flash_verify
<1>4. ASSUME NEW p \in Procs, Verify(p) PROVE SavedInv'
  <2>1. flash[flash_param.partition_num] = flash_param
    BY <1>4 DEF Verify, Base, ImageInv, Busy
  <2> QED BY <1>4, <2>1, ReturnSaved DEF Verify, Busy
<1>5. ASSUME InitLoad PROVE SavedInv'
  <2>1. pc'[Main] \in {"release", "stamp"}
    BY <1>5, Types DEF InitLoad, Goto, Base
  <2>2. ~Ready'
    BY <2>1 DEF Ready
  <2>3. ASSUME pc'[Main] = "release", err' = "OK"
        PROVE  flash'[flash_param'.partition_num].parameters
                  = flash_param'.parameters
    <3>1. Damaged = {} /\ flash_param' = Loaded /\ UNCHANGED flash
      BY <1>5, <2>3, Types DEF InitLoad, Goto, Base
    <3>2. \A i \in Partitions : Valid(flash[i]) /\ flash[i].partition_num = i
      BY <3>1 DEF Damaged, HomeInv
    <3>3. Loaded \in {flash[0], flash[1]}
      <4>1. Valid(flash[0]) /\ Blank.magic = 0
        BY <3>2 DEF Blank, Partitions
      <4>2. Load(Blank, flash[0]) = flash[0]
        BY <4>1 DEF Load
      <4>3. Load(flash[0], flash[1]) \in {flash[0], flash[1]}
        BY DEF Load
      <4> QED BY <4>2, <4>3 DEF Loaded
    <3> QED BY <3>1, <3>2, <3>3
  <2> QED BY <2>2, <2>3 DEF SavedInv, CurrentIsSaved
<1>6. ASSUME InitReturn PROVE SavedInv'
  BY <1>6 DEF InitReturn, SavedInv, CurrentIsSaved
<1>7. ASSUME PowerCut PROVE SavedInv'
  BY <1>7 DEF PowerCut, SavedInv, CurrentIsSaved, Ready
<1>8. ASSUME NEW t \in Tasks, Call(t) \/ Save(t) \/ GetAddress(t) \/ GetRead(t)
                              \/ GetCopy(t)
      PROVE  SavedInv'
  <2>1. Ready /\ Ready' /\ UNCHANGED err
    BY <1>8, TaskAfterBoot DEF TaskStep
  <2>2. /\ UNCHANGED <<flash, flash_param, acked>>
        /\ pc[t] \notin Writing
        /\ \A q \in Tasks : q # t => pc'[q] = pc[q]
    BY <1>8, Types DEF Call, Save, GetAddress, GetRead, GetCopy, Goto, Writing,
       Base
  <2> QED BY <2>1, <2>2 DEF SavedInv, CurrentIsSaved, Ready
<1>9. ASSUME NEW t \in Tasks, Set(t) PROVE SavedInv'
  <2>1. Ready /\ Ready' /\ UNCHANGED err
    BY <1>9, TaskAfterBoot DEF TaskStep
  <2>2. \A q \in Tasks : pc[q] \notin Writing
    BY <1>9, NoOtherWriter DEF Base
  <2>3. /\ UNCHANGED <<flash, acked>>
        /\ flash_param'.partition_num = flash_param.partition_num
    BY <1>9, Types, ImageExcept DEF Set, Base
  <2> QED BY <2>1, <2>2, <2>3 DEF SavedInv, CurrentIsSaved, Ready
<1>10. ASSUME NEW t \in Tasks, Compare(t) PROVE SavedInv'
  <2>1. Ready /\ Ready' /\ UNCHANGED err
    BY <1>10, TaskAfterBoot DEF TaskStep
  <2>2. CASE SameParameters /\ acked' = {flash_param.parameters}
    BY <1>10, <2>1, <2>2 DEF Compare, SameParameters, SavedInv, CurrentIsSaved,
       Ready
  <2>3. CASE Goto(t, "stamp")
    <3>1. pc'[t] \in Writing
      BY <2>3, Types DEF Goto, Writing, Base
    <3> QED BY <1>1, <3>1
  <2> QED BY <1>10, <2>2, <2>3 DEF Compare
<1>11. ASSUME NEW t \in Tasks, ToDefault(t) PROVE SavedInv'
  <2>1. pc'[t] \in Writing
    BY <1>11, Types DEF ToDefault, Goto, Writing, Base
  <2> QED BY <1>1, <2>1
<1>12. CASE UNCHANGED vars
  BY <1>12 DEF vars, SavedInv, CurrentIsSaved, Ready
<1> QED
  BY <1>2, <1>3, <1>4, <1>5, <1>6, <1>7, <1>8, <1>9, <1>10, <1>11, <1>12
     DEF Next, Boot, TaskStep, ParamToFlash

-----------------------------------------------------------------------------
(* The inductive invariant and what follows from it *)

IInv == /\ Base
        /\ BootInv
        /\ HomeInv
        /\ BothCopies
        /\ GetInv
        /\ SavedInv

(* It holds at power-on. *)
LEMMA InitIInv == ResetAlone /\ Init => IInv
<1> SUFFICES ASSUME ResetAlone, Init PROVE IInv
  OBVIOUS
<1>1. pc[Main] = "init" /\ \A t \in Tasks : pc[t] = "off"
  BY DEF Init
<1>2. LockInv
  BY <1>1 DEF Init, LockInv, Writing, Ready
<1>3. ImageInv /\ BootInv /\ BothCopies /\ GetInv /\ SavedInv
  BY <1>1 DEF ImageInv, BootInv, BothCopies, GetInv, GetReadsARecord, SavedInv,
              CurrentIsSaved, Busy, Writing, Ready
<1>4. HomeInv
  BY ErasedInvalid DEF Init, HomeInv
<1> QED BY <1>2, <1>3, <1>4, InitTyped DEF IInv, Base

(* Every step keeps it. *)
LEMMA NextIInv == IInv /\ [Next]_vars => IInv'
  BY NextTyped, NextLock, NextImage, NextBoot, NextHome, NextCopies, NextGet,
     NextSaved DEF IInv, Base, ResetAlone

(* For any number of tasks, of parameter values and of power losses: once   *)
(* tls_param_init has succeeded, both partitions hold an acceptable record, *)
(* except the one that is between erase and program.                        *)
THEOREM CopiesCorrect == ResetAlone => (Spec => []BothCopies)
<1>1. IInv => BothCopies
  BY DEF IInv
<1> QED BY <1>1, InitIInv, NextIInv, PTL DEF Spec

(* No step destroys the last acceptable record. *)
THEOREM CopyKept == ResetAlone => (Spec => KeepsACopy)
<1>1. IInv /\ [Next]_vars => [err = "OK" /\ HasCopy => HasCopy']_vars
  BY NextKeeps DEF IInv
<1> QED BY <1>1, InitIInv, NextIInv, PTL DEF Spec, KeepsACopy

(* A get from flash returns the parameters of some record. *)
THEOREM GetCorrect == ResetAlone => (Spec => []GetReadsARecord)
<1>1. IInv => GetReadsARecord
  BY DEF IInv, GetInv
<1> QED BY <1>1, InitIInv, NextIInv, PTL DEF Spec

(* Outside param_to_flash the current partition holds the last save. *)
THEOREM SavedCorrect == ResetAlone => (Spec => []CurrentIsSaved)
<1>1. IInv => CurrentIsSaved
  BY DEF IInv, SavedInv
<1> QED BY <1>1, InitIInv, NextIInv, PTL DEF Spec
=============================================================================
