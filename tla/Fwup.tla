--------------------------------- MODULE Fwup ---------------------------------
(****************************************************************************)
(* Firmware update of platform/common/fwup/wm_fwup.c.  Client tasks open a  *)
(* session and pass the image in pieces to tls_fwup_request_sync, which     *)
(* puts a request on wait_list and waits; the scheduler task collects the   *)
(* image header, checks it, writes everything through the sector cache of   *)
(* the flash driver (FlashCache), verifies the image and sets the OTA flag. *)
(* It resets the system when the image is complete and on any error.        *)
(****************************************************************************)
EXTENDS FlashCache, FiniteSets

CONSTANTS
    Clients,
    Images,             \* image names: what is received and written is
                        \* modelled by units <<image, position>>
    BadHeader,          \* images that tls_fwup_img_header_check refuses
    BadBody,            \* images whose body does not have org_checksum
    HeaderLen, BodyLen, \* sizes in units
    SignatureLen,       \* units after the body, not covered by org_checksum
    MsgQueueSize,       \* FWUP_MSG_QUEUE_SIZE
    MaxPiece,           \* longest data of one request
    MaxSessions,        \* bound on the number of sessions
    Base,               \* upgrade_img_addr of every image
    None

ASSUME FwupAssumption ==
    /\ {HeaderLen, BodyLen, MsgQueueSize, MaxPiece, MaxSessions} \subseteq Nat \ {0}
    /\ SignatureLen \in Nat
    /\ Base + HeaderLen + BodyLen + SignatureLen \in Addresses
    /\ None \notin Clients \union Images

ImageLen == HeaderLen + BodyLen + SignatureLen
Statuses == {"IDLE", "BUSY", "SUCCESS", "FIO", "FMEM", "FCRC", "FCOMPLETE"}
States == {"BUSY", "COMPLETE", "IO", "MEM", "CRC"}
Errors == {"IO", "MEM", "CRC"}

VARIABLES
    flash, gsflscache, gsSector,
    ota_flag,       \* the image that the boot loader is told to install
    fwup,           \* struct tls_fwup without the list
    wait_list,      \* the clients whose requests are on the list
    msgs,           \* messages in fwup_msg_queue
    sched,          \* where the scheduler is
    request, temp,  \* its list iterators: a client, or None for the list head
    booter,         \* its copy of the image header
    pc,             \* where each client is
    sid,            \* the session id each client has
    img, sent,      \* image each client passes on, and how much of it
    data, status,   \* each client's request
    sem,            \* count of each request's semaphore
    raced,          \* history: a session was opened while one was open
    sessions        \* number of sessions opened

flashvars == <<flash, gsflscache, gsSector, ota_flag>>
schedvars == <<sched, request, temp, booter>>
clientvars == <<pc, sid, img, sent, data, status, sem>>
vars == <<flashvars, fwup, wait_list, msgs, schedvars, clientvars, raced, sessions>>

(* The counters and flags as tls_fwup_enter, _exit and _reset leave them *)
Cleared(busy, id) ==
    [busy |-> busy, session |-> id, state |-> {}, received_len |-> 0,
     total_len |-> 0, updated_len |-> 0, program_base |-> 0, program_offset |-> 0]

TypeOK ==
    /\ DOMAIN flash = Addresses
    /\ gsSector \in 0 .. Sectors
    /\ ota_flag \in Images \union {None}
    /\ fwup.busy \in BOOLEAN
    /\ fwup.session \in 0 .. MaxSessions
    /\ fwup.state \subseteq States
    /\ {fwup.received_len, fwup.updated_len, fwup.total_len} \subseteq 0 .. ImageLen + MaxPiece
    /\ fwup.program_base \in {0, Base}
    /\ wait_list \in Seq(Clients) /\ Len(wait_list) <= Cardinality(Clients)
    /\ msgs \in 0 .. MsgQueueSize
    /\ sched \in {"wait", "process", "finish", "after", "faulted"}
    /\ {request, temp} \subseteq Clients \union {None}
    /\ Len(booter) <= HeaderLen
    /\ pc \in [Clients -> {"idle", "enter", "exit", "reset", "clear", "checked",
                           "wake", "waiting"}]
    /\ sid \in [Clients -> 0 .. MaxSessions]
    /\ status \in [Clients -> Statuses]
    /\ sem \in [Clients -> 0 .. 1]

(* After power on, and after tls_sys_reset: RAM is cleared; the boot loader *)
(* (external) has consumed the OTA flag; the sector variable is 0           *)
BootState ==
    /\ gsflscache' = NoCache /\ gsSector' = 0 /\ ota_flag' = None
    /\ fwup' = Cleared(FALSE, 0)
    /\ wait_list' = <<>> /\ msgs' = 0
    /\ sched' = "wait" /\ request' = None /\ temp' = None /\ booter' = <<>>
    /\ pc' = [c \in Clients |-> "idle"]
    /\ sid' = [c \in Clients |-> 0]
    /\ sent' = [c \in Clients |-> 0]
    /\ data' = [c \in Clients |-> <<>>]
    /\ status' = [c \in Clients |-> "IDLE"]
    /\ sem' = [c \in Clients |-> 0]
    /\ raced' = FALSE
    /\ UNCHANGED <<flash, img, sessions>>

Init ==
    /\ flash = [a \in Addresses |-> Junk]
    /\ gsflscache = NoCache /\ gsSector = 0 /\ ota_flag = None
    /\ fwup = Cleared(FALSE, 0)
    /\ wait_list = <<>> /\ msgs = 0
    /\ sched = "wait" /\ request = None /\ temp = None /\ booter = <<>>
    /\ pc = [c \in Clients |-> "idle"]
    /\ sid = [c \in Clients |-> 0]
    /\ img \in [Clients -> Images]
    /\ sent = [c \in Clients |-> 0]
    /\ data = [c \in Clients |-> <<>>]
    /\ status = [c \in Clients |-> "IDLE"]
    /\ sem = [c \in Clients |-> 0]
    /\ raced = FALSE
    /\ sessions = 0

At(c, from, to) == pc[c] = from /\ pc' = [pc EXCEPT ![c] = to]

-----------------------------------------------------------------------------
(* tls_fwup_enter: the busy test is made before the critical section in     *)
(* which the session is opened under a fresh id and the cache allocated     *)
EnterCheck(c) ==
    /\ At(c, "idle", "enter")
    /\ ~fwup.busy
    /\ sessions + Cardinality({d \in Clients : pc[d] = "enter"}) < MaxSessions
    /\ UNCHANGED <<flashvars, fwup, wait_list, msgs, schedvars, sid, img, sent,
                   data, status, sem, raced, sessions>>

Enter(c) ==
    /\ At(c, "enter", "idle")
    /\ sessions' = sessions + 1
    /\ raced' = (raced \/ fwup.busy)
    /\ fwup' = Cleared(TRUE, sessions')
    /\ sid' = [sid EXCEPT ![c] = sessions']
    /\ img' \in {[img EXCEPT ![c] = i] : i \in Images}
    /\ sent' = [sent EXCEPT ![c] = 0]
    /\ gsflscache' = IF gsflscache = NoCache THEN JunkCache ELSE gsflscache
    /\ UNCHANGED <<flash, gsSector, ota_flag, wait_list, msgs, schedvars, data,
                   status, sem>>

(* The tests of tls_fwup_exit, tls_fwup_reset and tls_fwup_clear_error, made *)
(* before their critical sections                                           *)
MayControl(c) ==
    /\ fwup.busy
    /\ sid[c] = fwup.session
    /\ "BUSY" \notin fwup.state

ControlCheck(c) ==
    /\ \E op \in {"exit", "reset", "clear"} : At(c, "idle", op)
    /\ MayControl(c)
    /\ UNCHANGED <<flashvars, fwup, wait_list, msgs, schedvars, sid, img, sent,
                   data, status, sem, raced, sessions>>

(* Their critical sections *)
Controlled(c, op, f) ==
    /\ At(c, op, "idle")
    /\ fwup' = f
    /\ UNCHANGED <<flashvars, wait_list, msgs, schedvars, sid, img, data,
                   status, sem, raced, sessions>>

tls_fwup_exit(c) ==
    /\ Controlled(c, "exit", Cleared(FALSE, 0))
    /\ UNCHANGED sent

(* the client starts again with the first unit of its image *)
tls_fwup_reset(c) ==
    /\ Controlled(c, "reset", Cleared(fwup.busy, fwup.session))
    /\ sent' = [sent EXCEPT ![c] = 0]

tls_fwup_clear_error(c) ==
    /\ Controlled(c, "clear", [fwup EXCEPT !.state = @ \ Errors])
    /\ UNCHANGED sent

tls_fwup_set_crc_error(c) ==
    /\ pc[c] = "idle" /\ sid[c] # 0
    /\ sid[c] = fwup.session
    /\ fwup' = [fwup EXCEPT !.state = @ \union {"CRC"}]
    /\ UNCHANGED <<flashvars, wait_list, msgs, schedvars, clientvars, raced, sessions>>

(* tls_fwup_request_sync: the tests.  The client passes on the next piece   *)
(* of its image, or one unit more than the image has.                       *)
RequestCheck(c, len) ==
    /\ At(c, "idle", "checked")
    /\ sid[c] # 0 /\ sid[c] = fwup.session
    /\ sent[c] + len <= ImageLen + 1
    /\ data' = [data EXCEPT ![c] = [i \in 1 .. len |-> <<img[c], sent[c] + i>>]]
    /\ sent' = [sent EXCEPT ![c] = @ + len]
    /\ UNCHANGED <<flashvars, fwup, wait_list, msgs, schedvars, sid, img, status, sem, raced,
                   sessions>>

(* Does the scheduler have to be woken? *)
NeedSched == wait_list = <<>>

(* tls_fwup_request_async.  When the session has changed since the first    *)
(* test the call returns what it makes of the uninitialized status.         *)
RequestAsync(c) ==
    /\ \/ /\ sid[c] = fwup.session
          /\ At(c, "checked", IF NeedSched THEN "wake" ELSE "waiting")
          /\ status' = [status EXCEPT ![c] = "IDLE"]
          /\ wait_list' = Append(wait_list, c)
       \/ /\ sid[c] # fwup.session
          /\ At(c, "checked", "idle")
          /\ UNCHANGED <<status, wait_list>>
    /\ UNCHANGED <<flashvars, fwup, msgs, schedvars, sid, img, sent, data, sem,
                   raced, sessions>>

RequestWake(c) ==
    /\ At(c, "wake", "waiting")
    /\ msgs' = IF msgs < MsgQueueSize THEN msgs + 1 ELSE msgs
    /\ UNCHANGED <<flashvars, fwup, wait_list, schedvars, sid, img, sent, data,
                   status, sem, raced, sessions>>

(* Mutant: the caller gives up waiting *)
RequestReturn_Timeout(c) ==
    /\ At(c, "waiting", "idle")
    /\ sem' = [sem EXCEPT ![c] = 0]
    /\ UNCHANGED <<flashvars, fwup, wait_list, msgs, schedvars, sid, img, sent,
                   data, status, raced, sessions>>

(* the request's semaphore has been released *)
RequestReturn(c) ==
    /\ At(c, "waiting", "idle")
    /\ sem[c] > 0
    /\ sem' = [sem EXCEPT ![c] = 0]
    /\ UNCHANGED <<flashvars, fwup, wait_list, msgs, schedvars, sid, img, sent,
                   data, status, raced, sessions>>

-----------------------------------------------------------------------------
(* The list element after element k, or None for the list head *)
ListNext(k) == IF k < Len(wait_list) THEN wait_list[k + 1] ELSE None
Position(c) == CHOOSE k \in DOMAIN wait_list : wait_list[k] = c

(* fwup_scheduler: a message starts the loop over the list.  The macro      *)
(* dl_list_for_each_safe takes the next element before the loop body runs.  *)
SchedWake ==
    /\ sched = "wait"
    /\ msgs > 0
    /\ msgs' = msgs - 1
    /\ \/ /\ wait_list = <<>>
          /\ UNCHANGED <<sched, request, temp, fwup>>
       \/ /\ wait_list # <<>>
          /\ sched' = "process"
          /\ request' = wait_list[1]
          /\ temp' = ListNext(1)
          /\ fwup' = [fwup EXCEPT !.state = @ \union {"BUSY"}]
    /\ UNCHANGED <<flashvars, wait_list, booter, clientvars, raced, sessions>>

(* The body of the loop up to request_finish, with the status s *)
Processed(s) ==
    /\ sched = "process"
    /\ sched' = "finish"
    /\ status' = [status EXCEPT ![request] = s]
    /\ UNCHANGED <<wait_list, msgs, request, temp, pc, sid, img, sent, data,
                   sem, raced, sessions>>

(* after an error or the end of the update the request is discarded *)
Discard ==
    /\ fwup.state \cap (Errors \union {"COMPLETE"}) # {}
    /\ Processed(CASE "IO" \in fwup.state -> "FIO"
                   [] "IO" \notin fwup.state /\ "MEM" \in fwup.state -> "FMEM"
                   [] fwup.state \cap {"IO", "MEM"} = {} /\ "CRC" \in fwup.state -> "FCRC"
                   [] fwup.state \cap Errors = {} -> "FCOMPLETE")
    /\ UNCHANGED <<flashvars, fwup, booter>>

(* Mutant: more than the missing part of the header is copied *)
ForHeader_All == IF fwup.received_len < HeaderLen THEN Len(data[request]) ELSE 0

(* The request's data: units that complete the header, units after it *)
ForHeader ==
    LET missing == HeaderLen - fwup.received_len
        len == Len(data[request])
    IN  IF missing <= 0 THEN 0 ELSE IF len < missing THEN len ELSE missing
Rest == SubSeq(data[request], ForHeader + 1, Len(data[request]))
Collected == SubSeq(booter, 1, fwup.received_len) \o SubSeq(data[request], 1, ForHeader)
HeaderEnds == ForHeader > 0 /\ fwup.received_len + ForHeader = HeaderLen

(* tls_fwup_img_header_check: the header of one image, and a good one *)
tls_fwup_img_header_check(header) ==
    \E i \in Images \ BadHeader : header = [k \in 1 .. HeaderLen |-> <<i, k>>]

Working == sched = "process" /\ fwup.state \cap (Errors \union {"COMPLETE"}) = {}

RefuseHeader ==
    /\ Working
    /\ HeaderEnds /\ ~tls_fwup_img_header_check(Collected)
    /\ booter' = Collected
    /\ fwup' = [fwup EXCEPT !.received_len = HeaderLen, !.state = @ \union {"IO"}]
    /\ Processed("FIO")
    /\ UNCHANGED flashvars

(* The header, once it is complete, and the data are written *)
Start == State(flash, gsSector, gsflscache)
HeaderWritten ==
    IF HeaderEnds
    THEN FastWritten(flash, gsflscache, gsSector, Base, Collected)
    ELSE Start
Offset == IF HeaderEnds THEN HeaderLen ELSE fwup.program_offset
Updated == (IF HeaderEnds THEN HeaderLen ELSE fwup.updated_len) + Len(Rest)
Total == IF HeaderEnds THEN ImageLen ELSE fwup.total_len
AllWritten ==
    IF Rest = <<>> THEN HeaderWritten
    ELSE FastWritten(HeaderWritten.flash, HeaderWritten.cache, HeaderWritten.sector,
                     (IF HeaderEnds THEN Base ELSE fwup.program_base) + Offset, Rest)
Progress(flags) ==
    [fwup EXCEPT !.received_len = @ + Len(data[request]),
                 !.total_len = Total,
                 !.updated_len = Updated,
                 !.program_base = IF HeaderEnds THEN Base ELSE @,
                 !.program_offset = Offset + Len(Rest),
                 !.state = @ \union flags]

(* There is something to write; tls_fls_fast_write does not look whether    *)
(* the cache it copies to has been freed                                    *)
Accepts == Working /\ ~(HeaderEnds /\ ~tls_fwup_img_header_check(Collected))
Writes == HeaderEnds \/ Rest # <<>>

(* The copy to a null pointer ends in the exception handler *)
NullCacheWrite ==
    /\ Accepts
    /\ Writes /\ gsflscache = NoCache
    /\ sched' = "faulted"
    /\ UNCHANGED <<flashvars, fwup, wait_list, msgs, request, temp, booter,
                   clientvars, raced, sessions>>

WritePart ==
    /\ Accepts
    /\ Writes => gsflscache # NoCache
    /\ Rest = <<>> \/ Updated < Total
    /\ flash' = AllWritten.flash /\ gsSector' = AllWritten.sector
    /\ gsflscache' = AllWritten.cache
    /\ booter' = IF ForHeader > 0 THEN Collected ELSE booter
    /\ fwup' = Progress({})
    /\ Processed("SUCCESS")
    /\ UNCHANGED ota_flag

(* Mutant: the cache is freed without being written *)
Flushed_Dropped == AllWritten.flash

(* tls_fls_fast_write_destroy writes the cache *)
Flushed == tls_fls_flush_sector(AllWritten.flash, AllWritten.sector, AllWritten.cache)

(* the body in flash has the checksum of the header *)
Verified(f, i) ==
    /\ i \notin BadBody
    /\ \A k \in 1 .. BodyLen : f[Base + HeaderLen + k - 1] = <<i, HeaderLen + k>>

(* the last piece: the image is verified and the OTA flag written *)
WriteLast ==
    /\ Accepts
    /\ gsflscache # NoCache
    /\ Rest # <<>> /\ Updated >= Total
    /\ flash' = Flushed /\ gsSector' = AllWritten.sector /\ gsflscache' = NoCache
    /\ booter' = IF ForHeader > 0 THEN Collected ELSE booter
    /\ LET i == booter'[1][1]
       IN  \/ Processed("FMEM") /\ fwup' = Progress({"MEM"}) /\ UNCHANGED ota_flag
           \/ /\ Verified(Flushed, i)
              /\ Processed("SUCCESS")
              /\ fwup' = Progress({"COMPLETE"})
              /\ ota_flag' = i
           \/ /\ ~Verified(Flushed, i)
              /\ Processed("FCRC")
              /\ fwup' = Progress({"CRC"})
              /\ UNCHANGED ota_flag

(* request_finish: the request leaves the list *)
SchedFinish ==
    /\ sched = "finish"
    /\ sched' = "after"
    /\ wait_list' = SelectSeq(wait_list, LAMBDA c : c # request)
    /\ fwup' = IF wait_list' = <<>> THEN [fwup EXCEPT !.state = @ \ {"BUSY"}] ELSE fwup
    /\ UNCHANGED <<flashvars, msgs, request, temp, booter, clientvars, raced, sessions>>

(* all data received, or an error *)
MustReset ==
    \/ fwup.updated_len >= HeaderLen /\ fwup.updated_len >= fwup.total_len
    \/ status[request] # "SUCCESS"

(* the system is reset, or the caller released and the next element taken *)
SchedAfter ==
    /\ sched = "after"
    /\ \/ MustReset /\ BootState
       \/ /\ ~MustReset
          /\ sem' = [sem EXCEPT ![request] = 1]
          /\ request' = temp
          /\ temp' = IF temp = None THEN None ELSE ListNext(Position(temp))
          /\ sched' = IF temp = None THEN "wait" ELSE "process"
          /\ UNCHANGED <<flashvars, fwup, wait_list, msgs, booter, pc, sid, img,
                         sent, data, status, raced, sessions>>

SchedStep ==
    \/ SchedWake \/ Discard \/ RefuseHeader \/ NullCacheWrite \/ WritePart
    \/ WriteLast \/ SchedFinish \/ SchedAfter

ClientStep(c) ==
    \/ Enter(c) \/ tls_fwup_exit(c) \/ tls_fwup_reset(c) \/ tls_fwup_clear_error(c)
    \/ RequestAsync(c) \/ RequestWake(c) \/ RequestReturn(c)

Next ==
    \/ \E c \in Clients :
          \/ EnterCheck(c) \/ ControlCheck(c) \/ tls_fwup_set_crc_error(c)
          \/ \E len \in 1 .. MaxPiece : RequestCheck(c, len)
          \/ ClientStep(c)
    \/ SchedStep

Spec == Init /\ [][Next]_vars

(* The tasks are scheduled; a client need not start another call *)
FairSpec ==
    /\ Spec
    /\ WF_vars(SchedStep)
    /\ \A c \in Clients : WF_vars(ClientStep(c))

-----------------------------------------------------------------------------
(* The OTA flag is only ever set for an image whose checksum is right and   *)
(* that is in flash as a whole, although the data came in pieces of any     *)
(* size through the sector cache and over sessions of several clients, as   *)
(* long as no two clients have been let into tls_fwup_enter at once.        *)
FlagMeansImage ==
    ota_flag # None /\ ~raced =>
       /\ ota_flag \notin BadHeader \union BadBody
       /\ \A k \in 1 .. ImageLen : flash[Base + k - 1] = <<ota_flag, k>>

(* The requests that the scheduler will still touch belong to callers that  *)
(* wait in tls_fwup_request_sync: requests are on their callers' stacks.    *)
NoDanglingRequest ==
    /\ \A k \in DOMAIN wait_list : pc[wait_list[k]] \in {"wake", "waiting"}
    /\ sched # "wait" => pc[request] \in {"wake", "waiting"}
    /\ temp # None => \E k \in DOMAIN wait_list : wait_list[k] = temp

(* tls_fwup_request_sync returns, or the system is reset *)
SyncReturns == \A c \in Clients : pc[c] = "waiting" ~> pc[c] = "idle"

(* tls_fls_fast_write writes "length" bytes: the sectors of flash that no   *)
(* part of an image is written to are left alone.                           *)
OtherSectorsKept ==
    \A a \in Addresses :
       (a \div SectorSize) \notin {(Base + k) \div SectorSize : k \in 0 .. ImageLen - 1}
          => flash[a] = Junk
=============================================================================
