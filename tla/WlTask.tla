------------------------------- MODULE WlTask ---------------------------------
(****************************************************************************)
(* The message-driven tasks of platform/common/task: a mailbox              *)
(* (wm_wl_mbox.c), the task that serves it and the calls that post to it    *)
(* (wm_wl_task.c), and the task's one-shot timers, a list in which each     *)
(* timer holds the time after the one before it (wm_wl_timers.c).           *)
(*                                                                          *)
(* A call of an interrupt handler is one step for the tasks; the calls of a *)
(* task may be preempted between any two accesses to shared data.  What the *)
(* callbacks do is left open, except that one may post to its own task.     *)
(****************************************************************************)
EXTENDS Integers, Sequences, FiniteSets, SequencesExt, FiniteSetsExt, Functions

CONSTANTS
    Callers,    \* tasks that post
    Self,       \* the task itself, posting from a callback
    Isrs,       \* interrupt handlers that post
    Ids,        \* indices of wl_msg
    Owner,      \* who uses each of them: every TLS_MSG_ID_* has one user
    Requests,   \* the messages each of them allocates
    Functions,  \* callback functions
    Handlers,   \* timeout handlers, with their argument
    Durations,  \* times in milliseconds
    TickMs,     \* milliseconds per tick, 1000 / HZ
    MboxSize,
    MaxTimers,  \* bound: memory for this many timers
    MaxTries,   \* 10 in tls_mbox_post
    Wraps,      \* whether the tick counter may wrap around (each 99 days)
    MaxLate,    \* bound: ticks the task may be kept from running
    NoMsg

Posters == Callers \union {Self}

Timeouts == [type : {"TIMEOUT"}, h : Handlers, msecs : Durations]
Untimeouts == [type : {"UNTIMEOUT"}, h : Handlers]
Callbacks == [type : {"CALLBACK"}, function : Functions]
Statics == [type : {"CALLBACK_STATIC"}, id : Ids]    \* pointers into wl_msg
Messages == Timeouts \union Untimeouts \union Callbacks \union Statics

(* A static message with the function that is read from it, or will be      *)
(* written to it                                                            *)
StaticCalls == [type : {"CALLBACK_STATIC"}, id : Ids, function : Functions]
Expiries == [type : {"EXPIRED"}, h : Handlers]

ASSUME WlAssumption ==
    /\ Owner \in [Ids -> Callers \union Isrs]
    /\ \A p \in Posters : Requests[p] \subseteq Messages \ Statics
    /\ TickMs \in Nat \ {0}
    /\ Durations \subseteq Nat
    /\ Wraps \in BOOLEAN

VARIABLES
    mbox,
    wl_msg,     \* the static messages: function and cnt
    timeo,      \* next_timeout: the timers, each with its time after the one
                \* before it; due and before are history, see NotEarly
    task,       \* where task_thread is
    current,    \* the message it has fetched
    limit,      \* ticks it waits for a message, 0 for no limit
    waited,     \* ticks it has waited
    cnt,        \* the value of cnt it has read to decrement
    pc, msg, left,  \* the posters: label, message, tries or value of cnt read
    posted      \* history: the function each static message was posted with

mboxvars == <<mbox, wl_msg, posted>>
timevars == <<timeo, limit, waited>>
taskvars == <<task, current, cnt>>
callvars == <<pc, msg, left>>
vars == <<mboxvars, timevars, taskvars, callvars>>

TypeOK ==
    /\ mbox \in BoundedSeq(Messages, MboxSize)
    /\ wl_msg \in [Ids -> [function : Functions, cnt : 0 .. 255]]
    /\ Len(timeo) <= MaxTimers
    /\ \A i \in DOMAIN timeo : timeo[i].h \in Handlers /\ timeo[i].time \in Nat
    /\ task \in {"fetch", "wait", "handle", "load", "store", "run"}
    /\ current \in Messages \union StaticCalls \union Expiries \union {NoMsg}
    /\ limit \in Nat /\ waited \in 0 .. limit + MaxLate
    /\ cnt \in 0 .. 255
    /\ pc \in [Posters -> {"idle", "test", "write", "post", "load", "store"}]
    /\ msg \in [Posters -> Messages \union StaticCalls \union {NoMsg}]
    /\ left \in [Posters -> 0 .. 255]

(* tls_wl_task_init, tls_wl_timer_init and tls_wl_task_run *)
Init ==
    /\ mbox = <<>>
    /\ \E f \in Functions :
          /\ wl_msg = [id \in Ids |-> [function |-> f, cnt |-> 0]]
          /\ posted = [id \in Ids |-> f]
    /\ timeo = <<>>
    /\ task = "fetch"
    /\ current = NoMsg
    /\ limit = 0 /\ waited = 0
    /\ cnt = 0
    /\ pc = [p \in Posters |-> "idle"]
    /\ msg = [p \in Posters |-> NoMsg]
    /\ left = [p \in Posters |-> 0]

-----------------------------------------------------------------------------
(* Posting *)

(* Mutant: one message too many *)
Room_OneMore == Len(mbox) <= MboxSize

(* tls_os_queue_send, which does not wait *)
Room == Len(mbox) < MboxSize

(* u8 arithmetic *)
Inc(n) == (n + 1) % 256
Dec(n) == (n + 255) % 256

Goto(p, label, m, n) ==
    /\ pc' = [pc EXCEPT ![p] = label]
    /\ msg' = [msg EXCEPT ![p] = m]
    /\ left' = [left EXCEPT ![p] = n]

(* A task can post; the task itself only while it runs a callback *)
MayCall(p) == pc[p] = "idle" /\ (p = Self => task = "run")

(* The tries of tls_mbox_post; 0 stands for tls_mbox_trypost *)
Tries(block) == IF block THEN MaxTries ELSE 0

(* tls_wl_task_callback, tls_wl_task_add_timeout and tls_wl_task_untimeout  *)
(* with a message that could be allocated; the last two always block        *)
Call(p, m, block) ==
    /\ MayCall(p)
    /\ m \in Callbacks \/ block
    /\ Goto(p, "post", m, Tries(block))
    /\ UNCHANGED <<mboxvars, timevars, taskvars>>

(* tls_wl_task_callback_static *)
CallStatic(p, id, f, block) ==
    /\ MayCall(p)
    /\ Owner[id] = p
    /\ Goto(p, "test", [type |-> "CALLBACK_STATIC", id |-> id, function |-> f],
            Tries(block))
    /\ UNCHANGED <<mboxvars, timevars, taskvars>>

(* Mutant: the count is not looked at *)
StaticTest_NoTest(p) ==
    /\ pc[p] = "test"
    /\ Goto(p, "write", msg[p], left[p])
    /\ UNCHANGED <<mboxvars, timevars, taskvars>>

(* The call fails while the message is in use *)
StaticTest(p) ==
    /\ pc[p] = "test"
    /\ \/ wl_msg[msg[p].id].cnt > 0 /\ Goto(p, "idle", NoMsg, 0)
       \/ wl_msg[msg[p].id].cnt = 0 /\ Goto(p, "write", msg[p], left[p])
    /\ UNCHANGED <<mboxvars, timevars, taskvars>>

StaticWrite(p) ==
    /\ pc[p] = "write"
    /\ wl_msg' = [wl_msg EXCEPT ![msg[p].id].function = msg[p].function]
    /\ Goto(p, "post", msg[p], left[p])
    /\ UNCHANGED <<mbox, posted, timevars, taskvars>>

(* What is put into the mailbox: for a static message, its address *)
Put(m) ==
    IF m \in StaticCalls
    THEN /\ mbox' = Append(mbox, [type |-> m.type, id |-> m.id])
         /\ posted' = [posted EXCEPT ![m.id] = m.function]
    ELSE mbox' = Append(mbox, m) /\ UNCHANGED posted

(* After the post, a static message is counted *)
Posted(p) ==
    \/ msg[p] \in StaticCalls /\ Goto(p, "load", msg[p], 0)
    \/ msg[p] \notin StaticCalls /\ Goto(p, "idle", NoMsg, 0)

(* One try to post.  tls_mbox_post gives up after the last one and does not *)
(* tell, so that the call goes on as if the message had been posted.        *)
Post(p) ==
    /\ pc[p] = "post"
    /\ \/ Room /\ Put(msg[p]) /\ Posted(p)
       \/ /\ ~Room
          /\ \/ left[p] > 1 /\ Goto(p, "post", msg[p], left[p] - 1)
             \/ left[p] = 1 /\ Posted(p)
             \/ left[p] = 0 /\ Goto(p, "idle", NoMsg, 0)
          /\ UNCHANGED <<mbox, posted>>
    /\ UNCHANGED <<wl_msg, timevars, taskvars>>

(* cnt++, a read and a write *)
StaticLoad(p) ==
    /\ pc[p] = "load"
    /\ Goto(p, "store", msg[p], wl_msg[msg[p].id].cnt)
    /\ UNCHANGED <<mboxvars, timevars, taskvars>>

StaticStore(p) ==
    /\ pc[p] = "store"
    /\ wl_msg' = [wl_msg EXCEPT ![msg[p].id].cnt = Inc(left[p])]
    /\ Goto(p, "idle", NoMsg, 0)
    /\ UNCHANGED <<mbox, posted, timevars, taskvars>>

(* The same call in an interrupt handler, which cannot block *)
IsrStatic(id, f) ==
    /\ Owner[id] \in Isrs
    /\ wl_msg[id].cnt = 0
    /\ \/ /\ Room
          /\ Put([type |-> "CALLBACK_STATIC", id |-> id, function |-> f])
          /\ wl_msg' = [wl_msg EXCEPT ![id] = [function |-> f, cnt |-> Inc(@.cnt)]]
       \/ /\ ~Room
          /\ wl_msg' = [wl_msg EXCEPT ![id].function = f]
          /\ UNCHANGED <<mbox, posted>>
    /\ UNCHANGED <<timevars, taskvars, callvars>>

-----------------------------------------------------------------------------
(* The timers *)

(* When timer i expires *)
SumTimes(timers, i) ==
    SumFunctionOnSet([j \in DOMAIN timers |-> timers[j].time], 1 .. i)

(* Where the loop of tls_timeout_p stops, for a timer of ms milliseconds:   *)
(* before the first timer whose time exceeds what is left of ms there       *)
Position(ms) ==
    Min({i \in 0 .. Len(timeo) :
           i = Len(timeo) \/ timeo[i + 1].time > ms - SumTimes(timeo, i)})

(* The timer holds what is left of ms, and the next one the rest of its own *)
tls_timeout_p(h, ms) ==
    LET pos == Position(ms)
        time == ms - SumTimes(timeo, pos)
        timer == [h |-> h, time |-> time, due |-> ms, before |-> 0]
        rest == [i \in DOMAIN timeo |->
                   IF i = pos + 1 THEN [timeo[i] EXCEPT !.time = @ - time]
                                  ELSE timeo[i]]
    IN  \/ Len(timeo) < MaxTimers /\ timeo' = InsertAt(rest, pos + 1, timer)
        \/ Len(timeo) = MaxTimers /\ UNCHANGED timeo     \* out of memory

(* Mutant: the time of the removed timer is not given to the next one *)
tls_untimeout_p_Dropped(h) ==
    LET i == SelectInSeq(timeo, LAMBDA t : t.h = h)
    IN  \/ i # 0 /\ timeo' = RemoveAt(timeo, i)
        \/ i = 0 /\ UNCHANGED timeo

(* The first timer with the handler is removed, and its time added to the   *)
(* next one's                                                               *)
tls_untimeout_p(h) ==
    LET i == SelectInSeq(timeo, LAMBDA t : t.h = h)
        longer == [j \in DOMAIN timeo |->
                     IF j = i + 1 THEN [timeo[j] EXCEPT !.time = @ + timeo[i].time]
                                  ELSE timeo[j]]
    IN  \/ i # 0 /\ timeo' = RemoveAt(longer, i)
        \/ i = 0 /\ UNCHANGED timeo

-----------------------------------------------------------------------------
(* The task *)

(* tls_timeouts_mbox_fetch_p begins to wait: for ever without a timer, else *)
(* for the time of the first one, in ticks and at least one                 *)
FetchWait ==
    /\ task = "fetch"
    /\ \/ timeo = <<>> /\ limit' = 0
       \/ /\ timeo # <<>> /\ timeo[1].time > 0
          /\ limit' = Max({1, timeo[1].time \div TickMs})
    /\ task' = "wait"
    /\ waited' = 0
    /\ UNCHANGED <<mboxvars, timeo, current, cnt, callvars>>

(* A tick while the task waits with a limit, or is late in running again.   *)
(* The time spent in callbacks is not counted by the code, nor here.        *)
Tick ==
    /\ task = "wait" /\ limit > 0
    /\ waited < limit + MaxLate
    /\ waited' = waited + 1
    /\ timeo' = [i \in DOMAIN timeo |->
                    [timeo[i] EXCEPT !.due = Max({0, @ - TickMs})]]
    /\ UNCHANGED <<mboxvars, limit, taskvars, callvars>>

(* A message is received after this many ticks by tls_arch_mbox_fetch's     *)
(* count; they are taken off the time of the first timer                    *)
Receive(ticks) ==
    /\ task = "wait"
    /\ mbox # <<>>
    /\ current' = Head(mbox)
    /\ mbox' = Tail(mbox)
    /\ \/ timeo = <<>> /\ UNCHANGED timeo
       \/ timeo # <<>> /\ timeo' = [timeo EXCEPT ![1].time = Max({0, @ - ticks * TickMs})]
    /\ task' = "handle"
    /\ limit' = 0 /\ waited' = 0
    /\ UNCHANGED <<wl_msg, posted, cnt, callvars>>

(* Mutant: the time waited for a message is not counted *)
FetchMessage_NotCounted == Receive(0)

FetchMessage == Receive(waited)

(* The tick counter wrapped around meanwhile: one tick is not counted *)
FetchMessageWrapped == Wraps /\ waited > 0 /\ Receive(waited - 1)

(* Mutant: the timer that expires stays in the list *)
Expire_Kept ==
    /\ current' = [type |-> "EXPIRED", h |-> timeo[1].h]
    /\ task' = "run"
    /\ limit' = 0 /\ waited' = 0
    /\ UNCHANGED <<mboxvars, timeo, cnt, callvars>>

(* The first timer is removed and its handler called *)
Expire ==
    /\ current' = [type |-> "EXPIRED", h |-> timeo[1].h]
    /\ timeo' = [i \in 1 .. Len(timeo) - 1 |->
                    [timeo[i + 1] EXCEPT !.before =
                       IF timeo[1].time > 0 /\ timeo[i + 1].due > 0 THEN @ + 1 ELSE @]]
    /\ task' = "run"
    /\ limit' = 0 /\ waited' = 0
    /\ UNCHANGED <<mboxvars, cnt, callvars>>


(* The wait ends without a message *)
FetchTimeout ==
    task = "wait" /\ limit > 0 /\ waited >= limit /\ mbox = <<>> /\ Expire

(* A timer without time left goes before every message *)
FetchExpired ==
    task = "fetch" /\ timeo # <<>> /\ timeo[1].time = 0 /\ Expire

(* task_thread's switch *)
HandleTimer ==
    /\ task = "handle"
    /\ \/ current \in Timeouts /\ tls_timeout_p(current.h, current.msecs)
       \/ current \in Untimeouts /\ tls_untimeout_p(current.h)
    /\ task' = "fetch"
    /\ current' = NoMsg
    /\ UNCHANGED <<mboxvars, limit, waited, cnt, callvars>>

HandleCallback ==
    /\ task = "handle"
    /\ current \in Callbacks
    /\ task' = "run"
    /\ UNCHANGED <<mboxvars, timevars, current, cnt, callvars>>

(* A static message is read, ... *)
HandleStatic ==
    /\ task = "handle"
    /\ current \in Statics
    /\ current' = [type |-> current.type, id |-> current.id,
                   function |-> wl_msg[current.id].function]
    /\ task' = "load"
    /\ UNCHANGED <<mboxvars, timevars, cnt, callvars>>

(* ... its count decremented, by a read and a write, ... *)
HandleLoad ==
    /\ task = "load"
    /\ cnt' = wl_msg[current.id].cnt
    /\ task' = "store"
    /\ UNCHANGED <<mboxvars, timevars, current, callvars>>

(* Mutant: the count is not given back *)
HandleStore_Kept ==
    /\ task = "store"
    /\ cnt' = 0
    /\ task' = "run"
    /\ UNCHANGED <<mboxvars, timevars, current, callvars>>

HandleStore ==
    /\ task = "store"
    /\ wl_msg' = [wl_msg EXCEPT ![current.id].cnt = Dec(cnt)]
    /\ cnt' = 0
    /\ task' = "run"
    /\ UNCHANGED <<mbox, posted, timevars, current, callvars>>

(* ... and then the callback runs, as do the others and the timers'         *)
(* handlers, until it returns                                               *)
Return ==
    /\ task = "run"
    /\ pc[Self] = "idle"
    /\ task' = "fetch"
    /\ current' = NoMsg
    /\ UNCHANGED <<mboxvars, timevars, cnt, callvars>>

-----------------------------------------------------------------------------
TaskStep ==
    \/ FetchWait \/ FetchMessage \/ FetchMessageWrapped
    \/ FetchTimeout \/ FetchExpired
    \/ HandleTimer \/ HandleCallback
    \/ HandleStatic \/ HandleLoad \/ HandleStore
    \/ Return

PosterStep(p) ==
    StaticTest(p) \/ StaticWrite(p) \/ Post(p) \/ StaticLoad(p) \/ StaticStore(p)

Calls(p) ==
    \E block \in BOOLEAN :
        \/ \E m \in Requests[p] : Call(p, m, block)
        \/ \E id \in Ids, f \in Functions : CallStatic(p, id, f, block)

Next ==
    \/ TaskStep \/ Tick
    \/ \E p \in Posters : Calls(p) \/ PosterStep(p)
    \/ \E id \in Ids, f \in Functions : IsrStatic(id, f)

Spec == Init /\ [][Next]_vars

(* The kernel runs every ready task, and callbacks return.  Nothing is      *)
(* assumed of the calls made and of the ticks.                              *)
FairSpec ==
    /\ Spec
    /\ WF_vars(TaskStep) /\ SF_vars(Return)
    /\ \A p \in Posters : WF_vars(PosterStep(p))

-----------------------------------------------------------------------------
(* Properties *)

(* The callback called for a static message is the one its user posted it   *)
(* with: neither a call that is refused or fails, nor the next one, changes *)
(* a message that is still to be read (the test of cnt in                   *)
(* tls_wl_task_callback_static and task_thread's reading before cnt--).     *)
RunsWhatWasPosted ==
    [][(current \in Statics /\ current' \in StaticCalls)
         => current'.function = posted[current.id]]_vars

Queued(id) == Cardinality({i \in DOMAIN mbox : mbox[i] \in Statics /\ mbox[i].id = id})
InHand(id) ==
    /\ task \in {"handle", "load", "store"}
    /\ current \in Statics \union StaticCalls
    /\ current.id = id

(* The count of a message that an interrupt handler posts tells exactly     *)
(* whether it is on its way to the task, whenever the interrupt comes:      *)
(* the message can be posted again once it has been handled.  (For a task   *)
(* this fails: cnt++ and cnt-- are not atomic, and a post that is given up  *)
(* is counted.)                                                             *)
CountsOnTheirWay ==
    \A id \in Ids : Owner[id] \in Isrs =>
        wl_msg[id].cnt = Queued(id) + (IF InHand(id) THEN 1 ELSE 0)

(* The mailbox is served in order and completely: timers, however many      *)
(* expire, do not keep the task from its messages (task_thread and          *)
(* tls_timeouts_mbox_fetch_p).                                              *)
Serving ==
    CASE current \in StaticCalls -> [type |-> current.type, id |-> current.id]
      [] current \in Expiries -> NoMsg
      [] OTHER -> current
MB == INSTANCE Mailbox WITH
        QueueSize <- MboxSize, box <- mbox, serving <- Serving
ServesMailbox == MB!FairSpec

(* The list of differences is a list of timers: arming and disarming one    *)
(* does not change when the others expire, and they expire in order         *)
(* (tls_timeout_p, tls_untimeout_p and tls_timeouts_mbox_fetch_p).          *)
TL == INSTANCE TimerList WITH
        armed <- [i \in DOMAIN timeo |-> [h |-> timeo[i].h, left |-> SumTimes(timeo, i)]]
ImplementsTimers == TL!Spec


(* An armed timer expires, or is cancelled, if ticks keep coming while the  *)
(* task waits: messages arriving before every timeout do not put it off for *)
(* ever, since the time waited is taken off (tls_timeouts_mbox_fetch_p).    *)
TimersExpire ==
    []<><<Tick>>_vars => \A h \in Handlers :
        (\E i \in DOMAIN timeo : timeo[i].h = h)
          ~> (current \in Expiries \union Untimeouts /\ current.h = h)
=============================================================================
