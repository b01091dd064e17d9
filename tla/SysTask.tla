------------------------------- MODULE SysTask --------------------------------
(****************************************************************************)
(* The on-demand system task of platform/sys/tls_sys.c.  tls_sys_send_msg   *)
(* creates the task when it does not exist and queues a message for it; the *)
(* task deletes itself when it finds the queue empty.  One semaphore orders *)
(* the two decisions: the task keeps it while it is being deleted, and the  *)
(* idle task, which frees the stack, gives it back (tls_sys_task_free).     *)
(* What the handlers do is in SysNet.                                       *)
(****************************************************************************)
EXTENDS Naturals, Sequences

CONSTANTS
    Senders,    \* tasks that call tls_sys_send_msg
    Messages,   \* the SYS_MSG_* codes
    QueueSize,  \* SYS_MSG_SIZE
    NoMsg

ASSUME SysTaskAssumption ==
    /\ QueueSize \in Nat \ {0}
    /\ NoMsg \notin Messages

VARIABLES
    msg_queue,
    sys_task_sem,   \* count of the counting semaphore
    sys_task_stk,   \* the stack is allocated (pointer not NULL)
    task,           \* where the system task is; "deleted" is a task on the
                    \* kernel's termination list, waiting for the idle task
    current,        \* the message being handled
    pc,             \* where each sender is in tls_sys_send_msg
    pmsg            \* the message each sender has allocated

taskvars == <<msg_queue, sys_task_sem, sys_task_stk, task, current, pc, pmsg>>

TypeOK ==
    /\ msg_queue \in Seq(Messages)
    /\ Len(msg_queue) <= QueueSize
    /\ sys_task_sem \in Nat
    /\ sys_task_stk \in BOOLEAN
    /\ task \in {"none", "receive", "handle", "acquire", "check", "deleted"}
    /\ current \in Messages \union {NoMsg}
    /\ pc \in [Senders -> {"idle", "acquire", "init", "send", "release"}]
    /\ pmsg \in [Senders -> Messages \union {NoMsg}]

(* tls_sys_init: an empty queue, a semaphore of count 1, no task yet *)
Init ==
    /\ msg_queue = <<>>
    /\ sys_task_sem = 1
    /\ sys_task_stk = FALSE
    /\ task = "none"
    /\ current = NoMsg
    /\ pc = [s \in Senders |-> "idle"]
    /\ pmsg = [s \in Senders |-> NoMsg]

(* sender s goes on to label, with message m in hand *)
Goto(s, label, m) ==
    /\ pc' = [pc EXCEPT ![s] = label]
    /\ pmsg' = [pmsg EXCEPT ![s] = m]

(* tls_sys_send_msg is called and its message allocated.  When there is no  *)
(* memory the call returns and nothing changes.                             *)
SendMsg(s, m) ==
    /\ pc[s] = "idle"
    /\ Goto(s, "acquire", m)
    /\ UNCHANGED <<msg_queue, sys_task_sem, sys_task_stk, task, current>>

SendAcquire(s) ==
    /\ pc[s] = "acquire"
    /\ sys_task_sem > 0
    /\ sys_task_sem' = sys_task_sem - 1
    /\ Goto(s, "init", pmsg[s])
    /\ UNCHANGED <<msg_queue, sys_task_stk, task, current>>

(* Mutant: the task is created whether or not there is one *)
NeedsTask_Always == TRUE

(* Is there no task to queue the message for? *)
NeedsTask == ~sys_task_stk

(* tls_sys_task_init: nothing to do, a new task, or no memory for the stack *)
(* or the task, in which case the message is freed                          *)
TaskInit(s) ==
    /\ pc[s] = "init"
    /\ \/ /\ NeedsTask
          /\ sys_task_stk' = TRUE
          /\ task' = "receive"
          /\ Goto(s, "send", pmsg[s])
       \/ /\ NeedsTask
          /\ Goto(s, "release", NoMsg)
          /\ UNCHANGED <<sys_task_stk, task>>
       \/ /\ ~NeedsTask
          /\ Goto(s, "send", pmsg[s])
          /\ UNCHANGED <<sys_task_stk, task>>
    /\ UNCHANGED <<msg_queue, sys_task_sem, current>>

(* Mutant: a message is queued whether or not there is room *)
QueueSend_NoBound(s) ==
    /\ pc[s] = "send"
    /\ msg_queue' = Append(msg_queue, pmsg[s])
    /\ Goto(s, "release", NoMsg)
    /\ UNCHANGED <<sys_task_sem, sys_task_stk, task, current>>

(* tls_os_queue_send does not wait: a message that finds the queue full is  *)
(* freed, and the caller is not told                                        *)
QueueSend(s) ==
    /\ pc[s] = "send"
    /\ msg_queue' = IF Len(msg_queue) < QueueSize
                    THEN Append(msg_queue, pmsg[s]) ELSE msg_queue
    /\ Goto(s, "release", NoMsg)
    /\ UNCHANGED <<sys_task_sem, sys_task_stk, task, current>>

SendRelease(s) ==
    /\ pc[s] = "release"
    /\ sys_task_sem' = sys_task_sem + 1
    /\ Goto(s, "idle", NoMsg)
    /\ UNCHANGED <<msg_queue, sys_task_stk, task, current>>

-----------------------------------------------------------------------------
(* tls_sys_task: wait for a message, without time limit *)
Receive ==
    /\ task = "receive"
    /\ msg_queue # <<>>
    /\ current' = Head(msg_queue)
    /\ msg_queue' = Tail(msg_queue)
    /\ task' = "handle"
    /\ UNCHANGED <<sys_task_sem, sys_task_stk, pc, pmsg>>

(* the message has been handled and is freed *)
Handled ==
    /\ task = "handle"
    /\ task' = "acquire"
    /\ current' = NoMsg
    /\ UNCHANGED <<msg_queue, sys_task_sem, sys_task_stk, pc, pmsg>>

TaskAcquire ==
    /\ task = "acquire"
    /\ sys_task_sem > 0
    /\ sys_task_sem' = sys_task_sem - 1
    /\ task' = "check"
    /\ UNCHANGED <<msg_queue, sys_task_stk, current, pc, pmsg>>

(* Mutant: the semaphore is released on both branches *)
TaskCheck_ReleaseBoth ==
    /\ task = "check"
    /\ task' = IF msg_queue = <<>> THEN "deleted" ELSE "receive"
    /\ sys_task_sem' = sys_task_sem + 1
    /\ UNCHANGED <<msg_queue, sys_task_stk, current, pc, pmsg>>

(* Mutant: the task deletes itself after every message *)
TaskCheck_NoEmptyTest ==
    /\ task = "check"
    /\ task' = "deleted"
    /\ UNCHANGED <<msg_queue, sys_task_sem, sys_task_stk, current, pc, pmsg>>

(* With the queue empty the task deletes itself and keeps the semaphore     *)
(* (tls_sys_task_del); otherwise it releases it and takes the next message  *)
TaskCheck ==
    /\ task = "check"
    /\ \/ /\ msg_queue = <<>>
          /\ task' = "deleted"
          /\ UNCHANGED sys_task_sem
       \/ /\ msg_queue # <<>>
          /\ task' = "receive"
          /\ sys_task_sem' = sys_task_sem + 1
    /\ UNCHANGED <<msg_queue, sys_task_stk, current, pc, pmsg>>

(* Mutant: the stack is freed but the semaphore kept *)
TaskFree_NoRelease ==
    /\ task = "deleted"
    /\ task' = "none"
    /\ sys_task_stk' = FALSE
    /\ UNCHANGED <<msg_queue, sys_task_sem, current, pc, pmsg>>

(* Mutant: the pointer to the freed stack is not cleared *)
TaskFree_NoClear ==
    /\ task = "deleted"
    /\ task' = "none"
    /\ sys_task_sem' = sys_task_sem + 1
    /\ UNCHANGED <<msg_queue, sys_task_stk, current, pc, pmsg>>

(* The idle task removes the deleted task: tls_sys_task_free *)
TaskFree ==
    /\ task = "deleted"
    /\ task' = "none"
    /\ sys_task_stk' = FALSE
    /\ sys_task_sem' = sys_task_sem + 1
    /\ UNCHANGED <<msg_queue, current, pc, pmsg>>

-----------------------------------------------------------------------------
SenderStep(s) ==
    SendAcquire(s) \/ TaskInit(s) \/ QueueSend(s) \/ SendRelease(s)

TaskStep == Receive \/ Handled \/ TaskAcquire \/ TaskCheck \/ TaskFree

Next ==
    \/ \E s \in Senders : (\E m \in Messages : SendMsg(s, m)) \/ SenderStep(s)
    \/ TaskStep

Spec == Init /\ [][Next]_taskvars

(* A FreeRTOS semaphore wakes the waiting tasks in turn, so an acquire that *)
(* is enabled again and again succeeds; everything else only has to be      *)
(* scheduled, the idle task included.                                       *)
FairSpec ==
    /\ Spec
    /\ WF_taskvars(Receive) /\ WF_taskvars(Handled) /\ SF_taskvars(TaskAcquire)
    /\ WF_taskvars(TaskCheck) /\ WF_taskvars(TaskFree)
    /\ \A s \in Senders :
          /\ SF_taskvars(SendAcquire(s)) /\ WF_taskvars(TaskInit(s))
          /\ WF_taskvars(QueueSend(s)) /\ WF_taskvars(SendRelease(s))

-----------------------------------------------------------------------------
SenderHolds(s) == pc[s] \in {"init", "send", "release"}
TaskHolds == task \in {"check", "deleted"}

(* The semaphore is handed over exactly once: its count and its holders     *)
(* (a sender, the task, or the idle task on behalf of the deleted task) add *)
(* up to one, although the task that takes it last never gives it back      *)
(* itself.                                                                  *)
SemaphoreHandedOver ==
    /\ sys_task_sem \in {0, 1}
    /\ \A s \in Senders : SenderHolds(s) => sys_task_sem = 0 /\ ~TaskHolds
    /\ \A s, t \in Senders : SenderHolds(s) /\ SenderHolds(t) => s = t
    /\ TaskHolds => sys_task_sem = 0
    /\ sys_task_sem = 0 => TaskHolds \/ \E s \in Senders : SenderHolds(s)

(* sys_task_stk tells whether there is a task, one that waits to be cleaned *)
(* up included: no second task is created on the stack of a live one.       *)
StackOwned == sys_task_stk <=> task # "none"

(* No message is left in the queue without a task that will look at it:     *)
(* the task that found the queue empty and the sender that found a task     *)
(* never miss each other.                                                   *)
NoStrandedMessage == msg_queue # <<>> => task \notin {"none", "deleted"}

(* Promise of the component: a bounded mailbox that serves what it accepted *)
Mailbox == INSTANCE Mailbox WITH box <- msg_queue, serving <- current

(* Every message accepted into the queue is served once and in order, and   *)
(* the service never stalls, whoever creates and deletes the task meanwhile *)
ServesMailbox == Mailbox!FairSpec

(* tls_sys_send_msg returns: no sender waits for the semaphore for ever,    *)
(* although the system task dies with it                                    *)
SendReturns == \A s \in Senders : pc[s] # "idle" ~> pc[s] = "idle"
=============================================================================
