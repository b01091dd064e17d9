---------------------------- MODULE SysTaskProofs -----------------------------
(****************************************************************************)
(* Safety of the on-demand system task, for any senders, any messages and   *)
(* any queue size.                                                          *)
(****************************************************************************)
EXTENDS SysTask, TLAPS

(* A sender between acquire and queue_send has found or made a task *)
TaskForSender == \A s \in Senders : pc[s] = "send" => task # "none"

(* A sender that has a message to queue holds it *)
MessageInHand ==
    /\ \A s \in Senders : pc[s] \in {"acquire", "init", "send"} => pmsg[s] \in Messages
    /\ current # NoMsg <=> task = "handle"

IInv ==
    /\ TypeOK /\ SemaphoreHandedOver /\ StackOwned /\ NoStrandedMessage
    /\ TaskForSender /\ MessageInHand

(* The initial state satisfies the inductive invariant *)
LEMMA InitIInv == Init => IInv
<1> SUFFICES ASSUME Init PROVE IInv
  OBVIOUS
<1>1. TypeOK
  <2>1. <<>> \in Seq(Messages) /\ Len(<<>>) <= QueueSize
    BY SysTaskAssumption
  <2> QED
    BY <2>1 DEF Init, TypeOK
<1>2. SemaphoreHandedOver /\ TaskForSender /\ MessageInHand
  BY DEF Init, SemaphoreHandedOver, TaskForSender, MessageInHand, SenderHolds, TaskHolds
<1>3. StackOwned /\ NoStrandedMessage
  BY DEF Init, StackOwned, NoStrandedMessage
<1> QED
  BY <1>1, <1>2, <1>3 DEF IInv

(* Every step keeps the types and the bound of the queue *)
LEMMA NextTypeOK == IInv /\ [Next]_taskvars => TypeOK'
<1> SUFFICES ASSUME IInv, [Next]_taskvars PROVE TypeOK'
  OBVIOUS
<1> USE SysTaskAssumption DEF TypeOK, IInv, MessageInHand, SemaphoreHandedOver, SenderHolds, TaskHolds
<1>1. ASSUME NEW s \in Senders, NEW m \in Messages, SendMsg(s, m) PROVE TypeOK'
  BY <1>1 DEF SendMsg, Goto
<1>2. ASSUME NEW s \in Senders, SendAcquire(s) PROVE TypeOK'
  BY <1>2 DEF SendAcquire, Goto
<1>3. ASSUME NEW s \in Senders, TaskInit(s) PROVE TypeOK'
  BY <1>3 DEF TaskInit, Goto, NeedsTask
<1>4. ASSUME NEW s \in Senders, QueueSend(s) PROVE TypeOK'
  BY <1>4 DEF QueueSend, Goto
<1>5. ASSUME NEW s \in Senders, SendRelease(s) PROVE TypeOK'
  BY <1>5 DEF SendRelease, Goto
<1>6. ASSUME Receive PROVE TypeOK'
  <2>1. /\ Head(msg_queue) \in Messages
        /\ Tail(msg_queue) \in Seq(Messages)
        /\ Len(Tail(msg_queue)) <= QueueSize
    BY <1>6 DEF Receive
  <2> QED
    BY <1>6, <2>1 DEF Receive
<1>7. ASSUME Handled \/ TaskAcquire \/ TaskCheck \/ TaskFree PROVE TypeOK'
  <2>1. CASE Handled
    BY <2>1 DEF Handled
  <2>2. CASE TaskAcquire
    BY <2>2 DEF TaskAcquire
  <2>3. CASE TaskCheck
    BY <2>3 DEF TaskCheck
  <2>4. CASE TaskFree
    <3>1. sys_task_sem' \in Nat
      BY <2>4 DEF TaskFree
    <3>2. sys_task_stk' \in BOOLEAN
      BY <2>4, Zenon DEF TaskFree
    <3> QED
      BY <2>4, <3>1, <3>2 DEF TaskFree
  <2> QED
    BY <1>7, <2>1, <2>2, <2>3, <2>4
<1>8. ASSUME UNCHANGED taskvars PROVE TypeOK'
  BY <1>8 DEF taskvars
<1> QED
  BY <1>1, <1>2, <1>3, <1>4, <1>5, <1>6, <1>7, <1>8 DEF Next, SenderStep, TaskStep

(* Every step keeps the semaphore with one holder and a task for the queue *)
LEMMA NextRest ==
    IInv /\ [Next]_taskvars =>
        SemaphoreHandedOver' /\ StackOwned' /\ NoStrandedMessage' /\ TaskForSender' /\ MessageInHand'
<1> DEFINE Rest == SemaphoreHandedOver /\ StackOwned /\ NoStrandedMessage /\ TaskForSender /\ MessageInHand
<1> SUFFICES ASSUME IInv, [Next]_taskvars PROVE Rest'
  OBVIOUS
<1> USE SysTaskAssumption DEF IInv, TypeOK, SemaphoreHandedOver, StackOwned, NoStrandedMessage,
        TaskForSender, MessageInHand, SenderHolds, TaskHolds
<1>1. ASSUME NEW s \in Senders, NEW m \in Messages, SendMsg(s, m) PROVE Rest'
  BY <1>1 DEF SendMsg, Goto
<1>2. ASSUME NEW s \in Senders, SendAcquire(s) PROVE Rest'
  BY <1>2 DEF SendAcquire, Goto
<1>3. ASSUME NEW s \in Senders, TaskInit(s) PROVE Rest'
  BY <1>3 DEF TaskInit, Goto, NeedsTask
<1>4. ASSUME NEW s \in Senders, QueueSend(s) PROVE Rest'
  BY <1>4 DEF QueueSend, Goto
<1>5. ASSUME NEW s \in Senders, SendRelease(s) PROVE Rest'
  BY <1>5 DEF SendRelease, Goto
<1>6. ASSUME Receive PROVE Rest'
  BY <1>6 DEF Receive
<1>7. ASSUME Handled PROVE Rest'
  BY <1>7 DEF Handled
<1>8. ASSUME TaskAcquire PROVE Rest'
  BY <1>8 DEF TaskAcquire
<1>9. ASSUME TaskCheck PROVE Rest'
  BY <1>9 DEF TaskCheck
<1>10. ASSUME TaskFree PROVE Rest'
  BY <1>10 DEF TaskFree
<1>11. ASSUME UNCHANGED taskvars PROVE Rest'
  BY <1>11 DEF taskvars
<1> QED
  BY <1>1, <1>2, <1>3, <1>4, <1>5, <1>6, <1>7, <1>8, <1>9, <1>10, <1>11
  DEF Next, SenderStep, TaskStep

(* IInv is inductive *)
THEOREM Invariance == Spec => []IInv
<1>1. IInv /\ [Next]_taskvars => IInv'
  BY NextTypeOK, NextRest DEF IInv
<1> QED
  BY InitIInv, <1>1, PTL DEF Spec

(* The queue never exceeds SYS_MSG_SIZE, and the task and the senders stay  *)
(* at the labels of the code.                                               *)
THEOREM TypeCorrect == Spec => []TypeOK
<1>1. IInv => TypeOK
  BY DEF IInv
<1> QED
  BY Invariance, <1>1, PTL

(* The semaphore that tls_sys_task takes and tls_sys_task_free gives back   *)
(* always has exactly one holder or the count one.                          *)
THEOREM SemaphoreCorrect == Spec => []SemaphoreHandedOver
<1>1. IInv => SemaphoreHandedOver
  BY DEF IInv
<1> QED
  BY Invariance, <1>1, PTL

(* sys_task_stk is set exactly while there is a task: tls_sys_task_init     *)
(* never creates a second one.                                              *)
THEOREM StackCorrect == Spec => []StackOwned
<1>1. IInv => StackOwned
  BY DEF IInv
<1> QED
  BY Invariance, <1>1, PTL

(* No message accepted by tls_sys_send_msg is left without a task.          *)
THEOREM NothingStranded == Spec => []NoStrandedMessage
<1>1. IInv => NoStrandedMessage
  BY DEF IInv
<1> QED
  BY Invariance, <1>1, PTL

(* The task implements the bounded mailbox, as far as safety goes: messages *)
(* are served once each and in the order they were accepted.                *)
THEOREM ImplementsMailbox == Spec => Mailbox!Spec
<1> USE DEF Mailbox!vars
<1>1. Init => Mailbox!Init
  BY DEF Init, Mailbox!Init
<1>2. IInv /\ [Next]_taskvars => [Mailbox!Next]_Mailbox!vars
  <2> SUFFICES ASSUME IInv, [Next]_taskvars PROVE [Mailbox!Next]_Mailbox!vars
    OBVIOUS
  <2> USE DEF IInv, TypeOK, MessageInHand
  <2>1. ASSUME NEW s \in Senders, QueueSend(s) PROVE [Mailbox!Next]_Mailbox!vars
    <3>1. pmsg[s] \in Messages
      BY <2>1 DEF QueueSend
    <3>2. CASE Len(msg_queue) < QueueSize
      <4>1. Mailbox!Accept(pmsg[s])
        BY <2>1, <3>2 DEF QueueSend, Mailbox!Accept
      <4> QED
        BY <3>1, <4>1 DEF Mailbox!Next
    <3>3. CASE ~(Len(msg_queue) < QueueSize)
      BY <2>1, <3>3 DEF QueueSend
    <3> QED
      BY <3>2, <3>3
  <2>2. ASSUME Receive PROVE [Mailbox!Next]_Mailbox!vars
    <3>1. Mailbox!Serve
      BY <2>2 DEF Receive, Mailbox!Serve
    <3> QED
      BY <3>1 DEF Mailbox!Next
  <2>3. ASSUME Handled PROVE [Mailbox!Next]_Mailbox!vars
    <3>1. Mailbox!Finish
      BY <2>3 DEF Handled, Mailbox!Finish
    <3> QED
      BY <3>1 DEF Mailbox!Next
  <2>4. ASSUME NEW s \in Senders, NEW m \in Messages, SendMsg(s, m)
        PROVE  UNCHANGED Mailbox!vars
    BY <2>4 DEF SendMsg
  <2>5. ASSUME NEW s \in Senders, SendAcquire(s) \/ TaskInit(s) \/ SendRelease(s)
        PROVE  UNCHANGED Mailbox!vars
    BY <2>5 DEF SendAcquire, TaskInit, SendRelease
  <2>6. ASSUME TaskAcquire \/ TaskCheck \/ TaskFree PROVE UNCHANGED Mailbox!vars
    BY <2>6 DEF TaskAcquire, TaskCheck, TaskFree
  <2>7. ASSUME UNCHANGED taskvars PROVE UNCHANGED Mailbox!vars
    BY <2>7 DEF taskvars
  <2> QED
    BY <2>1, <2>2, <2>3, <2>4, <2>5, <2>6, <2>7 DEF Next, SenderStep, TaskStep
<1> QED
  BY Invariance, <1>1, <1>2, PTL DEF Spec, Mailbox!Spec
=============================================================================
