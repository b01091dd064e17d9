------------------------------- MODULE UartTx ---------------------------------
(****************************************************************************)
(* Sending in platform/drivers/uart/wm_uart.c, on ports 0 and 1: tasks      *)
(* append messages to a list and put what fits into the transmit FIFO, the  *)
(* interrupt handler puts more when the FIFO has run empty, and whoever     *)
(* puts the last byte of a message calls the port's callbacks, one of which *)
(* frees the finished messages.  With hardware flow control the handler     *)
(* also stops and resumes the transmitter when the CTS line changes.        *)
(*                                                                          *)
(* The lists are changed with interrupts disabled.  The handler runs to its *)
(* end before the tasks go on; the FIFO drains at any time.                 *)
(****************************************************************************)
EXTENDS Naturals, Sequences, FiniteSets, SequencesExt, FiniteSetsExt

CONSTANTS
    Writers,    \* tasks that call tls_uart_write
    Controller, \* the task that calls tls_uart_set_fc_status
    Isr,        \* UART0_IRQHandler or UART1_IRQHandler
    Nobody,
    TxFifoSize, \* tx_fifofull, 16
    Burst,      \* bytes put at a time, 32
    Lengths,    \* lengths of messages
    MaxMsgs,    \* bound: messages between two setups of the port
    FlowCtrl    \* opts.flow_ctrl is TLS_UART_FLOW_CTRL_HARDWARE, on port 1

Actors == Writers \union {Controller, Isr}

ASSUME UartTxAssumption ==
    /\ Isr # Controller /\ Writers \intersect {Controller, Isr} = {}
    /\ {TxFifoSize, Burst} \union Lengths \subseteq Nat \ {0}
    /\ FlowCtrl \in BOOLEAN

VARIABLES
    tx_msg_pending_list,        \* of [id, len, offset]
    tx_msg_to_be_freed_list,    \* of ids
    tx_fifo,                    \* bytes, as <<id, position>>
    tx_en,                      \* ULCON_TX_EN
    ints,                       \* UR_INTS: "TX" and "CTS"
    cts,                        \* the CTS line
    hw_stopped, fcStatus,
    UR_FC,                      \* the hardware itself waits for CTS
    critical,                   \* who has disabled the interrupts
    tx_count,                   \* bytes the caller of tls_uart_tx_chars has put
    txpc,                       \* where the tasks and the handler are
    intr_src,                   \* what the handler has still to look at
    tx_msg,                     \* the message each of them is about to free
    accepted,                   \* history: lengths of the messages, in order
    wire,                       \* history: the bytes sent
    freed,                      \* history: the messages freed
    sent,                       \* history: number of calls of tx_sent_callback
    missed                      \* history: interrupts were cleared unseen

lists == <<tx_msg_pending_list, tx_msg_to_be_freed_list>>
device == <<tx_fifo, tx_en, ints, cts>>
flow == <<hw_stopped, fcStatus, UR_FC>>
control == <<critical, tx_count, txpc, intr_src, tx_msg>>
history == <<accepted, wire, freed, sent, missed>>
txvars == <<lists, device, flow, control, history>>

Ids == 1 .. MaxMsgs
Bytes == Ids \X (1 .. Max(Lengths))

TxTypeOK ==
    /\ \A i \in DOMAIN tx_msg_pending_list :
          LET m == tx_msg_pending_list[i]
          IN  m.id \in Ids /\ m.len \in Lengths /\ m.offset \in 0 .. m.len
    /\ tx_msg_to_be_freed_list \in BoundedSeq(Ids, MaxMsgs)
    /\ Len(tx_fifo) <= TxFifoSize /\ \A i \in DOMAIN tx_fifo : tx_fifo[i] \in Bytes
    /\ tx_en \in BOOLEAN /\ cts \in BOOLEAN
    /\ ints \subseteq {"TX", "CTS"} /\ intr_src \subseteq {"TX", "CTS"}
    /\ hw_stopped \in BOOLEAN /\ fcStatus \in BOOLEAN /\ UR_FC \in BOOLEAN
    /\ critical \in Actors \union {Nobody}
    /\ tx_count \in 0 .. Burst
    /\ txpc \in [Actors -> {"idle", "chars", "put", "sent", "free", "freeing",
                            "ack", "int", "fc", "fc end"}]
    /\ tx_msg \in [Actors -> Ids \union {0}]
    /\ Len(accepted) <= MaxMsgs /\ freed \subseteq Ids /\ sent \in 0 .. MaxMsgs
    /\ missed \in BOOLEAN

TxInit ==
    /\ tx_msg_pending_list = <<>> /\ tx_msg_to_be_freed_list = <<>>
    /\ tx_fifo = <<>> /\ tx_en = TRUE /\ ints = {} /\ cts = TRUE
    /\ hw_stopped = FALSE /\ fcStatus = FALSE /\ UR_FC = FlowCtrl
    /\ critical = Nobody /\ tx_count = 0
    /\ txpc = [p \in Actors |-> "idle"]
    /\ intr_src = {}
    /\ tx_msg = [p \in Actors |-> 0]
    /\ accepted = <<>> /\ wire = <<>> /\ freed = {} /\ sent = 0 /\ missed = FALSE

-----------------------------------------------------------------------------
(* A task runs unless the handler does, and nobody else in a critical section *)
Runs(p) ==
    /\ critical \in {Nobody, p}
    /\ p = Isr \/ txpc[Isr] = "idle"

Goto(p, label) == txpc' = [txpc EXCEPT ![p] = label]

(* Where tls_uart_tx_chars returns to *)
Return(p) ==
    IF p = Isr THEN "int" ELSE IF p = Controller THEN "fc end" ELSE "idle"

(* Mutant: dl_list_add in place of dl_list_add_tail *)
FillBuf_AddFirst(p, len) ==
    /\ txpc[p] = "idle" /\ Runs(p)
    /\ Len(accepted) < MaxMsgs
    /\ accepted' = Append(accepted, len)
    /\ tx_msg_pending_list' =
          <<[id |-> Len(accepted) + 1, len |-> len, offset |-> 0]>> \o tx_msg_pending_list
    /\ Goto(p, "chars")
    /\ UNCHANGED <<tx_msg_to_be_freed_list, device, flow, critical, tx_count,
                   intr_src, tx_msg, wire, freed, sent, missed>>

(* tls_uart_fill_buf of a tls_uart_write for which there is memory *)
tls_uart_fill_buf(p, len) ==
    /\ txpc[p] = "idle" /\ Runs(p)
    /\ Len(accepted) < MaxMsgs
    /\ accepted' = Append(accepted, len)
    /\ tx_msg_pending_list' =
          Append(tx_msg_pending_list, [id |-> Len(accepted) + 1, len |-> len, offset |-> 0])
    /\ Goto(p, "chars")
    /\ UNCHANGED <<tx_msg_to_be_freed_list, device, flow, critical, tx_count,
                   intr_src, tx_msg, wire, freed, sent, missed>>

(* tls_uart_tx_chars and tls_uart_tx_chars_start: enter the critical        *)
(* section, or return if there is nothing to send, ...                      *)
TxBegin(p) ==
    /\ txpc[p] = "chars" /\ Runs(p)
    /\ \/ /\ tx_msg_pending_list = <<>>
          /\ Goto(p, Return(p))
          /\ UNCHANGED critical
       \/ /\ tx_msg_pending_list # <<>>
          /\ critical' = p
          /\ Goto(p, "put")
    /\ UNCHANGED <<lists, device, flow, tx_count, intr_src, tx_msg, history>>

(* Mutant: the FIFO is not looked at *)
MayPut_NoFullTest ==
    /\ tx_count < Burst
    /\ tx_msg_pending_list[1].offset < tx_msg_pending_list[1].len

MayPut ==
    /\ tx_count < Burst
    /\ tx_msg_pending_list[1].offset < tx_msg_pending_list[1].len
    /\ Len(tx_fifo) < TxFifoSize

(* ... put bytes of the first message into the FIFO, ... *)
TxPut(p) ==
    /\ txpc[p] = "put"
    /\ MayPut
    /\ tx_fifo' = Append(tx_fifo, <<tx_msg_pending_list[1].id,
                                    tx_msg_pending_list[1].offset + 1>>)
    /\ tx_msg_pending_list' = [tx_msg_pending_list EXCEPT ![1].offset = @ + 1]
    /\ tx_count' = tx_count + 1
    /\ UNCHANGED <<tx_msg_to_be_freed_list, tx_en, ints, cts, flow, critical,
                   txpc, intr_src, tx_msg, history>>

(* ... and move the message to the other list if it is finished *)
TxEnd(p) ==
    /\ txpc[p] = "put"
    /\ ~MayPut
    /\ LET first == tx_msg_pending_list[1]
       IN  \/ /\ first.offset = first.len
              /\ tx_msg_pending_list' = Tail(tx_msg_pending_list)
              /\ tx_msg_to_be_freed_list' = Append(tx_msg_to_be_freed_list, first.id)
              /\ Goto(p, "sent")
           \/ /\ first.offset < first.len
              /\ Goto(p, Return(p))
              /\ UNCHANGED lists
    /\ critical' = Nobody
    /\ tx_count' = 0
    /\ UNCHANGED <<device, flow, intr_src, tx_msg, history>>

(* tx_sent_callback *)
TxSent(p) ==
    /\ txpc[p] = "sent" /\ Runs(p)
    /\ sent' = sent + 1
    /\ Goto(p, "free")
    /\ UNCHANGED <<lists, device, flow, critical, tx_count, intr_src, tx_msg,
                   accepted, wire, freed, missed>>

(* Mutant: the message leaves the list after it is freed *)
TakeSent_Keeps(p) ==
    /\ txpc[p] = "free" /\ Runs(p)
    /\ \/ /\ tx_msg_to_be_freed_list = <<>>
          /\ Goto(p, Return(p))
          /\ UNCHANGED tx_msg
       \/ /\ tx_msg_to_be_freed_list # <<>>
          /\ tx_msg' = [tx_msg EXCEPT ![p] = Head(tx_msg_to_be_freed_list)]
          /\ Goto(p, "freeing")
    /\ UNCHANGED <<lists, device, flow, critical, tx_count, intr_src, history>>

(* tx_callback, which is tls_uart_free_tx_sent_data: a message is taken     *)
(* from the list, ...                                                       *)
TakeSent(p) ==
    /\ txpc[p] = "free" /\ Runs(p)
    /\ \/ /\ tx_msg_to_be_freed_list = <<>>
          /\ Goto(p, Return(p))
          /\ UNCHANGED <<tx_msg_to_be_freed_list, tx_msg>>
       \/ /\ tx_msg_to_be_freed_list # <<>>
          /\ tx_msg' = [tx_msg EXCEPT ![p] = Head(tx_msg_to_be_freed_list)]
          /\ tx_msg_to_be_freed_list' = Tail(tx_msg_to_be_freed_list)
          /\ Goto(p, "freeing")
    /\ UNCHANGED <<tx_msg_pending_list, device, flow, critical, tx_count,
                   intr_src, history>>

(* ... and freed with interrupts enabled *)
FreeSent(p) ==
    /\ txpc[p] = "freeing" /\ Runs(p)
    /\ freed' = freed \union {tx_msg[p]}
    /\ tx_msg' = [tx_msg EXCEPT ![p] = 0]
    /\ Goto(p, "free")
    /\ UNCHANGED <<lists, device, flow, critical, tx_count, intr_src,
                   accepted, wire, sent, missed>>

-----------------------------------------------------------------------------
(* The handler acknowledges the interrupts and then looks at them *)
IsrEnter ==
    /\ txpc[Isr] = "idle" /\ Runs(Isr)
    /\ ints # {}
    /\ intr_src' = ints
    /\ ints' = {}
    /\ Goto(Isr, "ack")
    /\ UNCHANGED <<lists, tx_fifo, tx_en, cts, flow, critical, tx_count,
                   tx_msg, history>>

(* The receiving part comes first.  When there is a receive error it sets a *)
(* bit of UR_INTS with |=, which writes back, and so clears, whatever was   *)
(* latched meanwhile                                                        *)
IsrRx ==
    /\ txpc[Isr] = "ack"
    /\ Goto(Isr, "int")
    /\ \/ UNCHANGED <<ints, missed>>
       \/ ints' = {} /\ missed' = (missed \/ ints # {})
    /\ UNCHANGED <<lists, tx_fifo, tx_en, cts, flow, critical, tx_count, intr_src,
                   tx_msg, accepted, wire, freed, sent>>

IsrTx ==
    /\ txpc[Isr] = "int"
    /\ "TX" \in intr_src
    /\ intr_src' = intr_src \ {"TX"}
    /\ Goto(Isr, "chars")
    /\ UNCHANGED <<lists, device, flow, critical, tx_count, tx_msg, history>>

(* uart_handle_cts_change, with the state of the line at this moment *)
IsrCts ==
    /\ txpc[Isr] = "int"
    /\ intr_src = {"CTS"}
    /\ intr_src' = {}
    /\ \/ /\ FlowCtrl /\ fcStatus /\ hw_stopped /\ cts
          /\ hw_stopped' = FALSE
          /\ tx_en' = TRUE
          /\ Goto(Isr, "chars")
       \/ /\ FlowCtrl /\ fcStatus /\ ~hw_stopped /\ ~cts
          /\ hw_stopped' = TRUE
          /\ tx_en' = FALSE
          /\ UNCHANGED txpc
       \/ /\ ~(FlowCtrl /\ fcStatus /\ hw_stopped = cts)
          /\ UNCHANGED <<hw_stopped, tx_en, txpc>>
    /\ UNCHANGED <<lists, tx_fifo, ints, cts, fcStatus, UR_FC, critical, tx_count,
                   tx_msg, history>>

IsrExit ==
    /\ txpc[Isr] = "int"
    /\ intr_src = {}
    /\ Goto(Isr, "idle")
    /\ UNCHANGED <<lists, device, flow, critical, tx_count, intr_src, tx_msg,
                   history>>

-----------------------------------------------------------------------------
(* tls_uart_set_fc_status: the new status is set, and if it switches flow   *)
(* control off while the handler had stopped the transmitter, the caller    *)
(* starts it again                                                          *)
tls_uart_set_fc_status(status) ==
    /\ txpc[Controller] = "idle" /\ Runs(Controller)
    /\ fcStatus' = status
    /\ UR_FC' = (status /\ (FlowCtrl \/ UR_FC))
    /\ Goto(Controller, "fc")
    /\ UNCHANGED <<lists, device, hw_stopped, critical, tx_count, intr_src,
                   tx_msg, history>>

(* Mutant: flow control is switched off and the transmitter left stopped *)
FcTest_NoResume ==
    /\ txpc[Controller] = "fc" /\ Runs(Controller)
    /\ Goto(Controller, "idle")
    /\ UNCHANGED <<lists, device, flow, critical, tx_count, intr_src, tx_msg,
                   history>>

FcTest ==
    /\ txpc[Controller] = "fc" /\ Runs(Controller)
    /\ \/ /\ FlowCtrl /\ ~fcStatus /\ hw_stopped
          /\ tx_en' = TRUE
          /\ Goto(Controller, "chars")
       \/ /\ ~(FlowCtrl /\ ~fcStatus /\ hw_stopped)
          /\ Goto(Controller, "idle")
          /\ UNCHANGED tx_en
    /\ UNCHANGED <<lists, tx_fifo, ints, cts, flow, critical, tx_count,
                   intr_src, tx_msg, history>>

FcEnd ==
    /\ txpc[Controller] = "fc end" /\ Runs(Controller)
    /\ hw_stopped' = FALSE
    /\ Goto(Controller, "idle")
    /\ UNCHANGED <<lists, device, fcStatus, UR_FC, critical, tx_count, intr_src,
                   tx_msg, history>>

(* tls_uart_port_init by the owner of the port, when no call on it is under *)
(* way: the lists start empty again and what they held is lost              *)
tls_uart_port_init ==
    /\ \A p \in Actors : txpc[p] = "idle"
    /\ accepted # <<>>
    /\ tx_msg_pending_list' = <<>> /\ tx_msg_to_be_freed_list' = <<>>
    /\ tx_fifo' = <<>> /\ tx_en' = TRUE /\ ints' = {}
    /\ hw_stopped' = FALSE /\ fcStatus' = FALSE /\ UR_FC' = FlowCtrl
    /\ accepted' = <<>> /\ wire' = <<>> /\ freed' = {} /\ sent' = 0
    /\ missed' = FALSE
    /\ UNCHANGED <<cts, control>>

(* The hardware: a byte leaves the FIFO.  The interrupt is latched when the *)
(* FIFO gets empty, and may be before that (the trigger level)              *)
Drain ==
    /\ tx_en /\ (UR_FC => cts)
    /\ tx_fifo # <<>>
    /\ wire' = Append(wire, Head(tx_fifo))
    /\ tx_fifo' = Tail(tx_fifo)
    /\ \E latch \in BOOLEAN :
          /\ tx_fifo' = <<>> => latch
          /\ ints' = IF latch THEN ints \union {"TX"} ELSE ints
    /\ UNCHANGED <<lists, tx_en, cts, flow, control, accepted, freed, sent, missed>>

(* The other end of the line raises or lowers CTS *)
CtsChange ==
    /\ FlowCtrl
    /\ cts' = ~cts
    /\ ints' = ints \union {"CTS"}
    /\ UNCHANGED <<lists, tx_fifo, tx_en, flow, control, history>>

TxChars(p) ==
    TxBegin(p) \/ TxPut(p) \/ TxEnd(p) \/ TxSent(p) \/ TakeSent(p) \/ FreeSent(p)

IsrStep == IsrEnter \/ IsrRx \/ IsrTx \/ IsrCts \/ IsrExit \/ TxChars(Isr)
ControllerStep == FcTest \/ FcEnd \/ TxChars(Controller)

TxNext ==
    \/ \E p \in Writers, len \in Lengths : tls_uart_fill_buf(p, len)
    \/ \E p \in Writers : TxChars(p)
    \/ \E status \in BOOLEAN : FlowCtrl /\ tls_uart_set_fc_status(status)
    \/ ControllerStep
    \/ IsrStep
    \/ tls_uart_port_init
    \/ Drain
    \/ CtsChange

(* Calls, the handler and the hardware go on; nobody has to call or to      *)
(* change CTS                                                               *)
TxFairness ==
    /\ \A p \in Writers : WF_txvars(TxChars(p))
    /\ WF_txvars(ControllerStep)
    /\ WF_txvars(IsrStep)
    /\ WF_txvars(Drain)

TxSpec == TxInit /\ [][TxNext]_txvars /\ TxFairness

-----------------------------------------------------------------------------
(* The bytes of message i from position k + 1 on *)
BytesFrom(i, len, k) == [n \in 1 .. len - k |-> <<i, k + n>>]

(* What was handed to tls_uart_write is what has been sent, is in the FIFO  *)
(* and is still in the list, in that order: the tasks and the handler put   *)
(* no byte twice, skip none and let no message overtake another.            *)
StreamIntact ==
    wire \o tx_fifo
         \o FlattenSeq([i \in DOMAIN tx_msg_pending_list |->
                LET m == tx_msg_pending_list[i] IN BytesFrom(m.id, m.len, m.offset)])
    = FlattenSeq([i \in DOMAIN accepted |-> BytesFrom(i, accepted[i], 0)])

(* A message that tls_uart_tx_chars has finished is in the list to be freed, *)
(* in the hands of the one who frees it, or freed, in one of them only; and  *)
(* tx_sent_callback has run once for each, or is about to.                   *)
FreedOnce ==
    LET listed == ToSet(tx_msg_to_be_freed_list)
        held == {p \in Actors : tx_msg[p] # 0}
        finished == (DOMAIN accepted)
                      \ {tx_msg_pending_list[i].id : i \in DOMAIN tx_msg_pending_list}
    IN  /\ finished = listed \union freed \union {tx_msg[p] : p \in held}
        /\ Cardinality(finished) =
              Len(tx_msg_to_be_freed_list) + Cardinality(freed) + Cardinality(held)
        /\ Cardinality(finished) =
              sent + Cardinality({p \in Actors : txpc[p] = "sent"})

(* If the other end is ready for good after some time, every accepted       *)
(* message is sent and freed, unless the port is set up again or a receive  *)
(* error clears a new interrupt: no other order of calls, CTS changes and   *)
(* interrupts leaves the transmitter stopped or the list without somebody   *)
(* who will go on with it.                                                  *)
AllSent ==
    <>[]cts =>
        \A i \in Ids :
            (i <= Len(accepted)) ~>
                \/ i > Len(accepted) \/ missed
                \/ /\ i \in freed
                   /\ <<i, accepted[i]>> \in ToSet(wire)

=============================================================================
