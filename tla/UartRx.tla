------------------------------- MODULE UartRx ---------------------------------
(****************************************************************************)
(* Receiving in platform/drivers/uart/wm_uart.c: the interrupt handler      *)
(* moves bytes from the receive FIFO to a ring, and one task takes them     *)
(* out with tls_uart_read, which uses no lock.                              *)
(*                                                                          *)
(* UART0_IRQHandler drops the newest byte when the ring is full, and with   *)
(* flow control on stores one more.  The handlers of the other ports make   *)
(* room first, by moving the tail of the ring that the reader also moves.   *)
(*                                                                          *)
(* A byte is the number of its arrival.  The handler is one step, since the *)
(* reader does not run before its end; the reader copies byte by byte.      *)
(****************************************************************************)
EXTENDS Integers, Sequences, FiniteSets, SequencesExt

CONSTANTS
    Ports,          \* subset of {"port0", "port0 fc", "other"}
    RingSize,       \* TLS_UART_RX_BUF_SIZE, 4096
    CacheLimit,     \* RX_CACHE_LIMIT, 128
    RxFifoSize,     \* 32
    ReadSizes,      \* readsize of the reader's calls
    MaxRx           \* bound: bytes that arrive between two setups of the port

ASSUME UartRxAssumption ==
    /\ Ports \subseteq {"port0", "port0 fc", "other"}
    /\ {RingSize, CacheLimit, RxFifoSize} \union ReadSizes \subseteq Nat \ {0}
    /\ RxFifoSize <= CacheLimit /\ 2 * CacheLimit < RingSize

VARIABLES
    port,               \* which handler serves it, and fcStatus
    head, tail, buf,    \* recv
    rx_fifo,
    arrived,            \* bytes that have arrived
    rpc,                \* "idle", or "copy" inside tls_uart_read
    buflen, from,       \* of tls_uart_read: how much is copied, and from where
    got,                \* what it has copied
    delivered,          \* history: what the calls returned
    lost,               \* history: bytes that the hardware or the handler dropped
    raced               \* history: the handler moved the tail during a call, or
                        \* stored into a full ring

ring == <<head, tail, buf>>
reader == <<rpc, buflen, from, got>>
rxvars == <<port, ring, rx_fifo, arrived, reader, delivered, lost, raced>>

CIRC_CNT == (head - tail) % RingSize
CIRC_SPACE == (tail - (head + 1)) % RingSize

RxTypeOK ==
    /\ port \in Ports
    /\ head \in 0 .. RingSize - 1 /\ tail \in 0 .. RingSize - 1
    /\ buf \in [0 .. RingSize - 1 -> 0 .. MaxRx]
    /\ Len(rx_fifo) <= RxFifoSize /\ ToSet(rx_fifo) \subseteq 1 .. MaxRx
    /\ arrived \in 0 .. MaxRx
    /\ rpc \in {"idle", "copy"}
    /\ buflen \in 0 .. RingSize - 1 /\ from \in 0 .. RingSize - 1
    /\ Len(got) <= buflen
    /\ lost \subseteq 0 .. MaxRx
    /\ raced \in BOOLEAN

RxInit ==
    /\ port \in Ports
    /\ head = 0 /\ tail = 0
    /\ buf = [i \in 0 .. RingSize - 1 |-> 0]
    /\ rx_fifo = <<>> /\ arrived = 0
    /\ rpc = "idle" /\ buflen = 0 /\ from = 0 /\ got = <<>>
    /\ delivered = <<>> /\ lost = {} /\ raced = FALSE

-----------------------------------------------------------------------------
(* The hardware: a byte arrives, and is lost if the FIFO is full *)
Arrive ==
    /\ arrived < MaxRx
    /\ arrived' = arrived + 1
    /\ \/ /\ Len(rx_fifo) < RxFifoSize
          /\ rx_fifo' = Append(rx_fifo, arrived')
          /\ UNCHANGED lost
       \/ /\ Len(rx_fifo) = RxFifoSize
          /\ lost' = lost \union {arrived'}
          /\ UNCHANGED rx_fifo
    /\ UNCHANGED <<port, ring, reader, delivered, raced>>

(* The first n bytes of the FIFO, appended to the ring *)
Insert(n) ==
    /\ buf' = [i \in DOMAIN buf |->
                  LET k == (i - head) % RingSize
                  IN  IF k < n THEN rx_fifo[k + 1] ELSE buf[i]]
    /\ head' = (head + n) % RingSize

TakeFifo(n) == rx_fifo' = SubSeq(rx_fifo, n + 1, Len(rx_fifo))


(* The handlers of ports 1 to 5 drop CacheLimit bytes when a FIFO might not fit *)
MakeRoom == port = "other" /\ CIRC_SPACE <= CacheLimit

DropOldest ==
    IF MakeRoom THEN {buf[(tail + k) % RingSize] : k \in 0 .. CacheLimit - 1} ELSE {}

MoveTail ==
    /\ tail' = IF MakeRoom THEN (tail + CacheLimit) % RingSize ELSE tail
    /\ raced' = (raced \/ (MakeRoom /\ rpc = "copy"))

(* Every handler, with an error interrupt: the bytes are not inserted; the  *)
(* handlers of ports 1 to 5 make room for them all the same                 *)
RxError ==
    /\ rx_fifo # <<>>
    /\ MoveTail
    /\ TakeFifo(Len(rx_fifo))
    /\ lost' = lost \union DropOldest \union ToSet(rx_fifo)
    /\ UNCHANGED <<port, head, buf, arrived, reader, delivered>>

(* UART1_IRQHandler and UART2_4_IRQHandler: room is made, then everything   *)
(* that is in the FIFO is inserted                                          *)
UART1_IRQHandler ==
    /\ port = "other" /\ rx_fifo # <<>>
    /\ MoveTail
    /\ Insert(Len(rx_fifo))
    /\ TakeFifo(Len(rx_fifo))
    /\ lost' = lost \union DropOldest
    /\ UNCHANGED <<port, arrived, reader, delivered>>

(* UART0_IRQHandler: bytes are inserted while more than two places are      *)
(* free.  The next byte is read and dropped, or with flow control inserted; *)
(* both end the loop                                                        *)
UART0_IRQHandler ==
    /\ port # "other" /\ rx_fifo # <<>>
    /\ LET room == IF CIRC_SPACE > 2 THEN CIRC_SPACE - 2 ELSE 0
       IN  \/ /\ Len(rx_fifo) <= room
              /\ Insert(Len(rx_fifo))
              /\ TakeFifo(Len(rx_fifo))
              /\ UNCHANGED <<lost, raced>>
           \/ /\ Len(rx_fifo) > room /\ port = "port0"
              /\ Insert(room)
              /\ TakeFifo(room + 1)
              /\ lost' = lost \union {rx_fifo[room + 1]}
              /\ UNCHANGED raced
           \/ /\ Len(rx_fifo) > room /\ port = "port0 fc"
              /\ Insert(room + 1)
              /\ TakeFifo(room + 1)
              /\ raced' = (raced \/ CIRC_SPACE = 0)
              /\ UNCHANGED lost
    /\ UNCHANGED <<port, tail, arrived, reader, delivered>>

-----------------------------------------------------------------------------
(* tls_uart_read: the length is computed from head and tail, ... *)
tls_uart_read(readsize) ==
    /\ rpc = "idle"
    /\ rpc' = "copy"
    /\ buflen' = IF CIRC_CNT >= readsize THEN readsize ELSE CIRC_CNT
    /\ from' = tail
    /\ UNCHANGED <<port, ring, rx_fifo, arrived, got, delivered, lost, raced>>

(* ... the bytes are copied, ... *)
ReadCopy ==
    /\ rpc = "copy" /\ Len(got) < buflen
    /\ got' = Append(got, buf[(from + Len(got)) % RingSize])
    /\ UNCHANGED <<port, ring, rx_fifo, arrived, rpc, buflen, from, delivered,
                   lost, raced>>

(* ... and the tail, as it is now, is moved *)
ReadEnd ==
    /\ rpc = "copy" /\ Len(got) = buflen
    /\ tail' = (tail + buflen) % RingSize
    /\ delivered' = delivered \o got
    /\ rpc' = "idle" /\ buflen' = 0 /\ from' = 0 /\ got' = <<>>
    /\ UNCHANGED <<port, head, buf, rx_fifo, arrived, lost, raced>>

RxNext ==
    \/ Arrive
    \/ RxError
    \/ UART0_IRQHandler
    \/ UART1_IRQHandler
    \/ \E readsize \in ReadSizes : tls_uart_read(readsize)
    \/ ReadCopy
    \/ ReadEnd

RxSpec == RxInit /\ [][RxNext]_rxvars

-----------------------------------------------------------------------------
(* The bytes in the ring, from the tail on *)
InRing == [k \in 1 .. CIRC_CNT |-> buf[(tail + k - 1) % RingSize]]


=============================================================================
