------------------------------- MODULE UartIo -------------------------------
(***************************************************************************)
(* read, write and puts over the FIFOs of the UART.  main writes texts and *)
(* reads lines; handlers that print (by the same loop) run between any two *)
(* of main's accesses; characters leave the transmit FIFO and arrive in    *)
(* the receive FIFO at any time.  Received characters are numbered in      *)
(* turn, to tell them apart; the one with number 0 is the terminator.      *)
(***************************************************************************)
EXTENDS Integers, Sequences

CONSTANTS
    Depth,       \* characters a FIFO holds
    RingSize,    \* UART_RXBUF_SIZE
    Numbers,     \* bound: characters are numbered modulo this
    MaxLen       \* bound: of a text, and of the buffer given to read

ASSUME UartAssumption ==
    /\ {Depth, MaxLen} \subseteq Nat \ {0}
    /\ RingSize \in Nat /\ RingSize > 1
    /\ Numbers \in Nat /\ Numbers > Depth + 1

VARIABLES
    io_at,         \* main: "idle", in write or in read
    isr_at,        \* the handler: "off", "poll" or "store"
    left,          \* characters to write, or room for what is read
    tx,            \* characters in the transmit FIFO
    printed,       \* history: a handler has printed since main's last poll
    rx,            \* the receive FIFO
    arriving,      \* the number of the next character from outside
    rxbuf, rxbuf_head, rxbuf_tail,
    expected       \* history: the number of the next character of read

tx_vars == <<tx, printed>>
rx_vars == <<rx, arriving, rxbuf, rxbuf_head, rxbuf_tail, expected>>
io_vars == <<io_at, isr_at, left, tx_vars, rx_vars>>

Ring == 0 .. RingSize - 1

UartInit ==
    /\ io_at = "idle" /\ isr_at = "off" /\ left = 0
    /\ tx = 0 /\ printed = FALSE
    /\ rx = <<>> /\ arriving = 0 /\ expected = 0
    /\ rxbuf = [i \in Ring |-> 0] /\ rxbuf_head = 0 /\ rxbuf_tail = 0

At_io(label) == isr_at = "off" /\ io_at = label

(***************************************************************************)
(* A store into the transmit FIFO: a full one drops the character.         *)
(***************************************************************************)
StoreChar == tx' = IF tx < Depth THEN tx + 1 ELSE tx

(***************************************************************************)
(* __wrap_write and __wrap_puts: poll and store each character, and a      *)
(* return after a newline.                                                 *)
(***************************************************************************)
CallWrite ==
    /\ At_io("idle")
    /\ left' \in 1 .. MaxLen /\ io_at' = "poll"
    /\ UNCHANGED <<isr_at, tx_vars, rx_vars>>

PollFifo ==
    /\ At_io("poll") /\ tx < Depth
    /\ io_at' = "store" /\ printed' = FALSE
    /\ UNCHANGED <<isr_at, left, tx, rx_vars>>

NextChar == left' = left - 1 /\ io_at' = IF left = 1 THEN "idle" ELSE "poll"

Store ==
    /\ At_io("store") /\ StoreChar
    /\ NextChar
    /\ UNCHANGED <<isr_at, printed, rx_vars>>

StoreNewlineUnpolled ==
    /\ At_io("store") /\ StoreChar
    /\ io_at' = "store_return"
    /\ UNCHANGED <<isr_at, left, printed, rx_vars>>

StoreNewline ==
    /\ At_io("store") /\ StoreChar
    /\ io_at' = "poll_return"
    /\ UNCHANGED <<isr_at, left, printed, rx_vars>>

PollAgain ==
    /\ At_io("poll_return") /\ tx < Depth
    /\ io_at' = "store_return" /\ printed' = FALSE
    /\ UNCHANGED <<isr_at, left, tx, rx_vars>>

StoreReturn ==
    /\ At_io("store_return") /\ StoreChar
    /\ NextChar
    /\ UNCHANGED <<isr_at, printed, rx_vars>>

(***************************************************************************)
(* __wrap_read: move a character from the FIFO to the ring, if there is    *)
(* one, until the ring is not empty; take one from the ring; stop at the   *)
(* terminator or at the end of the buffer.                                 *)
(***************************************************************************)
CallRead ==
    /\ At_io("idle")
    /\ left' \in 1 .. MaxLen /\ io_at' = "probe"
    /\ UNCHANGED <<isr_at, tx_vars, rx_vars>>

uart_probe_rx ==
    IF rx = <<>> THEN UNCHANGED <<rx, rxbuf, rxbuf_head>>
    ELSE /\ rx' = Tail(rx)
         /\ rxbuf' = [rxbuf EXCEPT ![rxbuf_head] = Head(rx)]
         /\ rxbuf_head' = (rxbuf_head + 1) % RingSize

ProbeOnce ==
    /\ At_io("probe") /\ uart_probe_rx
    /\ io_at' = "take"
    /\ UNCHANGED <<isr_at, left, tx_vars, arriving, rxbuf_tail, expected>>

Probe ==
    /\ At_io("probe") /\ uart_probe_rx
    /\ io_at' = IF rxbuf_head' = rxbuf_tail THEN "probe" ELSE "take"
    /\ UNCHANGED <<isr_at, left, tx_vars, arriving, rxbuf_tail, expected>>

Take ==
    /\ At_io("take")
    /\ rxbuf_tail' = (rxbuf_tail + 1) % RingSize
    /\ expected' = (expected + 1) % Numbers
    /\ left' = left - 1
    /\ io_at' = IF rxbuf[rxbuf_tail] = 0 \/ left = 1 THEN "idle" ELSE "probe"
    /\ UNCHANGED <<isr_at, tx_vars, rx, arriving, rxbuf, rxbuf_head>>

(***************************************************************************)
(* A handler that prints any number of characters.                         *)
(***************************************************************************)
TrapAndPrint ==
    /\ isr_at = "off" /\ isr_at' = "poll"
    /\ UNCHANGED <<io_at, left, tx_vars, rx_vars>>

IsrPoll ==
    /\ isr_at = "poll" /\ tx < Depth /\ isr_at' = "store"
    /\ UNCHANGED <<io_at, left, tx_vars, rx_vars>>

IsrStore ==
    /\ isr_at = "store" /\ StoreChar /\ isr_at' \in {"poll", "off"}
    /\ printed' = TRUE
    /\ UNCHANGED <<io_at, left, rx_vars>>

(***************************************************************************)
(* The line: one character leaves, one arrives; none arrives in a full     *)
(* FIFO.                                                                   *)
(***************************************************************************)
Send ==
    /\ tx > 0 /\ tx' = tx - 1
    /\ UNCHANGED <<io_at, isr_at, left, printed, rx_vars>>

Receive ==
    /\ Len(rx) < Depth
    /\ rx' = Append(rx, arriving) /\ arriving' = (arriving + 1) % Numbers
    /\ UNCHANGED <<io_at, isr_at, left, tx_vars, rxbuf, rxbuf_head, rxbuf_tail,
                   expected>>

UartWrite == CallWrite \/ PollFifo \/ Store \/ StoreNewline \/ PollAgain \/ StoreReturn
UartRead  == CallRead \/ Probe \/ Take
UartIsr   == TrapAndPrint \/ IsrPoll \/ IsrStore

UartNext == UartWrite \/ UartRead \/ UartIsr \/ Send \/ Receive

(***************************************************************************)
(* No store of write or of a handler meets a full FIFO, which would drop   *)
(* the character, unless a handler has printed between main's poll and its *)
(* store.                                                                  *)
(***************************************************************************)
StoresFit ==
    /\ io_at \in {"store", "store_return"} /\ tx = Depth => printed
    /\ isr_at = "store" => tx < Depth

(***************************************************************************)
(* read delivers what the FIFO accepted, each character once and in order, *)
(* however reads and arrivals alternate and as often as the ring goes      *)
(* round; it waits for a character that has not come.                      *)
(***************************************************************************)
ReadsInOrder == io_at = "take" => rxbuf[rxbuf_tail] = expected
=============================================================================
