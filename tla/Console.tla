------------------------------ MODULE Console -------------------------------
(***************************************************************************)
(* Reading from the console: csread() and consoleintr() of                 *)
(* kernel/console.c, and the interrupt handler of driver/virt/uart.c that  *)
(* feeds it.                                                               *)
(*                                                                         *)
(* cs->lk is held from the start of csread() until sleep() has made the    *)
(* reader SLEEPING, from its return out of sleep() to the end of csread(), *)
(* and during all of consoleintr(), which one CPU runs with IRQs masked:   *)
(* each of these is one step.  What can come between two of them is        *)
(* everything else: characters, other readers, output, kill().             *)
(*                                                                         *)
(* A buffer is known by the kernel address of its first byte, which is     *)
(* also the channel its reader sleeps on; threads may read into the same   *)
(* one.  What lies behind that byte is physical memory: Room bytes of the  *)
(* reader's page, then the frame that comes next, whoever uses it.         *)
(***************************************************************************)
EXTENDS Integers, Sequences

CONSTANTS
    Procs,
    Bufs,       \* kernel addresses of buffers in mapped pages
    Wild,       \* what uva2ka() returns for an unmapped address that is no page's first
    Room,       \* bytes from each of these addresses to the end of its page
    Sizes,      \* sizes of the reads
    FIFO,       \* characters the UART holds
    MaxTyped,   \* bound on the characters typed to one read
    NULL        \* a model value

ASSUME BufsAssumption == NULL \notin Bufs \cup Wild /\ Bufs \cap Wild = {}
ASSUME SizesAssumption == Sizes \subseteq Nat
ASSUME RoomAssumption == Room \in [Bufs \cup Wild -> Nat \ {0}]
ASSUME FIFOAssumption == FIFO \in Nat \ {0}
ASSUME MaxTypedAssumption == MaxTyped \in Nat

\* Ordinary characters are all alike.
Chars == {"plain", "LF", "CR", "BACKSPACE", "EOT", "NUL", "DLE"}

VARIABLES
    lk,                     \* who holds cs->lk for good, or NULL
    readbuf, bufc, bufsz,   \* struct console
    mem,                    \* what the read has stored from readbuf[0] on
    state, chan,            \* of each process, as far as csread() goes
    signal,                 \* a signal is pending
    rx, line,               \* the UART's receive FIFO and interrupt line
    uart, c,                \* uartintr(): where it is ("panic" for good), its c
    typed                   \* history: the characters the read was offered

cs == <<readbuf, bufc, bufsz>>
port == <<rx, line, uart, c>>
vars == <<lk, cs, mem, state, chan, signal, port, typed>>

Init ==
    /\ lk = NULL
    /\ readbuf = NULL /\ bufc = 0 /\ bufsz = 0
    /\ mem = <<>>
    /\ state = [p \in Procs |-> "out"]
    /\ chan = [p \in Procs |-> NULL]
    /\ signal = [p \in Procs |-> FALSE]
    /\ rx = <<>> /\ line = FALSE
    /\ uart = "off" /\ c = "NUL"
    /\ typed = <<>>

-----------------------------------------------------------------------------
(* The readers.                                                            *)

\* csread() up to sleep().  The entry of an unmapped page is 0, to which uva2pa()
\* adds the offset in the page: only at offset 0 uva2ka() returns NULL, and sleep()
\* then waits on a channel that nobody wakes.
csread(p, n) ==
    /\ state[p] = "out" /\ lk = NULL
    /\ readbuf' \in Bufs \cup Wild \cup {NULL}
    /\ bufc' = 0 /\ bufsz' = n
    /\ state' = [state EXCEPT ![p] = "SLEEPING"]
    /\ chan' = [chan EXCEPT ![p] = readbuf']
    /\ mem' = <<>> /\ typed' = <<>>
    /\ UNCHANGED <<lk, signal, port>>

\* sleep() returns with cs->lk and so does csread(), with cs->bufc; whoever
\* read last, the console has no reader then.
Returns(p) ==
    /\ state[p] = "RUNNABLE" /\ lk = NULL
    /\ ~signal[p]
    /\ readbuf' = NULL /\ bufc' = 0 /\ bufsz' = 0
    /\ state' = [state EXCEPT ![p] = "out"]
    /\ chan' = [chan EXCEPT ![p] = NULL]
    /\ mem' = <<>> /\ typed' = <<>>
    /\ UNCHANGED <<lk, signal, port>>

\* sigcheck() in sleep() makes a killed reader exit, with cs->lk.
Dies(p) ==
    /\ state[p] = "RUNNABLE" /\ lk = NULL
    /\ signal[p]
    /\ lk' = p
    /\ state' = [state EXCEPT ![p] = "dead"]
    /\ UNCHANGED <<cs, mem, chan, signal, port, typed>>

kill(p) ==
    /\ state[p] \in {"SLEEPING", "RUNNABLE"}
    /\ signal' = [signal EXCEPT ![p] = TRUE]
    /\ state' = [state EXCEPT ![p] = "RUNNABLE"]
    /\ UNCHANGED <<lk, cs, mem, chan, port, typed>>

\* cswrite(), in any process: the transmit interrupt follows.
cswrite ==
    /\ line' = TRUE
    /\ UNCHANGED <<lk, cs, mem, state, chan, signal, rx, uart, c, typed>>

-----------------------------------------------------------------------------
(* The UART (hardware) and its interrupt handler.                          *)

\* A character arrives.  The receive interrupt is raised by the first one in
\* the FIFO.  MaxTyped bounds what one read is offered before the character that
\* uartintr() has in c.
Arrives(ch) ==
    /\ Len(rx) < FIFO
    /\ readbuf # NULL => Len(typed) + Len(rx) < MaxTyped
    /\ rx' = Append(rx, ch)
    /\ line' = (line \/ rx = <<>>)
    /\ UNCHANGED <<lk, cs, mem, state, chan, signal, uart, c, typed>>

IrqTaken ==
    /\ uart = "off" /\ line
    /\ uart' = "getc"
    /\ UNCHANGED <<lk, cs, mem, state, chan, signal, rx, line, c, typed>>

uart_getc ==
    /\ uart = "getc"
    /\ IF rx = <<>>
       THEN uart' = "clear" /\ UNCHANGED <<rx, c>>
       ELSE uart' = "intr" /\ rx' = Tail(rx) /\ c' = Head(rx)
    /\ UNCHANGED <<lk, cs, mem, state, chan, signal, line, typed>>

\* Mutant: the carriage return is stored as it is.
NewlineRaw(ch) == ch
Newline(ch) == IF ch = "CR" THEN "LF" ELSE ch

\* readbuf[i] = ch
Stored(s, i, ch) ==
    IF i < Len(s) THEN [s EXCEPT ![i + 1] = ch] ELSE Append(s, ch)

\* Mutant: the reader is woken by a full buffer and by ^D only.
WakesNoNewline(ch, n) == ch = "EOT" \/ n = bufsz
\* Mutant: a full buffer does not wake the reader.
WakesNotFull(ch, n) == ch \in {"LF", "EOT"}
\* When consoleintr() wakes the reader, with n characters in the buffer.
Wakes(ch, n) == ch \in {"LF", "EOT"} \/ n = bufsz

\* wakeup(cs->readbuf)
Woken == [p \in Procs |->
    IF state[p] = "SLEEPING" /\ chan[p] = readbuf THEN "RUNNABLE" ELSE state[p]]

\* consoleintr() of a character that is not for the reader: ^P, NUL, or no
\* read is pending.
Ignored ==
    /\ c \in {"NUL", "DLE"} \/ readbuf = NULL
    /\ uart' = "getc"
    /\ UNCHANGED <<lk, bufc, mem, state, line, typed>>

\* What the character does to the line that is read.
Edit ==
    LET ch == Newline(c)
    IN CASE ch = "BACKSPACE" ->
              bufc' = (IF bufc > 0 THEN bufc - 1 ELSE 0) /\ UNCHANGED mem
         [] ch = "EOT" -> UNCHANGED <<bufc, mem>>
         [] OTHER -> /\ mem' = Stored(mem, bufc, ch)
                     /\ bufc' = bufc + 1

\* Characters that consoleintr() stores.
Stores(ch) == ch \notin {"BACKSPACE", "EOT"}

\* Nothing is mapped at a wild address: the store is a data abort of the kernel,
\* in a handler that holds cs->lk.
Faults ==
    /\ c \notin {"NUL", "DLE"} /\ readbuf \in Wild /\ Stores(Newline(c))
    /\ uart' = "panic" /\ lk' = "uartintr"
    /\ UNCHANGED <<bufc, mem, state, line, typed>>

\* The rest of consoleintr().  The echo is output.
Offered ==
    /\ c \notin {"NUL", "DLE"} /\ readbuf # NULL
    /\ ~(readbuf \in Wild /\ Stores(Newline(c)))
    /\ Edit
    /\ state' = IF Wakes(Newline(c), bufc') THEN Woken ELSE state
    /\ line' = TRUE
    /\ typed' = Append(typed, c)
    /\ uart' = "getc"
    /\ UNCHANGED lk

consoleintr ==
    /\ uart = "intr" /\ lk = NULL
    /\ Ignored \/ Faults \/ Offered
    /\ c' = "NUL"
    /\ UNCHANGED <<readbuf, bufsz, chan, signal, rx>>

\* REG(UART_ICR): the line drops, also for a character that has come since
\* uart_getc() found none.
Clear ==
    /\ uart = "clear"
    /\ uart' = "off" /\ line' = FALSE
    /\ UNCHANGED <<lk, cs, mem, state, chan, signal, rx, c, typed>>

\* panic() turns the machine off.
Next ==
    /\ uart # "panic"
    /\ \/ \E p \in Procs : \E n \in Sizes : csread(p, n)
       \/ \E p \in Procs : Returns(p) \/ Dies(p) \/ kill(p)
       \/ cswrite
       \/ \E ch \in Chars : Arrives(ch)
       \/ IrqTaken \/ uart_getc \/ consoleintr \/ Clear

Spec == Init /\ [][Next]_vars

\* The CPU that the interrupt is routed to takes it and completes the handler;
\* the scheduler runs every RUNNABLE process.
FairSpec ==
    /\ Spec
    /\ WF_vars(IrqTaken) /\ WF_vars(uart_getc) /\ WF_vars(consoleintr)
    /\ WF_vars(Clear)
    /\ \A p \in Procs : WF_vars(Returns(p) \/ Dies(p))

-----------------------------------------------------------------------------
(* Properties.                                                             *)

\* Line editing: a BACKSPACE takes away the character before it, if any.
Keyed(l, ch) ==
    CASE ch = "BACKSPACE" -> SubSeq(l, 1, Len(l) - 1)
      [] ch = "EOT" -> l
      [] ch = "CR" -> Append(l, "LF")
      [] OTHER -> Append(l, ch)
Edited(s) ==
    LET after[i \in 0 .. Len(s)] == IF i = 0 THEN <<>> ELSE Keyed(after[i - 1], s[i])
    IN  after[Len(s)]

\* The reader of the pending read, or a thread that reads into the same buffer,
\* has not been woken.
Asleep == \E p \in Procs : state[p] = "SLEEPING" /\ chan[p] = readbuf

\* From readbuf[0] on, memory holds what was typed since the pending read began,
\* edited, also when another read had been pending or was never woken; and a line
\* whose reader sleeps has no newline and, unless it was asked for 0 characters,
\* does not fill the buffer: csread() is not left asleep on a finished line.
\* consoleintr() edits the line and wakes the reader.
PendingLine ==
    readbuf # NULL =>
        /\ SubSeq(mem, 1, bufc) = Edited(typed)
        /\ Asleep =>
            /\ ~\E i \in 1 .. bufc : mem[i] = "LF"
            /\ bufsz > 0 => bufc < bufsz

\* A character has been stored past the end of the buffer, or past its page.
Outside == Len(mem) > bufsz \/ Len(mem) > Room[readbuf]

\* consoleintr() has no test of the bounds of the buffer.  What it stores outside
\* of it is stored after the reader was woken, or for a reader that asked for 0
\* characters, whom only LF, ^D and a BACKSPACE on the first character wake, or,
\* still within the length of the read, behind the page of a buffer that does not
\* end in the page it begins in.
StoresInside ==
    readbuf # NULL /\ Asleep /\ Outside =>
        \/ bufsz = 0
        \/ Room[readbuf] < bufsz /\ Len(mem) <= bufsz

\* Characters wait in the UART, and its interrupt has been cleared.
Stranded == rx # <<>> /\ uart = "off" /\ ~line

\* A pending read into a mapped buffer returns once the end of the line has
\* arrived, unless another read takes the console over, a reader dies with cs->lk,
\* or the end of uartintr() clears the interrupt of characters that wait:
\* uartintr(), consoleintr(), wakeup() and the scheduler pass it on.
ReadReturns ==
    \A p \in Procs :
        (/\ readbuf \in Bufs /\ chan[p] = readbuf /\ state[p] # "out"
         /\ \E i \in 1 .. Len(rx) : rx[i] \in {"LF", "CR"})
            ~> (state[p] = "out" \/ chan[p] # readbuf \/ lk # NULL \/ Stranded)
=============================================================================
