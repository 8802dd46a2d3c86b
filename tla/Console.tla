------------------------------ MODULE Console ------------------------------
(***************************************************************************)
(* The serial ports as hal::uarts::process() serves them                   *)
(* (src/hal_uarts.cpp): the line editor of the console (src/comm/          *)
(* constrinput.c) fed from RS232, its commands (src/coninput.cpp), and the *)
(* bytes of the RS485 bus on their way to the protocol.  The main loop     *)
(* (src/main.cpp) calls process(), the tasks and processConsoleInput() in  *)
(* turn; the interrupt handlers of the ports run between any two steps.    *)
(*                                                                         *)
(* A character is a letter, a space or one of the control characters the   *)
(* editor tells apart.  External: the ring buffers of the chip library,    *)
(* bounded FIFOs that drop what does not fit.                              *)
(***************************************************************************)
EXTENDS Integers, Sequences, SequencesExt, FifoOps

CONSTANTS
  Letter,       \* letters a command is spelled with
  Commands,     \* the command words, as sequences of letters
  CSTR_SZ,      \* size of the line buffer (164)
  Done,         \* the bit of cbcnt that marks a complete line (0x80)
  RxRing,       \* capacity of a receive ring
  kMaxRxSz,     \* bytes process() takes at a time (64)
  MaxChars,     \* bound: characters typed on the console
  MaxBytes      \* bound: bytes received on the bus

Space == "sp"
CR == "cr"
Ignored == {"lf", "service"}     \* '\n'; '~' and '*'
Backspace == "bs"
NUL == "nul"
Char == Letter \cup {Space, CR, Backspace} \cup Ignored

ASSUME ConsoleAssumption ==
  /\ {CSTR_SZ, Done, RxRing, kMaxRxSz, MaxChars, MaxBytes} \subseteq Nat \ {0}
  /\ Done < CSTR_SZ
  /\ Letter \cap {Space, CR, Backspace, NUL, "lf", "service"} = {}
  /\ \A c \in Commands : c \in Seq(Letter) /\ c # <<>>

VARIABLES
  pc,        \* where the main loop is: "process", "pop485", "input"
  nRead,     \* n of process(): bytes of the bus taken by the first reading
  rx232,     \* receive ring of the console port
  cstr,      \* the line buffer, CSTR_SZ + 1 characters
  cbcnt,     \* characters in the line; the bit Done: the line is complete
  executed,  \* the line processConsoleInput() took last and what it found in it
  rx485,     \* receive ring of the bus: byte numbers
  echoed,    \* bytes written back to the bus (history)
  fed,       \* bytes given to the protocol (history)
  typed,     \* the line as an ideal editor has it: text, last complete line,
             \* due (complete and not yet followed by other input); long: a line
             \* that had Done characters or more (history)
  received   \* characters received: console, bus (bounded)

portVars == <<pc, nRead, rx232, cstr, cbcnt, executed, rx485, echoed, fed, typed, received>>

PortInit ==
  /\ pc = "process" /\ nRead = 0
  /\ rx232 = <<>> /\ rx485 = <<>>
  /\ cstr = [i \in 0 .. CSTR_SZ |-> NUL]
  /\ cbcnt = 0
  /\ executed = [line |-> <<>>, cmd |-> "none"]
  /\ echoed = <<>> /\ fed = <<>>
  /\ typed = [text |-> <<>>, long |-> FALSE, last |-> <<>>, lastLong |-> FALSE, due |-> FALSE]
  /\ received = [console |-> 0, bus |-> 0]

-----------------------------------------------------------------------------
(* Interrupt handlers                                                      *)

\* UART3_IRQHandler: a character of the console.
Type(c) ==
  /\ received.console < MaxChars
  /\ received' = [received EXCEPT !.console = @ + 1]
  /\ rx232' = Pushed(rx232, c, RxRing)
  /\ UNCHANGED <<pc, nRead, cstr, cbcnt, executed, rx485, echoed, fed, typed>>

\* UART1_IRQHandler: a byte of the bus.
BusByte ==
  /\ received.bus < MaxBytes
  /\ received' = [received EXCEPT !.bus = @ + 1]
  /\ rx485' = Pushed(rx485, received.bus + 1, RxRing)
  /\ UNCHANGED <<pc, nRead, rx232, cstr, cbcnt, executed, echoed, fed, typed>>

-----------------------------------------------------------------------------
(* The line editor                                                         *)

IsComplete(cnt) == (cnt \div Done) % 2 = 1
SetDone(cnt) == IF IsComplete(cnt) THEN cnt ELSE cnt + Done

\* Mutant: a complete line is not removed before the next one.
CprocbyteJoinsLines(e, b) ==
  IF b \in Ignored THEN e
  ELSE IF b = Backspace /\ e.cnt # 0 THEN [e EXCEPT !.cnt = e.cnt - 1]
  ELSE IF b = CR THEN [str |-> [e.str EXCEPT ![e.cnt] = NUL], cnt |-> SetDone(e.cnt)]
  ELSE IF e.cnt >= CSTR_SZ THEN [str |-> [e.str EXCEPT ![CSTR_SZ] = NUL], cnt |-> SetDone(e.cnt)]
  ELSE [str |-> [e.str EXCEPT ![e.cnt] = b], cnt |-> e.cnt + 1]

\* cprocbyte(): cstr and cbcnt after the character b.
Cprocbyte(e, b) ==
  LET cnt == IF IsComplete(e.cnt) THEN 0 ELSE e.cnt
  IN  IF b \in Ignored THEN e
      ELSE IF b = Backspace /\ cnt # 0 THEN [e EXCEPT !.cnt = cnt - 1]
      ELSE IF b = CR THEN [str |-> [e.str EXCEPT ![cnt] = NUL], cnt |-> SetDone(cnt)]
      ELSE IF cnt >= CSTR_SZ THEN [str |-> [e.str EXCEPT ![CSTR_SZ] = NUL], cnt |-> SetDone(cnt)]
      ELSE [str |-> [e.str EXCEPT ![cnt] = b], cnt |-> cnt + 1]

\* What the same character does to an ideal line (history).
Ideal(t, b) ==
  CASE b \in Ignored -> t
    [] b = CR -> [text |-> <<>>, long |-> FALSE, last |-> t.text, lastLong |-> t.long, due |-> TRUE]
    [] b = Backspace /\ t.text # <<>> -> [t EXCEPT !.text = Front(@), !.due = FALSE]
    [] OTHER -> [t EXCEPT !.text = Append(@, b), !.due = FALSE,
                          !.long = @ \/ Len(t.text) + 1 >= Done]

-----------------------------------------------------------------------------
(* process()                                                               *)

\* Chip_UART_ReadRB, RingBuffer_PopMult: up to n bytes of a ring.
Taken(q, n) == SubSeq(q, 1, IF Len(q) < n THEN Len(q) ELSE n)
Left(q, n) == SubSeq(q, Len(Taken(q, n)) + 1, Len(q))

\* The console's characters go through the editor; the first reading of the
\* bus is echoed.
Process ==
  /\ pc = "process"
  /\ LET in == Taken(rx232, kMaxRxSz)
         e == FoldLeft(Cprocbyte, [str |-> cstr, cnt |-> cbcnt], in)
     IN  /\ cstr' = e.str /\ cbcnt' = e.cnt
         /\ typed' = FoldLeft(Ideal, typed, in)
  /\ rx232' = Left(rx232, kMaxRxSz)
  /\ echoed' = echoed \o Taken(rx485, kMaxRxSz)
  /\ rx485' = Left(rx485, kMaxRxSz)
  /\ nRead' = Len(Taken(rx485, kMaxRxSz))
  /\ pc' = IF rx485 = <<>> THEN "input" ELSE "pop485"
  /\ UNCHANGED <<executed, fed, received>>

\* Mutant: the bytes read stay in the receive ring.
Pop485Peeks ==
  /\ pc = "pop485"
  /\ fed' = fed \o Taken(rx485, nRead)
  /\ pc' = "input"
  /\ UNCHANGED <<nRead, rx232, cstr, cbcnt, executed, rx485, echoed, typed, received>>

\* A second reading, of at most as many bytes, is what the protocol gets.
Pop485 ==
  /\ pc = "pop485"
  /\ fed' = fed \o Taken(rx485, nRead)
  /\ rx485' = Left(rx485, nRead)
  /\ pc' = "input"
  /\ UNCHANGED <<nRead, rx232, cstr, cbcnt, executed, echoed, typed, received>>

-----------------------------------------------------------------------------
(* processConsoleInput()                                                   *)

\* cgets(): the characters up to the first NUL.
Line(str) ==
  LET ends == {i \in 0 .. CSTR_SZ : str[i] = NUL}
      n == IF ends = {} THEN CSTR_SZ ELSE CHOOSE i \in ends : \A j \in ends : i <= j
  IN  [i \in 1 .. n |-> str[i - 1]]

\* cparse(): the first word of the line, and whether it is a command.
Word(line) ==
  LET from == SelectInSeq(line, LAMBDA c : c # Space)
      rest == SubSeq(line, from, Len(line))
      to == SelectInSeq(rest, LAMBDA c : c = Space)
  IN  IF from = 0 THEN <<>> ELSE IF to = 0 THEN rest ELSE SubSeq(rest, 1, to - 1)

Cparse(line) ==
  CASE Word(line) = <<>> -> "empty"
    [] Word(line) \in Commands -> "command"
    [] OTHER -> "unknown"

ProcessConsoleInput ==
  /\ pc = "input"
  /\ pc' = "process"
  /\ IF IsComplete(cbcnt)
       THEN /\ cbcnt' = 0
            /\ executed' = [line |-> Line(cstr), cmd |-> Cparse(Line(cstr))]
            /\ typed' = [typed EXCEPT !.due = FALSE]
       ELSE UNCHANGED <<cbcnt, executed, typed>>
  /\ UNCHANGED <<nRead, rx232, cstr, rx485, echoed, fed, received>>

MainLoop == Process \/ Pop485 \/ ProcessConsoleInput

PortNext == MainLoop \/ BusByte \/ \E c \in Char : Type(c)

PortSpec == PortInit /\ [][PortNext]_portVars

\* The main loop never stops.
FairPortSpec == PortSpec /\ WF_portVars(MainLoop)

-----------------------------------------------------------------------------
(* Properties                                                              *)

\* The variables of the ports have their types.
PortTypeOK ==
  /\ pc \in {"process", "pop485", "input"} /\ nRead \in 0 .. kMaxRxSz
  /\ rx232 \in Seq(Char) /\ Len(rx232) <= RxRing
  /\ rx485 \in Seq(Nat) /\ Len(rx485) <= RxRing
  /\ echoed \in Seq(Nat) /\ fed \in Seq(Nat)
  /\ received \in [console : 0 .. MaxChars, bus : 0 .. MaxBytes]

\* The editor never leaves its buffer, also where a line completes itself.
EditorInBounds ==
  /\ cstr \in [0 .. CSTR_SZ -> Char \cup {NUL}]
  /\ cbcnt \in 0 .. CSTR_SZ + Done

\* A line of fewer than Done (128) characters is executed exactly as it was
\* typed and edited, whatever was typed before it, fetched or not, and however
\* its characters were distributed over calls of process().
LineAsTyped ==
  [][executed' # executed =>
       \/ typed.long \/ typed.lastLong
       \/ typed.due /\ executed'.line = typed.last]_portVars

\* A complete line is executed unless other input follows it first; the line
\* feed of a terminal that sends CR LF does not count as other input.
LineFetched == typed.due ~> ~typed.due

\* No byte of the bus is processed twice or out of order: what was echoed is
\* not given to the protocol, and what still waits is later than both.
BusBytesOnce ==
  /\ PortTypeOK
  /\ \A i, j \in DOMAIN fed : i < j => fed[i] < fed[j]
  /\ \A i \in DOMAIN fed :
       /\ \A j \in DOMAIN echoed : fed[i] # echoed[j]
       /\ \A j \in DOMAIN rx485 : fed[i] < rx485[j]
=============================================================================
