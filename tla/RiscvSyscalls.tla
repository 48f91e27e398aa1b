--------------------------- MODULE RiscvSyscalls ---------------------------
(***************************************************************************)
(* The system calls under the C library (syscall.c), with or without the   *)
(* UART that MSCC_STDIO_THRU_CORE_UART_APB selects.  Nothing else runs     *)
(* them, so a call is one step; a restart, which init.c makes of every     *)
(* reset, may come between any two.                                        *)
(***************************************************************************)
EXTENDS Integers, Sequences

CONSTANTS
  WordSize,        \* number of addresses
  Digits,          \* hexadecimal digits of a word
  Place(_),        \* 16 ^ n
  _end, _heap_end, \* the heap, from the linker script
  Fds,             \* file descriptors tried, 0 .. 2 among them
  Texts, Codes, Increments,  \* what programs write, exit with, and ask for
  Message,         \* the text of line 74, which begins a line
  MaxSent          \* bound on what is sent before a restart

STDOUT_FILENO == 1
STDERR_FILENO == 2
LF == 10
CR == 13

Signed == -(WordSize \div 2) .. (WordSize - 1) \div 2

Char == 0 .. 255

(* The linker script puts the heap in the 4 KB of RAM. *)
ASSUME SyscallAssumption ==
  /\ WordSize \in Nat \ {0} /\ Digits \in Nat /\ Place(Digits) = WordSize
  /\ Place(0) = 1 /\ \A n \in 0 .. Digits - 1 : Place(n) \in Nat \ {0} /\ Place(n + 1) = 16 * Place(n)
  /\ _end \in 1 .. WordSize - 1 /\ _heap_end \in _end .. WordSize - 1
  /\ 2 * (_heap_end - _end) < WordSize
  /\ Increments \subseteq Signed /\ Codes \subseteq Signed
  /\ STDERR_FILENO \in Fds
  /\ Texts \subseteq Seq(Char) /\ Message \in Seq(Char)

VARIABLES
  uart,                    \* whether the program is built for the UART
  errno,
  curbrk,
  g_stdio_uart_init_done,
  inits,                   \* how often the UART has been initialised since the restart
  sent,                    \* the bytes it has sent
  exited,
  last                     \* the last call, its argument, whether it succeeded

console == <<g_stdio_uart_init_done, inits, sent, exited>>
vars    == <<uart, errno, curbrk, console, last>>

Event(call, arg, ok) == [call |-> call, arg |-> arg, ok |-> ok]

-----------------------------------------------------------------------------
(* A stub fails with the error it stands for. *)
StubErrors ==
  [_open   |-> "ENOENT", _openat |-> "ENOENT", _close |-> "EBADF",
   _execve |-> "ENOMEM", _fork   |-> "EAGAIN", _kill  |-> "EINVAL",
   _link   |-> "EMLINK", _stat   |-> "EACCES", _times |-> "EACCES",
   _unlink |-> "ENOENT", _wait   |-> "ECHILD"]
Errors == {"ENOENT", "EBADF", "ENOMEM", "EAGAIN", "EINVAL", "EMLINK", "EACCES", "ECHILD"}

Terminals == {STDOUT_FILENO, STDERR_FILENO}

Succeed(call, arg) ==
  /\ ~exited
  /\ last' = Event(call, arg, TRUE)
  /\ UNCHANGED <<uart, errno>>

Fail(call, arg, err) ==
  /\ ~exited
  /\ last' = Event(call, arg, FALSE)
  /\ errno' = err
  /\ UNCHANGED <<uart, curbrk, console>>

(* A text with every character replaced by what sub has for it. *)
Replaced(text, sub) ==
  LET upto[n \in 0 .. Len(text)] == IF n = 0 THEN <<>> ELSE upto[n - 1] \o sub[text[n]]
  IN upto

Replace(text, sub) == Replaced(text, sub)[Len(text)]

(* What the UART puts on the line for a text. *)
Sent(c) == IF c = LF THEN <<LF, CR>> ELSE <<c>>

OnLine(text) == Replace(text, [c \in Char |-> Sent(c)])

(* The first use initialises the UART. *)
UartInit ==
  /\ g_stdio_uart_init_done' = TRUE
  /\ inits' = IF g_stdio_uart_init_done THEN inits ELSE inits + 1

Wrongwrite_hex(hex) ==
  <<48, 120>>
  \o [k \in 1 .. Digits |->
        LET digit == (hex \div Place(Digits - k)) % 16
        IN IF digit <= 10 THEN 48 + digit ELSE 65 + (digit - 10)]

(* "0x" and the digits, the most significant first. *)
write_hex(hex) ==
  <<48, 120>>
  \o [k \in 1 .. Digits |->
        LET digit == (hex \div Place(Digits - k)) % 16
        IN IF digit < 10 THEN 48 + digit ELSE 65 + (digit - 10)]

-----------------------------------------------------------------------------
Init ==
  /\ uart \in BOOLEAN /\ errno = "none" /\ curbrk = _end
  /\ g_stdio_uart_init_done = FALSE /\ inits = 0 /\ sent = <<>> /\ exited = FALSE
  /\ last = Event("main", 0, TRUE)

_isatty(fd) ==
  \/ fd \in Terminals /\ Succeed("_isatty", fd) /\ UNCHANGED <<curbrk, console>>
  \/ fd \notin Terminals /\ Fail("_isatty", fd, "EBADF")

_fstat(fd) ==
  \/ fd \in Terminals /\ Succeed("_fstat", fd) /\ UNCHANGED <<curbrk, console>>
  \/ fd \notin Terminals /\ Fail("_fstat", fd, "EBADF")

_lseek(fd) ==
  \/ fd \in Terminals /\ Succeed("_lseek", fd) /\ UNCHANGED <<curbrk, console>>
  \/ fd \notin Terminals /\ Fail("_lseek", fd, "EBADF")

_write(fd, text) ==
  \/ /\ uart /\ fd \in Terminals /\ Len(sent) < MaxSent
     /\ UartInit
     /\ sent' = sent \o OnLine(text)
     /\ Succeed("_write", fd)
     /\ UNCHANGED <<curbrk, exited>>
  \/ ~(uart /\ fd \in Terminals) /\ Fail("_write", fd, "EBADF")

Wrong_read(fd) ==
  \/ /\ uart /\ fd \in Terminals
     /\ inits' = IF g_stdio_uart_init_done THEN inits ELSE inits + 1
     /\ Succeed("_read", fd)
     /\ UNCHANGED <<curbrk, sent, exited, g_stdio_uart_init_done>>
  \/ ~(uart /\ fd \in Terminals) /\ Fail("_read", fd, "EBADF")

_read(fd) ==
  \/ /\ uart /\ fd \in Terminals
     /\ UartInit
     /\ Succeed("_read", fd)
     /\ UNCHANGED <<curbrk, sent, exited>>
  \/ ~(uart /\ fd \in Terminals) /\ Fail("_read", fd, "EBADF")

stub(call) == Fail(call, 0, StubErrors[call])

_getpid == Succeed("_getpid", 0) /\ UNCHANGED <<curbrk, console>>

Wrong_sbrk(incr) ==
  LET brk == (curbrk + incr) % WordSize
  IN /\ ~exited
     /\ curbrk' = IF brk > _heap_end THEN curbrk ELSE brk
     /\ last' = Event("_sbrk", incr, ~(brk > _heap_end))
     /\ UNCHANGED <<uart, errno, console>>

WrongUnchecked_sbrk(incr) ==
  /\ ~exited
  /\ curbrk' = curbrk + incr
  /\ last' = Event("_sbrk", incr, TRUE)
  /\ UNCHANGED <<uart, errno, console>>

(* Pointers wrap; a refusal leaves errno alone. *)
_sbrk(incr) ==
  LET brk == (curbrk + incr) % WordSize
      out == brk < _end \/ brk > _heap_end
  IN /\ ~exited
     /\ curbrk' = IF out THEN curbrk ELSE brk
     /\ last' = Event("_sbrk", incr, ~out)
     /\ UNCHANGED <<uart, errno, console>>

(* Nothing but a restart follows. *)
_exit(code) ==
  /\ ~exited /\ exited' = TRUE
  /\ IF uart
       THEN sent' = sent \o OnLine(Message \o write_hex(code % WordSize)) /\ UartInit
       ELSE UNCHANGED <<sent, g_stdio_uart_init_done, inits>>
  /\ last' = Event("_exit", code, TRUE)
  /\ UNCHANGED <<uart, errno, curbrk>>

(* _begin loads .data and clears .bss again. *)
Restart ==
  /\ errno' = "none" /\ curbrk' = _end
  /\ g_stdio_uart_init_done' = FALSE /\ inits' = 0 /\ sent' = <<>> /\ exited' = FALSE
  /\ last' = Event("main", 0, TRUE)
  /\ UNCHANGED uart

Next ==
  \/ \E fd \in Fds :
       \/ _isatty(fd) \/ _fstat(fd) \/ _lseek(fd) \/ _read(fd)
       \/ \E text \in Texts : _write(fd, text)
  \/ \E call \in DOMAIN StubErrors : stub(call)
  \/ \E incr \in Increments : _sbrk(incr)
  \/ \E code \in Codes : _exit(code)
  \/ _getpid \/ Restart

Spec == Init /\ [][Next]_vars

-----------------------------------------------------------------------------
(* Every variable keeps its type. *)
TypeOK ==
  /\ uart \in BOOLEAN /\ errno \in {"none"} \cup Errors
  /\ curbrk \in 0 .. WordSize - 1
  /\ g_stdio_uart_init_done \in BOOLEAN /\ inits \in Nat
  /\ sent \in Seq(Char) /\ exited \in BOOLEAN
  /\ last.ok \in BOOLEAN

(***************************************************************************)
(* The break stays in the heap and moves by exactly what was asked for, no *)
(* address wrapping unnoticed; a request is refused only when it does not  *)
(* fit (syscall.c 83-96).                                                  *)
(***************************************************************************)
HeapExact ==
  /\ [](curbrk \in _end .. _heap_end)
  /\ [][\A incr \in Increments :
          _sbrk(incr) =>
            IF curbrk + incr \in _end .. _heap_end
              THEN last'.ok /\ curbrk' = curbrk + incr
              ELSE ~last'.ok /\ curbrk' = curbrk]_vars

(***************************************************************************)
(* The UART is initialised once, by whichever call comes first, before     *)
(* anything is sent, and never by a program without it (lines 185, 236).   *)
(***************************************************************************)
UartReady ==
  /\ inits = (IF g_stdio_uart_init_done THEN 1 ELSE 0)
  /\ sent # <<>> => inits = 1
  /\ ~uart => inits = 0

(* The text on the screen of a terminal: carriage returns do not show. *)
Screen == Replace(sent, [c \in Char |-> IF c = CR THEN <<>> ELSE <<c>>])

(***************************************************************************)
(* The calls are the terminal a program expects: see RiscvConsole.         *)
(***************************************************************************)
Console == INSTANCE RiscvConsole
  WITH present <- uart, screen <- Screen, over <- exited, Stubs <- DOMAIN StubErrors,
       Codes <- 0 .. WordSize - 1,
       last <- [last EXCEPT !.arg = IF last.call = "_exit" THEN @ % WordSize ELSE @]
ImplementsConsole == Console!ConsoleSpec
=============================================================================
