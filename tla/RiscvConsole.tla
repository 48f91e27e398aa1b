---------------------------- MODULE RiscvConsole ----------------------------
(***************************************************************************)
(* What a program may expect of the terminal behind the system calls of    *)
(* syscall.c: every call gives the same answer to what a terminal is, text *)
(* appears as it was written, a failing call leaves an error, and the exit *)
(* code can be read on the screen when everything else is lost.            *)
(***************************************************************************)
EXTENDS Integers, Sequences

CONSTANTS Fds, Terminals, Texts, Codes, Message, Digits, Errors, Stubs

VARIABLES present,      \* whether the terminal is connected
          screen,       \* the text it shows
          over,         \* whether the program has exited
          errno, last   \* the last call, its argument and whether it succeeded

consoleVars == <<present, screen, over, errno, last>>

Event(call, arg, ok) == [call |-> call, arg |-> arg, ok |-> ok]

Answer(call, arg, ok) ==
  /\ ~over
  /\ last' = Event(call, arg, ok)
  /\ IF ok THEN errno' = errno ELSE errno' \in Errors
  /\ UNCHANGED <<present, over>>

(* Value of a hexadecimal digit and of a text of them. *)
HexValue(char) == IF char \in 48 .. 57 THEN char - 48 ELSE char - 55
HexChars       == 48 .. 57 \cup 65 .. 70
Reads(text) ==
  LET v[n \in 0 .. Len(text)] == IF n = 0 THEN 0 ELSE 16 * v[n - 1] + HexValue(text[n])
  IN v[Len(text)]

Init ==
  /\ present \in BOOLEAN /\ screen = <<>> /\ over = FALSE
  /\ errno = "none" /\ last = Event("main", 0, TRUE)

Ask(call, fd) == Answer(call, fd, fd \in Terminals) /\ UNCHANGED screen

Get(fd) == Answer("_read", fd, present /\ fd \in Terminals) /\ UNCHANGED screen

Put(fd, text) ==
  /\ Answer("_write", fd, present /\ fd \in Terminals)
  /\ screen' = IF last'.ok THEN screen \o text ELSE screen

Refuse(call) == Answer(call, 0, FALSE) /\ UNCHANGED screen

Exit(code) ==
  /\ ~over /\ over' = TRUE
  /\ last' = Event("_exit", code, TRUE)
  /\ IF present
       THEN \E digits \in [1 .. Digits -> HexChars] :
              Reads(digits) = code /\ screen' = screen \o Message \o <<48, 120>> \o digits
       ELSE UNCHANGED screen
  /\ UNCHANGED <<present, errno>>

(* Calls that have nothing to do with the terminal. *)
Elsewhere ==
  ~over /\ last'.call \in {"_sbrk", "_getpid"} /\ UNCHANGED <<present, screen, over, errno>>

Restart ==
  /\ screen' = <<>> /\ over' = FALSE /\ errno' = "none" /\ last' = Event("main", 0, TRUE)
  /\ UNCHANGED present

Next ==
  \/ \E fd \in Fds :
       \/ \E call \in {"_isatty", "_fstat", "_lseek"} : Ask(call, fd)
       \/ Get(fd)
       \/ \E text \in Texts : Put(fd, text)
  \/ \E call \in Stubs : Refuse(call)
  \/ \E code \in Codes : Exit(code)
  \/ Elsewhere \/ Restart

ConsoleSpec == Init /\ [][Next]_consoleVars
=============================================================================
