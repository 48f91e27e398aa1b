------------------------ MODULE RiscvSyscalls_proof ------------------------
(***************************************************************************)
(* The heap of _sbrk, for every heap that takes less than half of the      *)
(* addresses, wherever it lies; the UART that is ready when it sends; and  *)
(* the terminal of RiscvConsole behind the calls, for texts of any length. *)
(***************************************************************************)
EXTENDS RiscvSyscalls, SequenceTheorems, WellFoundedInduction, NaturalsInduction, TLAPS

(* Modular addition of pointers: no turn, one up, or one down. *)
LEMMA Wraps ==
  ASSUME NEW a \in 0 .. WordSize - 1, NEW d \in Signed
  PROVE  /\ (a + d) % WordSize \in {a + d, a + d - WordSize, a + d + WordSize}
         /\ a + d \in 0 .. WordSize - 1 => (a + d) % WordSize = a + d
<1>1. WordSize \in Nat \ {0} /\ a \in Int /\ d \in Int
      /\ -WordSize <= a + d /\ a + d < 2 * WordSize
  BY SyscallAssumption DEF Signed
<1>2. CASE a + d < 0
  <2>1. (a + d) % WordSize = a + d + WordSize
    BY <1>1, <1>2
  <2> QED BY <1>1, <1>2, <2>1
<1>3. CASE a + d \in 0 .. WordSize - 1
  BY <1>1, <1>3
<1>4. CASE a + d >= WordSize
  <2>1. (a + d) % WordSize = a + d - WordSize
    BY <1>1, <1>4
  <2> QED BY <1>1, <1>4, <2>1
<1> QED BY <1>1, <1>2, <1>3, <1>4

InHeap == curbrk \in _end .. _heap_end

(* One request: granted exactly if it fits. *)
LEMMA SbrkStep ==
  ASSUME InHeap, NEW incr \in Signed, _sbrk(incr)
  PROVE  /\ InHeap'
         /\ IF curbrk + incr \in _end .. _heap_end
              THEN last'.ok /\ curbrk' = curbrk + incr
              ELSE ~last'.ok /\ curbrk' = curbrk
<1> DEFINE brk == (curbrk + incr) % WordSize
           out == brk < _end \/ brk > _heap_end
<1>1. /\ curbrk' = IF out THEN curbrk ELSE brk
      /\ last'.ok = ~out
  BY DEF _sbrk, Event
<1>2. /\ WordSize \in Nat \ {0} /\ _end \in 1 .. WordSize - 1
      /\ _heap_end \in _end .. WordSize - 1 /\ 2 * (_heap_end - _end) < WordSize
      /\ incr \in Int /\ -WordSize <= 2 * incr /\ 2 * incr < WordSize
  BY SyscallAssumption DEF Signed
<1>3. curbrk \in 0 .. WordSize - 1 /\ curbrk \in _end .. _heap_end
  BY <1>2 DEF InHeap
<1>4. /\ brk \in {curbrk + incr, curbrk + incr - WordSize, curbrk + incr + WordSize}
      /\ curbrk + incr \in 0 .. WordSize - 1 => brk = curbrk + incr
  BY <1>3, Wraps
<1> HIDE DEF brk
<1>5. out <=> curbrk + incr \notin _end .. _heap_end
  BY <1>2, <1>3, <1>4
<1>6. ~out => brk = curbrk + incr
  BY <1>2, <1>3, <1>4
<1> QED BY <1>1, <1>3, <1>5, <1>6 DEF InHeap

LEMMA HeapStep == InHeap /\ [Next]_vars => InHeap'
<1> SUFFICES ASSUME InHeap, [Next]_vars PROVE InHeap'
  OBVIOUS
<1>1. CASE \E incr \in Increments : _sbrk(incr)
  BY <1>1, SbrkStep, SyscallAssumption
<1>2. CASE Restart
  BY <1>2, SyscallAssumption DEF Restart, InHeap
<1>3. CASE UNCHANGED curbrk
  BY <1>3 DEF InHeap
<1>4. ASSUME NEW fd \in Fds,
             \/ _isatty(fd) \/ _fstat(fd) \/ _lseek(fd) \/ _read(fd)
             \/ \E text \in Texts : _write(fd, text)
      PROVE  UNCHANGED curbrk
  BY <1>4 DEF _isatty, _fstat, _lseek, _read, _write, Fail
<1>5. ASSUME NEW call, stub(call)
      PROVE  UNCHANGED curbrk
  BY <1>5 DEF stub, Fail
<1>6. ASSUME NEW code, _exit(code)
      PROVE  UNCHANGED curbrk
  BY <1>6 DEF _exit
<1>7. ASSUME _getpid
      PROVE  UNCHANGED curbrk
  BY <1>7 DEF _getpid
<1>8. UNCHANGED vars => UNCHANGED curbrk
  BY DEF vars
<1> QED BY <1>1, <1>2, <1>3, <1>4, <1>5, <1>6, <1>7, <1>8 DEF Next

(***************************************************************************)
(* The break stays in the heap and moves by exactly what was asked for;    *)
(* a request is refused only when it does not fit (syscall.c 83-96).       *)
(***************************************************************************)
THEOREM HeapExactHolds == Spec => HeapExact
<1>1. Init => InHeap
  BY SyscallAssumption DEF Init, InHeap
<1>2. InHeap => \A incr \in Increments :
          _sbrk(incr) =>
            IF curbrk + incr \in _end .. _heap_end
              THEN last'.ok /\ curbrk' = curbrk + incr
              ELSE ~last'.ok /\ curbrk' = curbrk
  BY SbrkStep, SyscallAssumption
<1> QED BY <1>1, HeapStep, <1>2, PTL DEF Spec, HeapExact, InHeap

-----------------------------------------------------------------------------
(* The flag that _read and _write share says whether the UART is ready. *)
LEMMA UartReadyStep == UartReady /\ [Next]_vars => UartReady'
<1> SUFFICES ASSUME UartReady, [Next]_vars PROVE UartReady'
  OBVIOUS
<1>1. CASE UNCHANGED <<uart, console>>
  BY <1>1 DEF UartReady, console
<1>2. ASSUME uart, uart' = uart, UartInit
      PROVE  UartReady'
  BY <1>2 DEF UartReady, UartInit
<1>3. ASSUME NEW fd, _isatty(fd) \/ _fstat(fd) \/ _lseek(fd)
      PROVE  UNCHANGED <<uart, console>>
  BY <1>3 DEF _isatty, _fstat, _lseek, Fail, Succeed
<1>4. ASSUME NEW fd, _read(fd)
      PROVE  UartReady'
  <2>1. CASE Fail("_read", fd, "EBADF")
    BY <1>1, <2>1 DEF Fail
  <2>2. CASE uart /\ UartInit /\ Succeed("_read", fd)
    BY <1>2, <2>2 DEF Succeed
  <2> QED BY <1>4, <2>1, <2>2 DEF _read
<1>5. ASSUME NEW fd, NEW text, _write(fd, text)
      PROVE  UartReady'
  <2>1. CASE Fail("_write", fd, "EBADF")
    BY <1>1, <2>1 DEF Fail
  <2>2. CASE uart /\ UartInit /\ Succeed("_write", fd)
    BY <1>2, <2>2 DEF Succeed
  <2> QED BY <1>5, <2>1, <2>2 DEF _write
<1>6. ASSUME NEW call, stub(call)
      PROVE  UNCHANGED <<uart, console>>
  BY <1>6 DEF stub, Fail
<1>7. ASSUME NEW incr, _sbrk(incr)
      PROVE  UNCHANGED <<uart, console>>
  BY <1>7 DEF _sbrk
<1>8. ASSUME NEW code, _exit(code)
      PROVE  UartReady'
  <2>1. CASE uart
    BY <1>2, <1>8, <2>1 DEF _exit
  <2>2. CASE ~uart
    BY <1>8, <2>2 DEF _exit, UartReady
  <2> QED BY <2>1, <2>2
<1>9. _getpid => UNCHANGED <<uart, console>>
  BY DEF _getpid, Succeed
<1>10. Restart => UartReady'
  BY DEF Restart, UartReady
<1>11. UNCHANGED vars => UNCHANGED <<uart, console>>
  BY DEF vars
<1> QED BY <1>1, <1>3, <1>4, <1>5, <1>6, <1>7, <1>8, <1>9, <1>10, <1>11 DEF Next

(***************************************************************************)
(* The UART is initialised once, before anything is sent, and never by a   *)
(* program without it (syscall.c 185, 236).                                *)
(***************************************************************************)
THEOREM UartReadyHolds == Spec => []UartReady
<1>1. Init => UartReady
  BY DEF Init, UartReady
<1> QED BY <1>1, UartReadyStep, PTL DEF Spec

-----------------------------------------------------------------------------
(***************************************************************************)
(* Texts.  What Replace computes is found by following the numbers up to   *)
(* the length of the text: if one of them failed there would be a first.   *)
(***************************************************************************)
LEMMA UpTo ==
  ASSUME NEW L \in Nat, NEW S,
         0 \in S, \A n \in 1 .. L : n - 1 \in S => n \in S
  PROVE  \A n \in 0 .. L : n \in S
<1> DEFINE T == {n \in 0 .. L : n \notin S}
<1> SUFFICES ASSUME T # {} PROVE FALSE
  OBVIOUS
<1>1. T \subseteq Nat
  OBVIOUS
<1>2. PICK x \in T : \A y \in T : ~ (<<y, x>> \in OpToRel(<, Nat))
  BY <1>1, NatLessThanWellFounded, WFMin, Zenon
<1>3. x \in 1 .. L /\ x - 1 \in 0 .. L
  OBVIOUS
<1>4. x - 1 \notin T
  <2>1. <<x - 1, x>> \in OpToRel(<, Nat)
    BY <1>3 DEF OpToRel
  <2> QED BY <1>2, <2>1
<1> QED BY <1>3, <1>4

(* The recursion of Replaced has a solution, and Replaced is one. *)
LEMMA ReplacedIs ==
  ASSUME NEW text \in Seq(Char), NEW sub \in [Char -> Seq(Char)]
  PROVE  /\ Replaced(text, sub) \in [0 .. Len(text) -> Seq(Char)]
         /\ Replaced(text, sub)[0] = <<>>
         /\ \A n \in 1 .. Len(text) :
              Replaced(text, sub)[n] = Replaced(text, sub)[n - 1] \o sub[text[n]]
<1> DEFINE L == Len(text)
           Solves(f, m) ==
             /\ f \in [0 .. m -> Seq(Char)] /\ f[0] = <<>>
             /\ \A n \in 1 .. m : f[n] = f[n - 1] \o sub[text[n]]
           S == {m \in 0 .. L : \E f : Solves(f, m)}
           Fixed(f) == f = [n \in 0 .. L |-> IF n = 0 THEN <<>> ELSE f[n - 1] \o sub[text[n]]]
<1>0. L \in Nat /\ <<>> \in Seq(Char) /\ \A n \in 1 .. L : sub[text[n]] \in Seq(Char)
  OBVIOUS
<1>a. 0 \in 0 .. L /\ (\A n \in 1 .. L : n \in 0 .. L /\ n # 0) /\ \A n \in 0 .. L : n = 0 \/ n \in 1 .. L
  BY <1>0
<1> HIDE DEF L
<1>1. 0 \in S
  <2>1. Solves([n \in 0 .. 0 |-> <<>>], 0)
    BY <1>0
  <2> HIDE DEF Solves
  <2> QED BY <1>0, <2>1
<1>2. ASSUME NEW m \in 1 .. L, m - 1 \in S
      PROVE  m \in S
  <2>1. PICK f : Solves(f, m - 1)
    BY <1>2
  <2> DEFINE g == [n \in 0 .. m |-> IF n = m THEN f[m - 1] \o sub[text[m]] ELSE f[n]]
  <2>2. f[m - 1] \in Seq(Char) /\ f[m - 1] \o sub[text[m]] \in Seq(Char)
    BY <1>0, <2>1
  <2>3. g \in [0 .. m -> Seq(Char)]
    BY <1>0, <2>1, <2>2
  <2>4. g[0] = <<>>
    BY <1>0, <2>1
  <2>5. ASSUME NEW n \in 1 .. m PROVE g[n] = g[n - 1] \o sub[text[n]]
    <3>1. m \in Nat /\ n \in Int /\ n - 1 \in 0 .. m /\ n \in 0 .. m
      BY <1>0
    <3>2. g[n - 1] = f[n - 1]
      BY <3>1
    <3>3. CASE n = m
      BY <3>1, <3>2, <3>3
    <3>4. CASE n # m
      <4>1. n \in 1 .. m - 1 /\ g[n] = f[n]
        BY <3>1, <3>4
      <4> QED BY <2>1, <3>2, <4>1
    <3> QED BY <3>3, <3>4
  <2> HIDE DEF g
  <2>6. Solves(g, m)
    BY <2>3, <2>4, <2>5
  <2> HIDE DEF Solves
  <2> QED BY <1>0, <2>6
<1>3. L \in S
  <2> HIDE DEF S
  <2>1. \A n \in 0 .. L : n \in S
    BY <1>0, <1>1, <1>2, UpTo
  <2> QED BY <1>0, <2>1
<1>4. PICK f : Solves(f, L)
  BY <1>3
<1>5. Fixed(f)
  <2>1. f = [n \in 0 .. L |-> f[n]]
    BY <1>4
  <2>2. \A n \in 0 .. L : f[n] = IF n = 0 THEN <<>> ELSE f[n - 1] \o sub[text[n]]
    BY <1>4, <1>a, Zenon
  <2> HIDE DEF Solves
  <2> QED BY <2>1, <2>2
<1>6. Replaced(text, sub) = CHOOSE f_1 : Fixed(f_1)
  BY DEF Replaced, L
<1> HIDE DEF Fixed
<1>7. Fixed(CHOOSE f_1 : Fixed(f_1))
  BY <1>5
<1>8. Fixed(Replaced(text, sub))
  BY <1>6, <1>7
<1> DEFINE R == Replaced(text, sub)
<1>9. R = [n \in 0 .. L |-> IF n = 0 THEN <<>> ELSE R[n - 1] \o sub[text[n]]]
  BY <1>8 DEF Fixed
<1> HIDE DEF R
<1>10. R[0] = <<>> /\ \A n \in 1 .. L : R[n] = R[n - 1] \o sub[text[n]]
  <2> DEFINE F(n) == IF n = 0 THEN <<>> ELSE R[n - 1] \o sub[text[n]]
  <2>1. \A n \in 0 .. L : R[n] = F(n)
    <3> HIDE DEF F
    <3>1. R = [n \in 0 .. L |-> F(n)]
      BY <1>9, Zenon DEF F
    <3> QED BY <3>1
  <2> QED BY <1>a, <2>1, Zenon
<1> DEFINE U == {n \in 0 .. L : R[n] \in Seq(Char)}
<1>11. 0 \in U
  <2>1. R[0] \in Seq(Char)
    BY <1>0, <1>10, Zenon
  <2> QED BY <1>a, <2>1
<1>12. ASSUME NEW n \in 1 .. L, n - 1 \in U PROVE n \in U
  <2>1. R[n] = R[n - 1] \o sub[text[n]] /\ R[n - 1] \in Seq(Char) /\ sub[text[n]] \in Seq(Char)
    BY <1>0, <1>10, <1>12
  <2>2. R[n] \in Seq(Char)
    BY <2>1
  <2> QED BY <1>0, <2>2
<1>13. \A n \in 0 .. L : n \in U
  <2> HIDE DEF U
  <2> QED BY <1>0, <1>11, <1>12, UpTo
<1>14. R \in [0 .. L -> Seq(Char)]
  BY <1>9, <1>13
<1> QED BY <1>10, <1>14 DEF R, L

LEMMA Concat ==
  ASSUME NEW D, NEW s \in Seq(D), NEW t \in Seq(D)
  PROVE  /\ s \o t \in Seq(D) /\ Len(s \o t) = Len(s) + Len(t)
         /\ \A i \in 1 .. Len(s) : (s \o t)[i] = s[i]
         /\ \A i \in 1 .. Len(t) : (s \o t)[Len(s) + i] = t[i]
<1>1. /\ s \o t \in Seq(D) /\ Len(s \o t) = Len(s) + Len(t)
      /\ \A i \in 1 .. Len(s) + Len(t) :
           (s \o t)[i] = IF i <= Len(s) THEN s[i] ELSE t[i - Len(s)]
  BY ConcatProperties, Zenon
<1>2. Len(s) \in Nat /\ Len(t) \in Nat
  OBVIOUS
<1> DEFINE st == s \o t
<1> HIDE DEF st
<1>3. \A i \in 1 .. Len(s) : st[i] = s[i]
  BY <1>1, <1>2 DEF st
<1>4. \A i \in 1 .. Len(t) : st[Len(s) + i] = t[i]
  BY <1>1, <1>2 DEF st
<1> QED BY <1>1, <1>3, <1>4, Zenon DEF st

LEMMA Associates ==
  ASSUME NEW s \in Seq(Char), NEW t \in Seq(Char), NEW u \in Seq(Char)
  PROVE  (s \o t) \o u = s \o (t \o u)
  OBVIOUS

LEMMA Pair ==
  ASSUME NEW x \in Char, NEW y \in Char
  PROVE  <<x>> \o <<y>> = <<x, y>>
<1> DEFINE s == <<x>>
           t == <<y>>
           p == <<x, y>>
<1>1. /\ s \in Seq(Char) /\ Len(s) = 1 /\ s[1] = x /\ t \in Seq(Char) /\ Len(t) = 1 /\ t[1] = y
      /\ p \in Seq(Char) /\ Len(p) = 2 /\ p[1] = x /\ p[2] = y
  OBVIOUS
<1> HIDE DEF s, t, p
<1> DEFINE st == s \o t
<1>2. st \in Seq(Char) /\ Len(st) = 2 /\ st[1] = x /\ st[2] = y
  <2>1. /\ st \in Seq(Char) /\ Len(st) = Len(s) + Len(t)
        /\ \A i \in 1 .. Len(s) : st[i] = s[i]
        /\ \A i \in 1 .. Len(t) : st[Len(s) + i] = t[i]
    BY <1>1, Concat
  <2> HIDE DEF st
  <2>2. st[1 + 1] = t[1]
    BY <1>1, <2>1
  <2> QED BY <1>1, <2>1, <2>2
<1> HIDE DEF st
<1>3. \A i \in 1 .. Len(st) : st[i] = p[i]
  BY <1>1, <1>2 DEF st
<1>4. st = p
  BY <1>1, <1>2, <1>3, SeqEqual
<1> QED BY <1>4 DEF st, s, t, p

(* What goes over the line for one character and for a text. *)
LEMMA SentIs ==
  ASSUME NEW c \in Char
  PROVE  Sent(c) \in Seq(Char)
<1>1. LF \in Char /\ CR \in Char
  BY DEF LF, CR, Char
<1> QED BY <1>1 DEF Sent

LEMMA OnLineIs ==
  ASSUME NEW text \in Seq(Char)
  PROVE  OnLine(text) \in Seq(Char)
<1> DEFINE sub == [c \in Char |-> Sent(c)]
<1>1. sub \in [Char -> Seq(Char)]
  BY SentIs
<1>2. OnLine(text) = Replaced(text, sub)[Len(text)]
  BY DEF OnLine, Replace
<1>3. Len(text) \in 0 .. Len(text)
  OBVIOUS
<1> HIDE DEF sub
<1>4. Replaced(text, sub) \in [0 .. Len(text) -> Seq(Char)]
  BY <1>1, ReplacedIs, Zenon
<1> QED BY <1>2, <1>3, <1>4

LEMMA HexDigit ==
  ASSUME NEW n \in Nat, NEW d \in Nat \ {0}
  PROVE  (n \div d) % 16 \in 0 .. 15 /\ n \div d \in Nat
  OBVIOUS

LEMMA Places ==
  \A n \in 0 .. Digits : Place(n) \in Nat \ {0}
<1>1. ASSUME NEW n \in 0 .. Digits PROVE Place(n) \in Nat \ {0}
  <2>1. Digits \in Nat
    BY SyscallAssumption
  <2>2. CASE n = Digits
    BY <2>2, SyscallAssumption
  <2>3. CASE n # Digits
    <3>1. n \in 0 .. Digits - 1
      BY <2>1, <2>3
    <3> QED BY <3>1, SyscallAssumption
  <2> QED BY <2>2, <2>3
<1> QED BY <1>1

LEMMA WriteHexIs ==
  ASSUME NEW hex \in Nat
  PROVE  /\ write_hex(hex) = <<48, 120>> \o [k \in 1 .. Digits |->
              LET digit == (hex \div Place(Digits - k)) % 16
              IN IF digit < 10 THEN 48 + digit ELSE 65 + (digit - 10)]
         /\ write_hex(hex) \in Seq(Char)
<1> DEFINE Digit(k) == (hex \div Place(Digits - k)) % 16
           Shown(k) == IF Digit(k) < 10 THEN 48 + Digit(k) ELSE 65 + (Digit(k) - 10)
<1>1. Digits \in Nat
  BY SyscallAssumption
<1>2. ASSUME NEW k \in 1 .. Digits PROVE Shown(k) \in Char
  <2>1. Digits - k \in 0 .. Digits
    BY <1>1
  <2>2. Digit(k) \in 0 .. 15
    BY <2>1, Places, HexDigit
  <2> HIDE DEF Digit
  <2> QED BY <2>2 DEF Char
<1>3. write_hex(hex) = <<48, 120>> \o [k \in 1 .. Digits |-> Shown(k)]
  BY DEF write_hex
<1> HIDE DEF Shown
<1>4. [k \in 1 .. Digits |-> Shown(k)] \in Seq(Char) /\ <<48, 120>> \in Seq(Char)
  BY <1>1, <1>2 DEF Char
<1>5. write_hex(hex) \in Seq(Char)
  BY <1>3, <1>4, Concat
<1> QED BY <1>5 DEF write_hex

-----------------------------------------------------------------------------
(* What _exit says. *)
Parting(code) == Message \o write_hex(code % WordSize)

LEMMA PartingIs ==
  ASSUME NEW code \in Codes
  PROVE  code % WordSize \in 0 .. WordSize - 1 /\ Parting(code) \in Seq(Char)
<1>1. code % WordSize \in 0 .. WordSize - 1
  <2>1. code \in Int /\ WordSize \in Nat \ {0}
    BY SyscallAssumption DEF Signed
  <2> QED BY <2>1
<1>2. code % WordSize \in Nat
  BY <1>1
<1>3. write_hex(code % WordSize) \in Seq(Char)
  BY <1>2, WriteHexIs
<1> QED BY <1>1, <1>3, SyscallAssumption, Concat DEF Parting

(* The line changes only by whole texts sent over it, and by a restart. *)
LEMMA LineStep ==
  ASSUME Next, sent' # sent
  PROVE  (\E text \in Seq(Char) : sent' = sent \o OnLine(text)) \/ sent' = <<>>
<1>1. ASSUME NEW fd, _isatty(fd) \/ _fstat(fd) \/ _lseek(fd) \/ _read(fd)
      PROVE  sent' = sent
  BY <1>1 DEF _isatty, _fstat, _lseek, _read, Fail, console
<1>2. ASSUME NEW fd, NEW text \in Texts, _write(fd, text)
      PROVE  sent' = sent \o OnLine(text) /\ text \in Seq(Char)
  BY <1>2, SyscallAssumption DEF _write, Fail, console
<1>3. ASSUME (\E call \in DOMAIN StubErrors : stub(call)) \/ _getpid
             \/ \E incr \in Increments : _sbrk(incr)
      PROVE  sent' = sent
  BY <1>3 DEF stub, _getpid, _sbrk, Fail, console
<1>4. ASSUME NEW code \in Codes, _exit(code)
      PROVE  sent' = sent \o OnLine(Parting(code)) /\ Parting(code) \in Seq(Char)
  BY <1>4, PartingIs DEF _exit, Parting
<1>5. Restart => sent' = <<>>
  BY DEF Restart
<1> QED BY <1>1, <1>2, <1>3, <1>4, <1>5 DEF Next

(* The other variables, the break left aside. *)
Plain ==
  /\ uart \in BOOLEAN /\ errno \in {"none"} \cup Errors
  /\ g_stdio_uart_init_done \in BOOLEAN /\ inits \in Nat
  /\ exited \in BOOLEAN /\ last.ok \in BOOLEAN

LEMMA UartInitTyped ==
  ASSUME Plain, UartInit \/ UNCHANGED <<g_stdio_uart_init_done, inits>>
  PROVE  g_stdio_uart_init_done' \in BOOLEAN /\ inits' \in Nat
<1>1. g_stdio_uart_init_done \in BOOLEAN /\ inits \in Nat
  BY DEF Plain
<1>2. g_stdio_uart_init_done' = TRUE \/ g_stdio_uart_init_done' = g_stdio_uart_init_done
  BY DEF UartInit
<1>3. inits' = inits + 1 \/ inits' = inits
  BY DEF UartInit
<1>4. inits' \in Nat
  BY <1>1, <1>3
<1>5. g_stdio_uart_init_done' \in BOOLEAN
  BY <1>1, <1>2, Zenon
<1> QED BY <1>4, <1>5

LEMMA PlainStep == Plain /\ [Next]_vars => Plain'
<1> SUFFICES ASSUME Plain, [Next]_vars PROVE Plain'
  OBVIOUS
<1>1. ASSUME NEW call, NEW arg, NEW err \in Errors, Fail(call, arg, err)
      PROVE  Plain'
  BY <1>1 DEF Fail, Event, Plain, console
<1>2. ASSUME NEW call, NEW arg, Succeed(call, arg),
             UartInit \/ UNCHANGED <<g_stdio_uart_init_done, inits>>, UNCHANGED exited
      PROVE  Plain'
  <2>1. last'.ok = TRUE /\ uart' = uart /\ errno' = errno /\ exited' = exited
    BY <1>2 DEF Succeed, Event
  <2>2. g_stdio_uart_init_done' \in BOOLEAN /\ inits' \in Nat
    BY <1>2, UartInitTyped
  <2> QED BY <2>1, <2>2 DEF Plain
<1>3. {"EBADF"} \subseteq Errors /\ \A call \in DOMAIN StubErrors : StubErrors[call] \in Errors
  BY DEF Errors, StubErrors
<1>4. ASSUME NEW fd, _isatty(fd) \/ _fstat(fd) \/ _lseek(fd)
      PROVE  Plain'
  BY <1>1, <1>2, <1>3, <1>4 DEF _isatty, _fstat, _lseek, console
<1>5. ASSUME NEW fd, _read(fd)
      PROVE  Plain'
  BY <1>1, <1>2, <1>3, <1>5 DEF _read
<1>6. ASSUME NEW fd, NEW text, _write(fd, text)
      PROVE  Plain'
  BY <1>1, <1>2, <1>3, <1>6 DEF _write
<1>7. ASSUME NEW call \in DOMAIN StubErrors, stub(call)
      PROVE  Plain'
  BY <1>1, <1>3, <1>7 DEF stub
<1>8. ASSUME NEW incr, _sbrk(incr)
      PROVE  Plain'
  BY <1>8 DEF _sbrk, Event, Plain, console
<1>9. ASSUME NEW code, _exit(code)
      PROVE  Plain'
  <2>1. last'.ok = TRUE /\ uart' = uart /\ errno' = errno /\ exited' = TRUE
    BY <1>9 DEF _exit, Event
  <2>2. g_stdio_uart_init_done' \in BOOLEAN /\ inits' \in Nat
    BY <1>9, UartInitTyped DEF _exit
  <2> QED BY <2>1, <2>2 DEF Plain
<1>10. _getpid => Plain'
  BY <1>2 DEF _getpid, console
<1>11. Restart => Plain'
  <2> SUFFICES ASSUME Restart PROVE Plain'
    OBVIOUS
  <2>1. last'.ok = TRUE /\ uart' = uart /\ errno' = "none"
        /\ exited' = FALSE /\ g_stdio_uart_init_done' = FALSE /\ inits' = 0
    BY DEF Restart, Event
  <2> QED BY <2>1 DEF Plain
<1>12. UNCHANGED vars => Plain'
  BY DEF vars, console, Plain
<1> QED BY <1>4, <1>5, <1>6, <1>7, <1>8, <1>9, <1>10, <1>11, <1>12 DEF Next

(* The line. *)
Line == sent \in Seq(Char)

LEMMA LineKept == Line /\ [Next]_vars => Line'
<1> SUFFICES ASSUME Line, [Next]_vars PROVE Line'
  OBVIOUS
<1>1. CASE sent' = sent
  BY <1>1 DEF Line
<1>2. CASE sent' # sent
  <2>1. Next
    BY <1>2 DEF vars, console
  <2>2. CASE sent' = <<>>
    BY <2>2 DEF Line
  <2>3. ASSUME NEW text \in Seq(Char), sent' = sent \o OnLine(text)
        PROVE  Line'
    BY <2>3, OnLineIs, Concat DEF Line
  <2> QED BY <1>2, <2>1, <2>2, <2>3, LineStep
<1> QED BY <1>1, <1>2

LEMMA LineStarts == Init => Line /\ Plain /\ InHeap
<1> SUFFICES ASSUME Init PROVE Line /\ Plain /\ InHeap
  OBVIOUS
<1>1. Line
  BY DEF Init, Line
<1>2. Plain
  <2>1. last.ok = TRUE /\ uart \in BOOLEAN /\ errno = "none"
        /\ exited = FALSE /\ g_stdio_uart_init_done = FALSE /\ inits = 0
    BY DEF Init, Event
  <2> QED BY <2>1 DEF Plain
<1>3. InHeap
  BY SyscallAssumption DEF Init, InHeap
<1> QED BY <1>1, <1>2, <1>3

(***************************************************************************)
(* Every variable keeps its type: the break stays an address, and what is  *)
(* sent is a text of bytes, the digits of every exit code among them.      *)
(***************************************************************************)
THEOREM TypeCorrect == Spec => []TypeOK
<1>1. Line /\ Plain /\ InHeap => TypeOK
  <2>1. InHeap => curbrk \in 0 .. WordSize - 1
    BY SyscallAssumption DEF InHeap
  <2> QED BY <2>1 DEF TypeOK, Line, Plain
<1> QED BY <1>1, LineStarts, LineKept, PlainStep, HeapStep, PTL DEF Spec

-----------------------------------------------------------------------------
(***************************************************************************)
(* The screen.  Replacing goes through a text piece by piece, so that the  *)
(* screen grows by what the call wrote.                                    *)
(***************************************************************************)
LEMMA ReplaceConcat ==
  ASSUME NEW s \in Seq(Char), NEW t \in Seq(Char), NEW sub \in [Char -> Seq(Char)]
  PROVE  /\ Replace(s, sub) \in Seq(Char)
         /\ Replace(s \o t, sub) = Replace(s, sub) \o Replace(t, sub)
<1> DEFINE st == s \o t
           L == Len(s)
           M == Len(t)
           A == Replaced(s, sub)
           B == Replaced(t, sub)
           R == Replaced(st, sub)
           S == {n \in 0 .. L : R[n] = A[n]}
           T == {n \in 0 .. M : R[L + n] = A[L] \o B[n]}
<1>1. /\ st \in Seq(Char) /\ Len(st) = L + M
      /\ \A i \in 1 .. L : st[i] = s[i]
      /\ \A i \in 1 .. M : st[L + i] = t[i]
  BY Concat
<1>2. L \in Nat /\ M \in Nat
  OBVIOUS
<1>3. /\ A \in [0 .. L -> Seq(Char)] /\ A[0] = <<>>
      /\ \A n \in 1 .. L : A[n] = A[n - 1] \o sub[s[n]]
  BY ReplacedIs
<1>4. /\ B \in [0 .. M -> Seq(Char)] /\ B[0] = <<>>
      /\ \A n \in 1 .. M : B[n] = B[n - 1] \o sub[t[n]]
  BY ReplacedIs
<1> HIDE DEF st
<1>5. /\ R \in [0 .. Len(st) -> Seq(Char)] /\ R[0] = <<>>
      /\ \A n \in 1 .. Len(st) : R[n] = R[n - 1] \o sub[st[n]]
  BY <1>1, ReplacedIs
<1>6. Replace(s, sub) = A[L] /\ Replace(t, sub) = B[M] /\ Replace(st, sub) = R[L + M]
  BY <1>1 DEF Replace
<1>7. \A i \in 1 .. M : sub[t[i]] \in Seq(Char)
  OBVIOUS
<1> HIDE DEF L, M, A, B, R
<1>8. 0 \in S
  BY <1>2, <1>3, <1>5
<1>9. ASSUME NEW n \in 1 .. L, n - 1 \in S PROVE n \in S
  <2>1. n \in 1 .. Len(st) /\ n \in 0 .. L
    BY <1>1, <1>2
  <2>2. R[n] = R[n - 1] \o sub[s[n]] /\ A[n] = A[n - 1] \o sub[s[n]]
    BY <1>1, <1>3, <1>5, <2>1
  <2>3. R[n] = A[n]
    BY <1>9, <2>2
  <2> QED BY <2>1, <2>3
<1>10. R[L] = A[L]
  <2> HIDE DEF S
  <2>1. \A n \in 0 .. L : n \in S
    BY <1>2, <1>8, <1>9, UpTo
  <2>2. L \in S
    BY <1>2, <2>1
  <2> QED BY <2>2 DEF S
<1>11. A[L] \in Seq(Char)
  BY <1>2, <1>3
<1>12. 0 \in T
  <2> DEFINE a == A[L]
  <2>1. a \in Seq(Char)
    BY <1>11
  <2> HIDE DEF a
  <2>2. a \o <<>> = a
    BY <2>1
  <2>3. R[L + 0] = A[L] \o B[0] /\ 0 \in 0 .. M
    BY <1>2, <1>4, <1>10, <2>2 DEF a
  <2> QED BY <2>3, Zenon
<1>13. ASSUME NEW n \in 1 .. M, n - 1 \in T PROVE n \in T
  <2>1. L + n \in 1 .. Len(st) /\ n \in 0 .. M /\ n - 1 \in 0 .. M /\ (L + n) - 1 = L + (n - 1)
    BY <1>1, <1>2
  <2>2. R[L + n] = R[L + (n - 1)] \o sub[t[n]]
    BY <1>1, <1>5, <2>1
  <2>3. B[n - 1] \in Seq(Char) /\ B[n] = B[n - 1] \o sub[t[n]] /\ sub[t[n]] \in Seq(Char)
    BY <1>4, <1>7, <2>1
  <2>4. R[L + (n - 1)] = A[L] \o B[n - 1]
    BY <1>13
  <2> DEFINE a == A[L]
             b == B[n - 1]
             c == sub[t[n]]
  <2>5. a \in Seq(Char) /\ b \in Seq(Char) /\ c \in Seq(Char)
    BY <1>11, <2>3
  <2> HIDE DEF a, b, c
  <2>6. (a \o b) \o c = a \o (b \o c)
    BY <2>5, Associates, ZenonT(60)
  <2>7. R[L + n] = a \o B[n]
    BY <2>2, <2>3, <2>4, <2>6 DEF a, b, c
  <2> QED BY <2>1, <2>7 DEF a
<1>14. R[L + M] = A[L] \o B[M]
  <2> HIDE DEF T
  <2>1. \A n \in 0 .. M : n \in T
    BY <1>2, <1>12, <1>13, UpTo
  <2>2. M \in T
    BY <1>2, <2>1
  <2> QED BY <2>2 DEF T
<1> QED BY <1>6, <1>11, <1>14 DEF st

(* What a terminal does with a character. *)
Shows == [c \in Char |-> IF c = CR THEN <<>> ELSE <<c>>]

LEMMA ShowsIs == Shows \in [Char -> Seq(Char)]
BY DEF Shows

(* A text without a carriage return of its own, as programs write them. *)
Plainly(text) == \A i \in 1 .. Len(text) : text[i] # CR

LEMMA ShowsSent ==
  ASSUME NEW c \in Char, c # CR
  PROVE  Replace(Sent(c), Shows) = <<c>>
<1>1. LF \in Char /\ CR \in Char /\ LF # CR /\ <<c>> \in Seq(Char) /\ <<CR>> \in Seq(Char)
  BY DEF LF, CR, Char
<1>2. ASSUME NEW x \in Char PROVE Replace(<<x>>, Shows) = Shows[x]
  <2> DEFINE t == <<x>>
             R == Replaced(t, Shows)
  <2>1. t \in Seq(Char) /\ Len(t) = 1 /\ t[1] = x
    OBVIOUS
  <2> HIDE DEF t
  <2>2. R[0] = <<>> /\ \A n \in 1 .. 1 : R[n] = R[n - 1] \o Shows[t[n]]
    BY <2>1, ShowsIs, ReplacedIs
  <2> HIDE DEF R
  <2>3. R[1] = R[0] \o Shows[x]
    <3>1. 1 \in 1 .. 1 /\ 1 - 1 = 0
      OBVIOUS
    <3> QED BY <2>1, <2>2, <3>1, Zenon
  <2>4. Shows[x] \in Seq(Char)
    BY ShowsIs
  <2>5. R[1] = Shows[x]
    BY <2>2, <2>3, <2>4
  <2> QED BY <2>1, <2>5 DEF Replace, R, t
<1>3. CASE c = LF
  <2>1. Sent(c) = <<c>> \o <<CR>>
    <3>1. <<LF>> \o <<CR>> = <<LF, CR>>
      BY <1>1, Pair
    <3> QED BY <1>3, <3>1 DEF Sent
  <2>2. Replace(<<c>> \o <<CR>>, Shows) = Replace(<<c>>, Shows) \o Replace(<<CR>>, Shows)
    BY <1>1, ShowsIs, ReplaceConcat
  <2>3. Shows[c] = <<c>> /\ Shows[CR] = <<>>
    BY <1>1 DEF Shows
  <2>4. Replace(<<c>>, Shows) = <<c>> /\ Replace(<<CR>>, Shows) = <<>>
    BY <1>1, <1>2, <2>3
  <2> QED BY <2>1, <2>2, <2>4
<1>4. CASE c # LF
  <2>1. Sent(c) = <<c>> /\ Shows[c] = <<c>>
    BY <1>4 DEF Sent, Shows
  <2> QED BY <1>2, <2>1
<1> QED BY <1>3, <1>4

(* What the UART sends for a text is the text, on the screen. *)
LEMMA ShowsOnLine ==
  ASSUME NEW text \in Seq(Char), Plainly(text)
  PROVE  Replace(OnLine(text), Shows) = text
<1> DEFINE sub == [c \in Char |-> Sent(c)]
           L == Len(text)
           R == Replaced(text, sub)
           S == {n \in 0 .. L : Replace(R[n], Shows) = SubSeq(text, 1, n)}
<1>1. sub \in [Char -> Seq(Char)]
  BY SentIs
<1>2. L \in Nat /\ text \in [1 .. L -> Char]
  OBVIOUS
<1>3. OnLine(text) = R[L]
  BY DEF OnLine, Replace
<1>4. \A c \in Char : sub[c] = Sent(c)
  OBVIOUS
<1> HIDE DEF sub
<1>5. /\ R \in [0 .. L -> Seq(Char)] /\ R[0] = <<>>
      /\ \A n \in 1 .. L : R[n] = R[n - 1] \o sub[text[n]]
  BY <1>1, ReplacedIs
<1>6. \A n \in 1 .. L : SubSeq(text, 1, n) = SubSeq(text, 1, n - 1) \o <<text[n]>>
  OBVIOUS
<1>7. SubSeq(text, 1, 0) = <<>> /\ SubSeq(text, 1, L) = text
  OBVIOUS
<1>8. \A n \in 1 .. L : text[n] # CR
  BY DEF Plainly
<1> HIDE DEF L, R
<1>9. 0 \in S
  <2>1. Replace(<<>>, Shows) = <<>>
    <3>1. <<>> \in Seq(Char) /\ Len(<<>>) = 0
      OBVIOUS
    <3>2. Replaced(<<>>, Shows)[0] = <<>>
      BY <3>1, ShowsIs, ReplacedIs, Zenon
    <3> QED BY <3>1, <3>2 DEF Replace
  <2> QED BY <1>2, <1>5, <1>7, <2>1
<1>10. ASSUME NEW n \in 1 .. L, n - 1 \in S PROVE n \in S
  <2>1. text[n] \in Char /\ n - 1 \in 0 .. L /\ n \in 0 .. L
    BY <1>2
  <2>2. R[n] = R[n - 1] \o Sent(text[n]) /\ R[n - 1] \in Seq(Char) /\ Sent(text[n]) \in Seq(Char)
    BY <1>4, <1>5, <2>1, SentIs
  <2>3. Replace(R[n], Shows) = Replace(R[n - 1], Shows) \o Replace(Sent(text[n]), Shows)
    <3> DEFINE s == R[n - 1]
               t == Sent(text[n])
    <3>1. s \in Seq(Char) /\ t \in Seq(Char)
      BY <2>2
    <3> HIDE DEF s, t
    <3>2. Replace(s \o t, Shows) = Replace(s, Shows) \o Replace(t, Shows)
      BY <3>1, ShowsIs, ReplaceConcat
    <3> QED BY <2>2, <3>2 DEF s, t
  <2>4. Replace(Sent(text[n]), Shows) = <<text[n]>>
    BY <1>8, <2>1, ShowsSent
  <2>5. Replace(R[n - 1], Shows) = SubSeq(text, 1, n - 1)
    BY <1>10
  <2>6. Replace(R[n], Shows) = SubSeq(text, 1, n)
    BY <1>6, <2>3, <2>4, <2>5
  <2> QED BY <2>1, <2>6
<1>11. L \in S
  <2> HIDE DEF S
  <2>1. \A n \in 0 .. L : n \in S
    BY <1>2, <1>9, <1>10, UpTo
  <2> QED BY <1>2, <2>1
<1> QED BY <1>3, <1>7, <1>11

LEMMA ScreenGrows ==
  ASSUME sent \in Seq(Char), NEW text \in Seq(Char), Plainly(text), sent' = sent \o OnLine(text)
  PROVE  Screen' = Screen \o text
<1>1. Screen = Replace(sent, Shows) /\ Screen' = Replace(sent', Shows)
  BY DEF Screen, Shows
<1>2. OnLine(text) \in Seq(Char)
  BY OnLineIs
<1>3. Replace(sent \o OnLine(text), Shows) = Replace(sent, Shows) \o Replace(OnLine(text), Shows)
  BY <1>2, ShowsIs, ReplaceConcat
<1>4. Replace(OnLine(text), Shows) = text
  BY ShowsOnLine
<1> QED BY <1>1, <1>3, <1>4

-----------------------------------------------------------------------------
(* Reading the digits of write_hex gives the number back. *)
LEMMA NextDigit ==
  ASSUME NEW h \in Nat, NEW p \in Nat \ {0}
  PROVE  /\ h \div p \in Nat /\ h \div (16 * p) \in Nat
         /\ h \div p = 16 * (h \div (16 * p)) + ((h \div p) % 16)
<1>1. h \div p \in Nat /\ h \div (16 * p) = (h \div p) \div 16
  OBVIOUS
<1>2. \A q \in Nat : q = 16 * (q \div 16) + (q % 16) /\ q \div 16 \in Nat
  OBVIOUS
<1> QED BY <1>1, <1>2, Zenon

DigitOf(hex, k) == (hex \div Place(Digits - k)) % 16
Digit(hex, k) ==
  IF DigitOf(hex, k) < 10 THEN 48 + DigitOf(hex, k) ELSE 65 + (DigitOf(hex, k) - 10)
DigitsOf(hex) == [k \in 1 .. Digits |-> Digit(hex, k)]

LEMMA DigitIs ==
  ASSUME NEW hex \in Nat, NEW k \in 1 .. Digits
  PROVE  /\ DigitOf(hex, k) \in 0 .. 15
         /\ Digit(hex, k) \in Console!HexChars
         /\ Console!HexValue(Digit(hex, k)) = DigitOf(hex, k)
<1>1. Digits - k \in 0 .. Digits
  BY SyscallAssumption
<1>2. DigitOf(hex, k) \in 0 .. 15
  BY <1>1, Places, HexDigit DEF DigitOf
<1> QED BY <1>2 DEF Digit, Console!HexChars, Console!HexValue

LEMMA ReadsBack ==
  ASSUME NEW hex \in 0 .. WordSize - 1
  PROVE  Console!Reads(DigitsOf(hex)) = hex
<1> DEFINE digits == DigitsOf(hex)
           value(n) == Console!HexValue(digits[n])
           Fixed(f) == f = [n \in 0 .. Digits |-> IF n = 0 THEN 0 ELSE 16 * f[n - 1] + value(n)]
           V == [n \in 0 .. Digits |-> hex \div Place(Digits - n)]
           G == CHOOSE f : Fixed(f)
           S == {n \in 0 .. Digits : G[n] = V[n]}
<1>1. /\ Digits \in Nat /\ hex \in Nat /\ WordSize \in Nat \ {0}
      /\ Place(0) = 1 /\ Place(Digits) = WordSize /\ Len(digits) = Digits
  BY SyscallAssumption DEF DigitsOf
<1>2. Console!Reads(digits) = G[Digits]
  BY <1>1 DEF Console!Reads
<1>3. /\ \A n \in 1 .. Digits : value(n) = DigitOf(hex, n)
      /\ \A n \in 1 .. Digits : n - 1 \in 0 .. Digits /\ n \in 0 .. Digits /\ n # 0
      /\ \A n \in 0 .. Digits : n = 0 \/ n \in 1 .. Digits
  BY <1>1, DigitIs DEF DigitsOf
<1> HIDE DEF digits, value
<1>4. V[0] = 0 /\ V[Digits] = hex
  <2>1. hex \div WordSize = 0 /\ hex \div 1 = hex
    BY <1>1
  <2>2. V[0] = hex \div WordSize /\ V[Digits] = hex \div 1
    BY <1>1
  <2> QED BY <2>1, <2>2
<1>5. ASSUME NEW n \in 1 .. Digits PROVE V[n] = 16 * V[n - 1] + value(n)
  <2> DEFINE p == Place(Digits - n)
  <2>1. Digits - n \in 0 .. Digits - 1 /\ (Digits - n) + 1 = Digits - (n - 1)
    BY <1>1
  <2>2. p \in Nat \ {0} /\ Place((Digits - n) + 1) = 16 * p
    BY <2>1, SyscallAssumption
  <2>3. V[n] = hex \div p /\ V[n - 1] = hex \div (16 * p)
    BY <1>1, <2>1, <2>2
  <2>4. value(n) = (hex \div p) % 16
    BY <1>3 DEF DigitOf
  <2> HIDE DEF p, V
  <2>5. hex \div p = 16 * (hex \div (16 * p)) + ((hex \div p) % 16)
    BY <1>1, <2>2, NextDigit
  <2> QED BY <2>3, <2>4, <2>5, Zenon
<1>6. Fixed(V)
  <2>1. V = [n \in 0 .. Digits |-> V[n]]
    OBVIOUS
  <2> HIDE DEF V
  <2>2. \A n \in 0 .. Digits : V[n] = IF n = 0 THEN 0 ELSE 16 * V[n - 1] + value(n)
    BY <1>3, <1>4, <1>5, Zenon
  <2> QED BY <2>1, <2>2
<1> HIDE DEF Fixed, V
<1>7. Fixed(G)
  BY <1>6
<1> HIDE DEF G
<1>8. /\ G[0] = 0
      /\ \A n \in 1 .. Digits : G[n] = 16 * G[n - 1] + value(n)
  <2> DEFINE F(n) == IF n = 0 THEN 0 ELSE 16 * G[n - 1] + value(n)
  <2>1. \A n \in 0 .. Digits : G[n] = F(n)
    <3>1. G = [n \in 0 .. Digits |-> F(n)]
      BY <1>7 DEF Fixed
    <3> HIDE DEF F
    <3> QED BY <3>1
  <2>2. 0 \in 0 .. Digits
    BY <1>1
  <2> QED BY <1>3, <2>1, <2>2, Zenon
<1>9. 0 \in S
  BY <1>1, <1>4, <1>8
<1>10. ASSUME NEW n \in 1 .. Digits, n - 1 \in S PROVE n \in S
  <2>1. G[n] = V[n]
    BY <1>5, <1>8, <1>10
  <2> QED BY <1>3, <2>1
<1>11. G[Digits] = V[Digits]
  <2> HIDE DEF S
  <2>1. \A n \in 0 .. Digits : n \in S
    BY <1>1, <1>9, <1>10, UpTo
  <2>2. Digits \in S
    BY <1>1, <2>1
  <2> QED BY <2>2 DEF S
<1> QED BY <1>2, <1>4, <1>11 DEF digits

-----------------------------------------------------------------------------
(***************************************************************************)
(* The calls are a terminal.  The one thing asked of the program is that   *)
(* it leaves the carriage returns to the calls: a terminal does not show   *)
(* those a text has of its own.                                            *)
(***************************************************************************)
NoReturns == Plainly(Message) /\ \A text \in Texts : Plainly(text)

LEMMA PlainParting ==
  ASSUME NoReturns, NEW code \in Codes
  PROVE  Plainly(Parting(code))
<1> DEFINE hex == code % WordSize
           ox == <<48, 120>>
           p == Parting(code)
           w == write_hex(hex)
           d == DigitsOf(hex)
<1>1. hex \in Nat
  <2>1. hex \in 0 .. WordSize - 1
    BY PartingIs
  <2> QED BY <2>1, SyscallAssumption
<1>2. w = ox \o d
  BY DEF write_hex, DigitsOf, Digit, DigitOf
<1>3. w \in Seq(Char) /\ Message \in Seq(Char) /\ p = Message \o w
  BY <1>1, WriteHexIs, SyscallAssumption DEF Parting
<1> HIDE DEF hex
<1>4. Digits \in Nat /\ Len(d) = Digits
  BY SyscallAssumption DEF DigitsOf
<1>5. \A i \in 1 .. Digits : d[i] \in Char /\ d[i] # CR
  <2> TAKE i \in 1 .. Digits
  <2>1. d[i] = Digit(hex, i)
    BY DEF DigitsOf
  <2>2. Digit(hex, i) \in Console!HexChars
    BY <1>1, DigitIs
  <2>3. \A x \in Console!HexChars : x \in Char /\ x # CR
    BY DEF Console!HexChars, Char, CR
  <2> QED BY <2>1, <2>2, <2>3, Zenon
<1>6. d \in Seq(Char)
  BY <1>4, <1>5 DEF DigitsOf
<1>7. ox \in Seq(Char) /\ Len(ox) = 2 /\ \A i \in 1 .. 2 : ox[i] # CR
  BY DEF Char, CR
<1> HIDE DEF p, w, d, ox
<1>8. /\ Len(w) = 2 + Digits
      /\ \A i \in 1 .. 2 : w[i] = ox[i]
      /\ \A i \in 1 .. Digits : w[2 + i] = d[i]
  <2>1. /\ Len(ox \o d) = Len(ox) + Len(d)
        /\ \A i \in 1 .. Len(ox) : (ox \o d)[i] = ox[i]
        /\ \A i \in 1 .. Len(d) : (ox \o d)[Len(ox) + i] = d[i]
    BY <1>6, <1>7, Concat
  <2>2. /\ Len(w) = Len(ox) + Len(d)
        /\ \A i \in 1 .. Len(ox) : w[i] = ox[i]
        /\ \A i \in 1 .. Len(d) : w[Len(ox) + i] = d[i]
    BY <1>2, <2>1, Zenon
  <2> QED BY <1>4, <1>7, <2>2
<1>9. \A i \in 1 .. Len(w) : w[i] # CR
  <2> TAKE i \in 1 .. Len(w)
  <2>1. CASE i \in 1 .. 2
    BY <1>7, <1>8, <2>1
  <2>2. CASE i > 2
    <3>1. i - 2 \in 1 .. Digits /\ 2 + (i - 2) = i
      BY <1>4, <1>8, <2>2
    <3> QED BY <1>5, <1>8, <3>1
  <2> QED BY <1>4, <1>8, <2>1, <2>2
<1> DEFINE M == Len(Message)
<1>10. M \in Nat /\ Len(w) \in Nat
  BY <1>3
<1>11. /\ Len(p) = M + Len(w)
       /\ \A i \in 1 .. M : p[i] = Message[i]
       /\ \A i \in 1 .. Len(w) : p[M + i] = w[i]
  BY <1>3, Concat
<1>12. \A i \in 1 .. M : Message[i] # CR
  BY DEF NoReturns, Plainly
<1> HIDE DEF M
<1> SUFFICES ASSUME NEW i \in 1 .. M + Len(w) PROVE p[i] # CR
  BY <1>11 DEF Plainly, p
<1>13. CASE i <= M
  BY <1>10, <1>11, <1>12, <1>13
<1>14. CASE i > M
  <2>1. i - M \in 1 .. Len(w) /\ M + (i - M) = i
    BY <1>10, <1>14
  <2> QED BY <1>9, <1>11, <2>1
<1> QED BY <1>10, <1>13, <1>14

LEMMA Answers ==
  ASSUME ~exited, NEW call, call # "_exit", NEW arg, NEW ok \in BOOLEAN,
         last' = Event(call, arg, ok), IF ok THEN errno' = errno ELSE errno' \in Errors,
         UNCHANGED <<uart, exited>>
  PROVE  Console!Answer(call, arg, ok)
BY DEF Console!Answer, Console!Event, Event

LEMMA SameScreen == sent' = sent => Screen' = Screen
BY DEF Screen

LEMMA FailAnswers ==
  ASSUME NEW call, call # "_exit", NEW arg, NEW err \in Errors, Fail(call, arg, err)
  PROVE  Console!Answer(call, arg, FALSE) /\ Screen' = Screen
BY Answers, SameScreen DEF Fail, console

LEMMA SucceedAnswers ==
  ASSUME NEW call, call # "_exit", NEW arg, Succeed(call, arg), UNCHANGED exited
  PROVE  Console!Answer(call, arg, TRUE)
BY Answers DEF Succeed

LEMMA AskStep ==
  ASSUME NEW fd \in Fds, _isatty(fd) \/ _fstat(fd) \/ _lseek(fd)
  PROVE  Console!Next
<1>1. PICK call \in {"_isatty", "_fstat", "_lseek"} :
        \/ fd \in Terminals /\ Succeed(call, fd) /\ UNCHANGED <<curbrk, console>>
        \/ fd \notin Terminals /\ Fail(call, fd, "EBADF")
  BY DEF _isatty, _fstat, _lseek
<1>2. Console!Answer(call, fd, fd \in Terminals) /\ Screen' = Screen
  <2>1. CASE fd \in Terminals
    <3>1. (fd \in Terminals) = TRUE
      BY <2>1
    <3>2. Console!Answer(call, fd, TRUE) /\ Screen' = Screen
      BY <1>1, <2>1, SucceedAnswers, SameScreen DEF console
    <3> QED BY <3>1, <3>2
  <2>2. CASE fd \notin Terminals
    <3>1. (fd \in Terminals) = FALSE
      BY <2>2
    <3>2. Console!Answer(call, fd, FALSE) /\ Screen' = Screen
      BY <1>1, <2>2, FailAnswers DEF Errors
    <3> QED BY <3>1, <3>2
  <2> QED BY <2>1, <2>2
<1>3. Console!Ask(call, fd)
  BY <1>2 DEF Console!Ask
<1> QED BY <1>1, <1>3 DEF Console!Next

LEMMA GetStep ==
  ASSUME NEW fd \in Fds, _read(fd)
  PROVE  Console!Next
<1> DEFINE ok == uart /\ fd \in Terminals
<1>1. Console!Answer("_read", fd, ok) /\ Screen' = Screen
  <2>1. CASE ok
    <3>1. ok = TRUE
      BY <2>1
    <3>2. Console!Answer("_read", fd, TRUE) /\ Screen' = Screen
      BY <2>1, SucceedAnswers, SameScreen DEF _read
    <3> QED BY <3>1, <3>2
  <2>2. CASE ~ok
    <3>1. ok = FALSE
      BY <2>2
    <3>2. Console!Answer("_read", fd, FALSE) /\ Screen' = Screen
      BY <2>2, FailAnswers DEF _read, Errors
    <3> QED BY <3>1, <3>2
  <2> QED BY <2>1, <2>2
<1>2. Console!Get(fd)
  BY <1>1 DEF Console!Get
<1> QED BY <1>2 DEF Console!Next

LEMMA PutStep ==
  ASSUME Line, NoReturns, NEW fd \in Fds, NEW text \in Texts, _write(fd, text)
  PROVE  Console!Next
<1> DEFINE ok == uart /\ fd \in Terminals
           shown == [last EXCEPT !.arg = IF last.call = "_exit" THEN @ % WordSize ELSE @]
<1>1. /\ Console!Answer("_write", fd, ok)
      /\ Screen' = IF ok THEN Screen \o text ELSE Screen
  <2>1. CASE ok
    <3>1. ok = TRUE
      BY <2>1
    <3>2. Console!Answer("_write", fd, TRUE)
      BY <2>1, SucceedAnswers DEF _write
    <3>3. sent' = sent \o OnLine(text)
      BY <2>1 DEF _write
    <3>4. Screen' = Screen \o text
      BY <3>3, ScreenGrows, SyscallAssumption DEF Line, NoReturns
    <3> QED BY <3>1, <3>2, <3>4
  <2>2. CASE ~ok
    <3>1. ok = FALSE
      BY <2>2
    <3>2. Console!Answer("_write", fd, FALSE) /\ Screen' = Screen
      BY <2>2, FailAnswers DEF _write, Errors
    <3> QED BY <3>1, <3>2
  <2> QED BY <2>1, <2>2
<1>2. shown'.ok = ok
  BY <1>1 DEF Console!Answer, Console!Event
<1>3. Console!Put(fd, text)
  BY <1>1, <1>2 DEF Console!Put
<1> QED BY <1>3 DEF Console!Next

(* An event, field by field. *)
Fields(call, arg, ok) ==
  [x \in {"call", "arg", "ok"} |->
     CASE x = "call" -> call [] x = "arg" -> arg [] x = "ok" -> ok]

LEMMA FieldsIs ==
  ASSUME NEW call, NEW arg, NEW ok
  PROVE  Event(call, arg, ok) = Fields(call, arg, ok)
<1> DEFINE q == Fields(call, arg, ok)
<1>1. q = [x \in {"call", "arg", "ok"} |->
             CASE x = "call" -> call [] x = "arg" -> arg [] x = "ok" -> ok]
  BY DEF Fields
<1> HIDE DEF q
<1>2. Event(call, arg, ok) = q
  BY <1>1 DEF Event
<1> QED BY <1>2 DEF q

LEMMA ExitShown ==
  ASSUME NEW code, last' = Event("_exit", code, TRUE)
  PROVE  [last EXCEPT !.arg = IF last.call = "_exit" THEN @ % WordSize ELSE @]'
         = Console!Event("_exit", code % WordSize, TRUE)
<1> DEFINE h == code % WordSize
<1>1. (IF last'.call = "_exit" THEN last'.arg % WordSize ELSE last'.arg) = h
  BY DEF Event
<1> HIDE DEF h
<1>2. last' = Fields("_exit", code, TRUE)
  BY FieldsIs, Zenon
<1>3. [last' EXCEPT !.arg = h] = Fields("_exit", h, TRUE)
  BY <1>2 DEF Fields
<1>4. Fields("_exit", h, TRUE) = Event("_exit", h, TRUE)
  BY FieldsIs, Zenon
<1>5. Event("_exit", h, TRUE) = Console!Event("_exit", h, TRUE)
  BY Zenon DEF Event, Console!Event
<1> QED BY <1>1, <1>3, <1>4, <1>5, Zenon DEF h

LEMMA ExitStep ==
  ASSUME Line, NoReturns, NEW code \in Codes, _exit(code)
  PROVE  Console!Next
<1> DEFINE hex == code % WordSize
           d == DigitsOf(hex)
           ox == <<48, 120>>
<1>1. hex \in 0 .. WordSize - 1 /\ hex \in Nat
  BY PartingIs, SyscallAssumption
<1>2. /\ ~exited /\ exited' = TRUE /\ uart' = uart /\ errno' = errno
      /\ last' = Event("_exit", code, TRUE)
  BY DEF _exit
<1> DEFINE shown == [last EXCEPT !.arg = IF last.call = "_exit" THEN @ % WordSize ELSE @]
<1>c. shown' = Console!Event("_exit", hex, TRUE)
  BY <1>2, ExitShown
<1> HIDE DEF hex
<1>3. CASE uart
  <2>1. sent' = sent \o OnLine(Parting(code))
    BY <1>3 DEF _exit, Parting
  <2>2. Screen' = Screen \o Parting(code)
    BY <2>1, PartingIs, PlainParting, ScreenGrows DEF Line
  <2>3. Parting(code) = Message \o (ox \o d)
    BY DEF Parting, write_hex, DigitsOf, Digit, DigitOf, hex
  <2>4. d \in [1 .. Digits -> Console!HexChars]
    BY <1>1, DigitIs DEF DigitsOf
  <2>5. Console!Reads(d) = hex
    BY <1>1, ReadsBack
  <2>6. d \in Seq(Char) /\ ox \in Seq(Char) /\ ox \o d \in Seq(Char)
    <3>1. Console!HexChars \subseteq Char /\ ox \in Seq(Char)
      BY DEF Console!HexChars, Char
    <3>2. d \in Seq(Char)
      BY <2>4, <3>1, SyscallAssumption DEF DigitsOf
    <3> QED BY <3>1, <3>2, Concat
  <2>7. Screen \in Seq(Char) /\ Message \in Seq(Char) /\ Screen \o Message \in Seq(Char)
    <3>1. Screen \in Seq(Char)
      <4>1. Replace(sent, Shows) \in Seq(Char)
        BY ShowsIs, ReplaceConcat DEF Line
      <4> QED BY <4>1 DEF Screen, Shows
    <3> QED BY <3>1, Concat, SyscallAssumption
  <2> HIDE DEF d, ox
  <2>8. Screen' = Screen \o Message \o ox \o d
    <3>1. Screen \o (Message \o (ox \o d)) = (Screen \o Message) \o (ox \o d)
      <4>1. ASSUME NEW s \in Seq(Char) PROVE (Screen \o Message) \o s = Screen \o (Message \o s)
        BY <2>7, Associates, ZenonT(60)
      <4> QED BY <2>6, <4>1
    <3>2. (Screen \o Message) \o (ox \o d) = ((Screen \o Message) \o ox) \o d
      BY <2>6, <2>7, Associates, ZenonT(60)
    <3> QED BY <2>2, <2>3, <3>1, <3>2
  <2>9. Console!Exit(hex)
    <3>1. \E digits \in [1 .. Digits -> Console!HexChars] :
             Console!Reads(digits) = hex /\ Screen' = Screen \o Message \o ox \o digits
      BY <2>4, <2>5, <2>8
    <3> QED BY <1>2, <1>3, <1>c, <3>1 DEF Console!Exit, ox
  <2> QED BY <1>1, <2>9 DEF Console!Next
<1>4. CASE ~uart
  <2>1. Screen' = Screen
    BY <1>4, SameScreen DEF _exit
  <2>2. Console!Exit(hex)
    BY <1>2, <1>4, <1>c, <2>1 DEF Console!Exit
  <2> QED BY <1>1, <2>2 DEF Console!Next
<1> QED BY <1>3, <1>4

LEMMA NothingShown == Replace(<<>>, Shows) = <<>>
<1> DEFINE e == <<>>
<1>1. e \in Seq(Char) /\ Len(e) = 0
  OBVIOUS
<1> HIDE DEF e
<1>2. Replaced(e, Shows)[0] = <<>>
  BY <1>1, ShowsIs, ReplacedIs
<1> QED BY <1>1, <1>2 DEF Replace, e

LEMMA ConsoleStarts == Init => Console!Init
<1> SUFFICES ASSUME Init PROVE Console!Init
  OBVIOUS
<1>1. Screen = <<>>
  BY NothingShown DEF Init, Screen, Shows
<1> QED BY <1>1 DEF Init, Console!Init, Console!Event, Event

(* Every step of the calls is one the terminal takes. *)
LEMMA ConsoleStep ==
  ASSUME Line, NoReturns, [Next]_vars
  PROVE  [Console!Next]_Console!consoleVars
<1>1. ASSUME NEW call \in DOMAIN StubErrors, stub(call) PROVE Console!Next
  <2>1. StubErrors[call] \in Errors /\ call # "_exit"
    BY DEF StubErrors, Errors
  <2>2. Console!Refuse(call)
    BY <1>1, <2>1, FailAnswers DEF stub, Console!Refuse
  <2> QED BY <2>2 DEF Console!Next
<1>2. ASSUME NEW incr, _sbrk(incr) PROVE Console!Next
  <2>1. /\ ~exited /\ UNCHANGED <<uart, exited, errno>> /\ Screen' = Screen
        /\ \E ok : last' = Event("_sbrk", incr, ok)
    BY <1>2, SameScreen DEF _sbrk, console
  <2> QED BY <2>1 DEF Event, Console!Elsewhere, Console!Next
<1>3. ASSUME _getpid PROVE Console!Next
  <2>1. /\ ~exited /\ UNCHANGED <<uart, exited, errno>> /\ Screen' = Screen
        /\ last' = Event("_getpid", 0, TRUE)
    BY <1>3, SameScreen DEF _getpid, Succeed, console
  <2> QED BY <2>1 DEF Event, Console!Elsewhere, Console!Next
<1>4. ASSUME Restart PROVE Console!Next
  <2>1. Screen' = <<>>
    BY <1>4, NothingShown DEF Restart, Screen, Shows
  <2>2. Console!Restart
    BY <1>4, <2>1 DEF Restart, Event, Console!Restart, Console!Event
  <2> QED BY <2>2 DEF Console!Next
<1>5. ASSUME UNCHANGED vars PROVE UNCHANGED Console!consoleVars
  BY <1>5, SameScreen DEF vars, console, Console!consoleVars
<1> QED
  BY <1>1, <1>2, <1>3, <1>4, <1>5, AskStep, GetStep, PutStep, ExitStep DEF Next

(***************************************************************************)
(* Behind the system calls is the terminal a program expects: the text on  *)
(* the screen is what was written, in order, every failing call leaves its *)
(* error, and the digits shown at the end read as the exit code, for words *)
(* of any number of digits (syscall.c 49-79, 225-264).                     *)
(***************************************************************************)
THEOREM ConsoleImplemented ==
  ASSUME NoReturns
  PROVE  Spec => ImplementsConsole
<1>1. Line /\ [Next]_vars => [Console!Next]_Console!consoleVars
  BY ConsoleStep
<1>2. Init => Line /\ Console!Init
  BY LineStarts, ConsoleStarts
<1> QED BY <1>1, <1>2, LineKept, PTL DEF Spec, ImplementsConsole, Console!ConsoleSpec
=============================================================================
