------------------------- MODULE RiscvHandler_proof -------------------------
(***************************************************************************)
(* Interrupts are invisible to what they interrupt: for every register     *)
(* file, application, handler body, memory and interrupt table, as long    *)
(* as the program keeps its contract with the frame (ProgramBehaves).      *)
(***************************************************************************)
EXTENDS RiscvHandler, SequenceTheorems, TLAPS

(* Where the frame of an interrupt at sp = s keeps a register. *)
SavedAt(s, r) == WordOf(s - Frame) + r + 1

-----------------------------------------------------------------------------
Typed ==
  /\ pc \in Addr /\ regs \in [Regs -> Word] /\ mem \in Memories
  /\ rip \in Addr /\ mcause \in Word

Loaded == \A i \in 1 .. Len(Code) : Decode(mem[CodeWord(i)]) = Code[i]

(* No interrupt in progress: they are enabled, and where the application   *)
(* runs a frame fits below sp.                                             *)
InProgram(p) == \E i \in ProgramPlaces : p = At(i)

Idle ==
  /\ suspended = <<>> /\ mstatus = MIE_bit
  /\ \/ pc \in {At(1), At(EntryAt)} /\ regs[sp] = 0
     \/ InProgram(pc) /\ StackAt(regs[sp])

(***************************************************************************)
(* What is where, at place i of the handler of an interrupt at S.  What it *)
(* calls may be anywhere in the program, with sp anywhere.                 *)
(***************************************************************************)
FramePlaces == (2 .. BodyAt) \cup (Restored - 1 .. MretAt)

Stacked(i, S) ==
  i \in FramePlaces =>
    regs[sp] = IF i \in 4 .. MretAt - 1 THEN S.regs[sp] - Frame ELSE S.regs[sp]

Intact(i, S) ==
  \A r \in Regs \ {sp} :
    r = 0 \/ i <= NReg + 4 \/ i \in Restored + r + 1 .. MretAt => regs[r] = S.regs[r]

Saved(i, S) ==
  \A r \in 1 .. NReg :
    i > 3 + r =>
      mem[SavedAt(S.regs[sp], r)] = IF r = sp THEN S.regs[sp] - Frame ELSE S.regs[r]

InHandler(i, S) ==
  /\ suspended = <<S>> /\ mstatus = 0 /\ rip = S.pc /\ VECTOR_INT_TABLE_SIZE # 0
  /\ InProgram(S.pc) /\ StackAt(S.regs[sp])
  /\ pc = At(i) /\ Stacked(i, S) /\ Intact(i, S) /\ Saved(i, S)

Snapshot == [pc : Addr, regs : [Regs -> Word]]

Handling == \E S \in Snapshot, i \in FramePlaces \cup ProgramPlaces : InHandler(i, S)

HandlerInv == Typed /\ Loaded /\ (Idle \/ Handling)

-----------------------------------------------------------------------------
(* Where everything is.                                                    *)
LEMMA Numbers ==
  /\ NReg \in Nat /\ 2 <= NReg /\ Regs = 0 .. NReg /\ t1 \in 1 .. NReg /\ t1 # 2
  /\ Len(Body) \in Nat /\ Len(Main) \in Nat /\ 1 <= Len(Main)
  /\ WordSize \in Nat /\ AddrSize \in Nat /\ SysSize \in Nat /\ 256 <= WordSize
  /\ AddrSize <= WordSize /\ AddrSize % 4 = 0 /\ 32 <= SysSize
  /\ RESET_VECTOR \in Nat /\ RESET_VECTOR % 4 = 0 /\ RESET_VECTOR + 4 < AddrSize
  /\ Stack \in Nat /\ Stack < AddrSize /\ Stack % 4 = 0 /\ SysSize + 4 * (NReg + 2) <= Stack
  BY HandlerAssumption, SizesAssumption DEF StackAt, Addr, zero, sp, Frame

IsParts(d, a, b, c) ==
  /\ Len(d) = Len(a) + Len(b) + Len(c)
  /\ \A i \in 1 .. Len(a) : d[i] = a[i]
  /\ \A i \in 1 .. Len(b) : d[Len(a) + i] = b[i]
  /\ \A i \in 1 .. Len(c) : d[Len(a) + Len(b) + i] = c[i]

LEMMA Concat ==
  ASSUME NEW S, NEW a \in Seq(S), NEW b \in Seq(S)
  PROVE  /\ a \o b \in Seq(S) /\ Len(a \o b) = Len(a) + Len(b)
         /\ \A i \in 1 .. Len(a) : (a \o b)[i] = a[i]
         /\ \A i \in 1 .. Len(b) : (a \o b)[Len(a) + i] = b[i]
<1>1. /\ a \o b \in Seq(S) /\ Len(a \o b) = Len(a) + Len(b)
      /\ \A i \in 1 .. Len(a) + Len(b) : (a \o b)[i] = IF i <= Len(a) THEN a[i] ELSE b[i - Len(a)]
  BY ConcatProperties, Zenon
<1>2. Len(a) \in Nat /\ Len(b) \in Nat
  OBVIOUS
<1> DEFINE ab == a \o b
<1> HIDE DEF ab
<1>3. \A i \in 1 .. Len(a) + Len(b) : ab[i] = IF i <= Len(a) THEN a[i] ELSE b[i - Len(a)]
  BY <1>1 DEF ab
<1> HIDE DEF ab
<1>4. /\ \A i \in 1 .. Len(a) : ab[i] = a[i]
      /\ \A i \in 1 .. Len(b) : ab[Len(a) + i] = b[i]
  <2>1. ASSUME NEW i \in 1 .. Len(a) PROVE ab[i] = a[i]
    <3>1. i \in 1 .. Len(a) + Len(b) /\ i <= Len(a)
      BY <1>2
    <3> QED BY <1>3, <3>1
  <2>2. ASSUME NEW i \in 1 .. Len(b) PROVE ab[Len(a) + i] = b[i]
    <3>1. Len(a) + i \in 1 .. Len(a) + Len(b) /\ ~(Len(a) + i <= Len(a)) /\ Len(a) + i - Len(a) = i
      BY <1>2
    <3> QED BY <1>3, <3>1
  <2> QED BY <2>1, <2>2
<1> QED BY <1>1, <1>4 DEF ab

LEMMA Parts ==
  ASSUME NEW S, NEW a \in Seq(S), NEW b \in Seq(S), NEW c \in Seq(S), NEW d,
         d = (a \o b) \o c
  PROVE  d \in Seq(S) /\ IsParts(d, a, b, c)
<1> DEFINE ab == a \o b
<1>1. /\ ab \in Seq(S) /\ Len(ab) = Len(a) + Len(b)
      /\ \A i \in 1 .. Len(a) : ab[i] = a[i]
      /\ \A i \in 1 .. Len(b) : ab[Len(a) + i] = b[i]
  BY Concat
<1>2. d = ab \o c
  OBVIOUS
<1> HIDE DEF ab
<1>3. ab \in Seq(S) /\ c \in Seq(S)
  BY <1>1
<1>4. /\ ab \o c \in Seq(S) /\ Len(ab \o c) = Len(ab) + Len(c)
      /\ \A i \in 1 .. Len(ab) : (ab \o c)[i] = ab[i]
      /\ \A i \in 1 .. Len(c) : (ab \o c)[Len(ab) + i] = c[i]
  BY <1>3, Concat
<1>5. Len(a) \in Nat /\ Len(b) \in Nat /\ Len(c) \in Nat
  OBVIOUS
<1>6. /\ d \in Seq(S) /\ Len(d) = Len(ab) + Len(c)
      /\ \A i \in 1 .. Len(ab) : d[i] = ab[i]
      /\ \A i \in 1 .. Len(c) : d[Len(ab) + i] = c[i]
  BY <1>2, <1>4
<1>7. \A i \in 1 .. Len(a) : d[i] = a[i]
  BY <1>1, <1>5, <1>6
<1>8. \A i \in 1 .. Len(b) : d[Len(a) + i] = b[i]
  BY <1>1, <1>5, <1>6
<1> QED BY <1>1, <1>6, <1>7, <1>8 DEF IsParts

LEMMA CodeAt ==
  /\ Len(Code) = EntryAt + Len(Main)
  /\ Code[1] = Jump_(4 * (EntryAt - 1)) /\ Code[2] = Jump_(4)
  /\ Code[3] = Addi(sp, sp, -Frame)
  /\ \A r \in 1 .. NReg : Code[3 + r] = Sw(r, Slot(r), sp)
  /\ Code[NReg + 4] = Lw(t1, 20, zero) /\ Code[NReg + 5] = Sw(t1, 4, sp)
  /\ Code[NReg + 6] = Lw(t1, 8, zero)  /\ Code[NReg + 7] = Sw(t1, 0, sp)
  /\ \A k \in 1 .. Len(Body) : Code[BodyAt + k] = Body[k]
  /\ Code[Restored - 1] = Lw(t1, 0, sp) /\ Code[Restored] = Sw(t1, 8, zero)
  /\ \A r \in 1 .. NReg : Code[Restored + r] = Lw(r, Slot(r), sp)
  /\ Code[MretAt - 1] = Addi(sp, sp, Frame) /\ Code[MretAt] = MretInst
  /\ Code[EntryAt] = Addi(sp, zero, Stack)
  /\ \A k \in 1 .. Len(Main) : Code[EntryAt + k] = Main[k]
<1> DEFINE Any == Inst \cup {Addi(sp, sp, -Frame), Addi(sp, sp, Frame), Addi(sp, zero, Stack), MretInst,
                             Lw(t1, 20, zero), Sw(t1, 4, sp), Lw(t1, 8, zero), Sw(t1, 0, sp),
                             Lw(t1, 0, sp), Sw(t1, 8, zero),
                             Jump_(4 * (Len(IRQHandler) + 2)), Jump_(4)}
             \cup {Sw(r, Slot(r), sp) : r \in 1 .. NReg} \cup {Lw(r, Slot(r), sp) : r \in 1 .. NReg}
           P1 == << Addi(sp, sp, -Frame) >>
           P2 == [r \in 1 .. NReg |-> Sw(r, Slot(r), sp)]
           P3 == << Lw(t1, 20, zero), Sw(t1, 4, sp), Lw(t1, 8, zero), Sw(t1, 0, sp) >>
           E1 == << Lw(t1, 0, sp), Sw(t1, 8, zero) >>
           E2 == [r \in 1 .. NReg |-> Lw(r, Slot(r), sp)]
           E3 == << Addi(sp, sp, Frame), MretInst >>
           V  == << Jump_(4 * (Len(IRQHandler) + 2)), Jump_(4) >>
           N1 == << Addi(sp, zero, Stack) >>
<1>1. /\ P1 \in Seq(Any) /\ P2 \in Seq(Any) /\ P3 \in Seq(Any) /\ E1 \in Seq(Any)
      /\ E2 \in Seq(Any) /\ E3 \in Seq(Any) /\ V \in Seq(Any) /\ N1 \in Seq(Any)
  <2>1. P2 \in Seq(Any) /\ E2 \in Seq(Any)
    <3>1. NReg \in Nat
      BY Numbers
    <3>2. \A r \in 1 .. NReg : Sw(r, Slot(r), sp) \in Any /\ Lw(r, Slot(r), sp) \in Any
      OBVIOUS
    <3> HIDE DEF Any
    <3> QED BY <3>1, <3>2
  <2>2. P1 \in Seq(Any) /\ P3 \in Seq(Any) /\ E1 \in Seq(Any) /\ E3 \in Seq(Any)
        /\ V \in Seq(Any) /\ N1 \in Seq(Any)
    OBVIOUS
  <2> QED BY <2>1, <2>2
<1>2. /\ Len(P1) = 1 /\ P1[1] = Addi(sp, sp, -Frame)
      /\ Len(P2) = NReg /\ \A r \in 1 .. NReg : P2[r] = Sw(r, Slot(r), sp)
      /\ Len(P3) = 4 /\ P3[1] = Lw(t1, 20, zero) /\ P3[2] = Sw(t1, 4, sp)
      /\ P3[3] = Lw(t1, 8, zero) /\ P3[4] = Sw(t1, 0, sp)
      /\ Len(E1) = 2 /\ E1[1] = Lw(t1, 0, sp) /\ E1[2] = Sw(t1, 8, zero)
      /\ Len(E2) = NReg /\ \A r \in 1 .. NReg : E2[r] = Lw(r, Slot(r), sp)
      /\ Len(E3) = 2 /\ E3[1] = Addi(sp, sp, Frame) /\ E3[2] = MretInst
      /\ Len(V) = 2 /\ V[1] = Jump_(4 * (Len(IRQHandler) + 2)) /\ V[2] = Jump_(4)
      /\ Len(N1) = 1 /\ N1[1] = Addi(sp, zero, Stack)
  <2>1. Len(P2) = NReg /\ Len(E2) = NReg
    BY Numbers
  <2> QED BY <2>1
<1>3. Body \in Seq(Any) /\ Main \in Seq(Any)
  <2>1. Inst \subseteq Any
    OBVIOUS
  <2> HIDE DEF Any
  <2> QED BY <2>1, HandlerAssumption
<1> HIDE DEF Any, P1, P2, P3, E1, E2, E3, V, N1
<1>4. ISR_PROLOGUE = (P1 \o P2) \o P3 /\ ISR_EPILOGUE = (E1 \o E2) \o E3
      /\ Entry = N1 \o Main /\ Code = (V \o IRQHandler) \o Entry
  BY DEF ISR_PROLOGUE, ISR_EPILOGUE, Entry, Code, P1, P2, P3, E1, E2, E3, V, N1
<1>5. ISR_PROLOGUE \in Seq(Any) /\ IsParts(ISR_PROLOGUE, P1, P2, P3)
  BY <1>1, <1>4, Parts
<1>6. /\ ISR_PROLOGUE \in Seq(Any) /\ Len(ISR_PROLOGUE) = NReg + 5
      /\ ISR_PROLOGUE[1] = Addi(sp, sp, -Frame)
      /\ \A r \in 1 .. NReg : ISR_PROLOGUE[1 + r] = Sw(r, Slot(r), sp)
      /\ ISR_PROLOGUE[NReg + 2] = Lw(t1, 20, zero) /\ ISR_PROLOGUE[NReg + 3] = Sw(t1, 4, sp)
      /\ ISR_PROLOGUE[NReg + 4] = Lw(t1, 8, zero) /\ ISR_PROLOGUE[NReg + 5] = Sw(t1, 0, sp)
  <2>1. 1 \in 1 .. 1 /\ 1 \in 1 .. 4 /\ 2 \in 1 .. 4 /\ 3 \in 1 .. 4 /\ 4 \in 1 .. 4
    OBVIOUS
  <2>2. /\ Len(ISR_PROLOGUE) = 1 + NReg + 4 /\ ISR_PROLOGUE[1] = P1[1]
        /\ \A r \in 1 .. NReg : ISR_PROLOGUE[1 + r] = P2[r]
        /\ \A j \in 1 .. 4 : ISR_PROLOGUE[1 + NReg + j] = P3[j]
    BY <1>2, <1>5, <2>1 DEF IsParts
  <2>3. 1 + NReg + 1 = NReg + 2 /\ 1 + NReg + 2 = NReg + 3 /\ 1 + NReg + 3 = NReg + 4
        /\ 1 + NReg + 4 = NReg + 5
    BY Numbers
  <2>4. \A r \in 1 .. NReg : ISR_PROLOGUE[1 + r] = Sw(r, Slot(r), sp)
    BY <1>2, <2>2
  <2>5. /\ ISR_PROLOGUE[NReg + 2] = P3[1] /\ ISR_PROLOGUE[NReg + 3] = P3[2]
        /\ ISR_PROLOGUE[NReg + 4] = P3[3] /\ ISR_PROLOGUE[NReg + 5] = P3[4]
    BY <2>1, <2>2, <2>3
  <2>6. Len(ISR_PROLOGUE) = NReg + 5 /\ ISR_PROLOGUE[1] = Addi(sp, sp, -Frame)
    BY <1>2, <2>2, <2>3
  <2> QED BY <1>2, <1>5, <2>4, <2>5, <2>6
<1>7. ISR_EPILOGUE \in Seq(Any) /\ IsParts(ISR_EPILOGUE, E1, E2, E3)
  BY <1>1, <1>4, Parts
<1>8. /\ ISR_EPILOGUE \in Seq(Any) /\ Len(ISR_EPILOGUE) = NReg + 4
      /\ ISR_EPILOGUE[1] = Lw(t1, 0, sp) /\ ISR_EPILOGUE[2] = Sw(t1, 8, zero)
      /\ \A r \in 1 .. NReg : ISR_EPILOGUE[2 + r] = Lw(r, Slot(r), sp)
      /\ ISR_EPILOGUE[NReg + 3] = Addi(sp, sp, Frame) /\ ISR_EPILOGUE[NReg + 4] = MretInst
  <2>1. 1 \in 1 .. 2 /\ 2 \in 1 .. 2
    OBVIOUS
  <2>2. /\ Len(ISR_EPILOGUE) = 2 + NReg + 2
        /\ \A j \in 1 .. 2 : ISR_EPILOGUE[j] = E1[j]
        /\ \A r \in 1 .. NReg : ISR_EPILOGUE[2 + r] = E2[r]
        /\ \A j \in 1 .. 2 : ISR_EPILOGUE[2 + NReg + j] = E3[j]
    BY <1>2, <1>7 DEF IsParts
  <2>3. 2 + NReg + 1 = NReg + 3 /\ 2 + NReg + 2 = NReg + 4
    BY Numbers
  <2>4. \A r \in 1 .. NReg : ISR_EPILOGUE[2 + r] = Lw(r, Slot(r), sp)
    BY <1>2, <2>2
  <2>5. ISR_EPILOGUE[NReg + 3] = E3[1] /\ ISR_EPILOGUE[NReg + 4] = E3[2]
    BY <2>1, <2>2, <2>3
  <2>6. Len(ISR_EPILOGUE) = NReg + 4 /\ ISR_EPILOGUE[1] = E1[1] /\ ISR_EPILOGUE[2] = E1[2]
    BY <2>1, <2>2, <2>3
  <2> QED BY <1>2, <1>7, <2>4, <2>5, <2>6
<1>9. IRQHandler \in Seq(Any) /\ IsParts(IRQHandler, ISR_PROLOGUE, Body, ISR_EPILOGUE)
  <2>1. IRQHandler = (ISR_PROLOGUE \o Body) \o ISR_EPILOGUE
    BY DEF IRQHandler
  <2> QED BY <1>3, <1>6, <1>8, <2>1, Parts
<1>10. /\ IRQHandler \in Seq(Any) /\ Len(IRQHandler) = NReg + 5 + Len(Body) + NReg + 4
       /\ \A i \in 1 .. NReg + 5 : IRQHandler[i] = ISR_PROLOGUE[i]
       /\ \A k \in 1 .. Len(Body) : IRQHandler[NReg + 5 + k] = Body[k]
       /\ \A i \in 1 .. NReg + 4 : IRQHandler[NReg + 5 + Len(Body) + i] = ISR_EPILOGUE[i]
  BY <1>6, <1>8, <1>9, Numbers DEF IsParts
<1>11. /\ Entry \in Seq(Any) /\ Len(Entry) = 1 + Len(Main) /\ Entry[1] = Addi(sp, zero, Stack)
       /\ \A k \in 1 .. Len(Main) : Entry[1 + k] = Main[k]
  <2>1. /\ N1 \o Main \in Seq(Any) /\ Len(N1 \o Main) = Len(N1) + Len(Main)
        /\ \A i \in 1 .. Len(N1) : (N1 \o Main)[i] = N1[i]
        /\ \A i \in 1 .. Len(Main) : (N1 \o Main)[Len(N1) + i] = Main[i]
    BY <1>1, <1>3, Concat
  <2>2. Len(N1) = 1 /\ N1[1] = Addi(sp, zero, Stack) /\ 1 \in 1 .. 1
    BY <1>2
  <2>3. Entry = N1 \o Main
    BY <1>4
  <2> QED BY <2>1, <2>2, <2>3
<1>12. Code \in Seq(Any) /\ IsParts(Code, V, IRQHandler, Entry)
  BY <1>1, <1>4, <1>10, <1>11, Parts
<1>13. /\ Len(Code) = 2 + Len(IRQHandler) + Len(Entry)
       /\ Code[1] = Jump_(4 * (Len(IRQHandler) + 2)) /\ Code[2] = Jump_(4)
       /\ \A i \in 1 .. Len(IRQHandler) : Code[2 + i] = IRQHandler[i]
       /\ \A i \in 1 .. Len(Entry) : Code[2 + Len(IRQHandler) + i] = Entry[i]
  BY <1>2, <1>12 DEF IsParts
<1>14. /\ EntryAt = 2 + Len(IRQHandler) + 1 /\ MretAt = 2 + Len(IRQHandler)
       /\ BodyAt = 2 + (NReg + 5) /\ Restored = 2 + (NReg + 5 + Len(Body) + 2)
       /\ Len(IRQHandler) = NReg + 5 + Len(Body) + NReg + 4
  BY <1>10, Numbers DEF EntryAt, MretAt, BodyAt, Restored
<1>15. /\ \A i \in 1 .. NReg + 5 : Code[2 + i] = ISR_PROLOGUE[i]
       /\ \A k \in 1 .. Len(Body) : Code[2 + (NReg + 5 + k)] = Body[k]
       /\ \A i \in 1 .. NReg + 4 : Code[2 + (NReg + 5 + Len(Body) + i)] = ISR_EPILOGUE[i]
  <2>1. ASSUME NEW i \in 1 .. NReg + 5 PROVE Code[2 + i] = ISR_PROLOGUE[i]
    <3>1. i \in 1 .. Len(IRQHandler)
      BY <1>10, Numbers
    <3> QED BY <1>10, <1>13, <3>1
  <2>2. ASSUME NEW k \in 1 .. Len(Body) PROVE Code[2 + (NReg + 5 + k)] = Body[k]
    <3>1. NReg + 5 + k \in 1 .. Len(IRQHandler)
      BY <1>10, Numbers
    <3> QED BY <1>10, <1>13, <3>1
  <2>3. ASSUME NEW i \in 1 .. NReg + 4
        PROVE  Code[2 + (NReg + 5 + Len(Body) + i)] = ISR_EPILOGUE[i]
    <3>1. NReg + 5 + Len(Body) + i \in 1 .. Len(IRQHandler)
      BY <1>10, Numbers
    <3> QED BY <1>10, <1>13, <3>1
  <2> QED BY <2>1, <2>2, <2>3
<1>16. /\ Code[3] = Addi(sp, sp, -Frame)
       /\ \A r \in 1 .. NReg : Code[3 + r] = Sw(r, Slot(r), sp)
       /\ Code[NReg + 4] = Lw(t1, 20, zero) /\ Code[NReg + 5] = Sw(t1, 4, sp)
       /\ Code[NReg + 6] = Lw(t1, 8, zero)  /\ Code[NReg + 7] = Sw(t1, 0, sp)
  <2>1. /\ Code[2 + 1] = ISR_PROLOGUE[1] /\ \A r \in 1 .. NReg : Code[2 + (1 + r)] = ISR_PROLOGUE[1 + r]
        /\ Code[2 + (NReg + 2)] = ISR_PROLOGUE[NReg + 2] /\ Code[2 + (NReg + 3)] = ISR_PROLOGUE[NReg + 3]
        /\ Code[2 + (NReg + 4)] = ISR_PROLOGUE[NReg + 4] /\ Code[2 + (NReg + 5)] = ISR_PROLOGUE[NReg + 5]
    BY <1>15, Numbers
  <2>2. /\ 2 + (NReg + 2) = NReg + 4 /\ 2 + (NReg + 3) = NReg + 5 /\ 2 + (NReg + 4) = NReg + 6
        /\ 2 + (NReg + 5) = NReg + 7 /\ \A r \in 1 .. NReg : 2 + (1 + r) = 3 + r
    BY Numbers
  <2> QED BY <1>6, <2>1, <2>2
<1>17. \A k \in 1 .. Len(Body) : Code[BodyAt + k] = Body[k]
  <2>1. \A k \in 1 .. Len(Body) : BodyAt + k = 2 + (NReg + 5 + k)
    BY <1>14, Numbers
  <2> QED BY <1>15, <2>1
<1>18. /\ Code[Restored - 1] = Lw(t1, 0, sp) /\ Code[Restored] = Sw(t1, 8, zero)
       /\ \A r \in 1 .. NReg : Code[Restored + r] = Lw(r, Slot(r), sp)
       /\ Code[MretAt - 1] = Addi(sp, sp, Frame) /\ Code[MretAt] = MretInst
  <2> DEFINE c(i) == 2 + (NReg + 5 + Len(Body) + i)
  <2>1. \A i \in 1 .. NReg + 4 : Code[c(i)] = ISR_EPILOGUE[i]
    BY <1>15
  <2>2. /\ c(1) = Restored - 1 /\ c(2) = Restored /\ \A r \in 1 .. NReg : c(2 + r) = Restored + r
        /\ c(NReg + 3) = MretAt - 1 /\ c(NReg + 4) = MretAt
    BY <1>14, Numbers
  <2> HIDE DEF c
  <2>3. /\ Code[c(1)] = ISR_EPILOGUE[1] /\ Code[c(2)] = ISR_EPILOGUE[2]
        /\ \A r \in 1 .. NReg : Code[c(2 + r)] = ISR_EPILOGUE[2 + r]
        /\ Code[c(NReg + 3)] = ISR_EPILOGUE[NReg + 3] /\ Code[c(NReg + 4)] = ISR_EPILOGUE[NReg + 4]
    <3>1. /\ 1 \in 1 .. NReg + 4 /\ 2 \in 1 .. NReg + 4 /\ NReg + 3 \in 1 .. NReg + 4
          /\ NReg + 4 \in 1 .. NReg + 4 /\ \A r \in 1 .. NReg : 2 + r \in 1 .. NReg + 4
      BY Numbers
    <3> QED BY <2>1, <3>1
  <2> QED BY <1>8, <2>3, <2>2
<1>19. /\ Len(Code) = EntryAt + Len(Main) /\ Code[EntryAt] = Addi(sp, zero, Stack)
       /\ \A k \in 1 .. Len(Main) : Code[EntryAt + k] = Main[k]
  <2>1. /\ Code[2 + Len(IRQHandler) + 1] = Entry[1]
        /\ \A k \in 1 .. Len(Main) : Code[2 + Len(IRQHandler) + (1 + k)] = Entry[1 + k]
    <3>1. Len(Entry) = 1 + Len(Main) /\ Len(Main) \in Nat
      BY <1>11, Numbers
    <3>2. 1 \in 1 .. Len(Entry) /\ \A k \in 1 .. Len(Main) : 1 + k \in 1 .. Len(Entry)
      BY <3>1
    <3> QED BY <1>13, <3>2
  <2>2. \A k \in 1 .. Len(Main) : 2 + Len(IRQHandler) + (1 + k) = EntryAt + k
    BY <1>14, Numbers
  <2>3. Len(Code) = EntryAt + Len(Main)
    BY <1>11, <1>13, <1>14, Numbers
  <2> QED BY <1>11, <1>14, <2>1, <2>2, <2>3
<1>20. Code[1] = Jump_(4 * (EntryAt - 1)) /\ Code[2] = Jump_(4)
  <2>1. EntryAt - 1 = Len(IRQHandler) + 2
    BY <1>14, Numbers
  <2> QED BY <1>13, <2>1
<1> QED
  BY <1>16, <1>17, <1>18, <1>19, <1>20

LEMMA Places ==
  /\ BodyAt = NReg + 7 /\ Restored = NReg + 9 + Len(Body) /\ MretAt = Restored + NReg + 2
  /\ EntryAt = MretAt + 1 /\ Len(Code) = EntryAt + Len(Main)
  /\ BodyAt \in Nat /\ Restored \in Nat /\ MretAt \in Nat /\ EntryAt \in Nat /\ Len(Code) \in Nat
<1>1. Len(Code) = EntryAt + Len(Main)
  BY CodeAt
<1>2. BodyAt = NReg + 7 /\ Restored = NReg + 9 + Len(Body) /\ MretAt = Restored + NReg + 2
      /\ EntryAt = MretAt + 1
  BY Numbers DEF EntryAt, MretAt, Restored, BodyAt
<1>3. NReg \in Nat /\ Len(Body) \in Nat /\ Len(Main) \in Nat
  BY Numbers
<1> QED BY <1>1, <1>2, <1>3

LEMMA CodeLength == Len(Code) \in Nat /\ EntryAt < Len(Code) + 1 /\ EntryAt \in Nat
<1>1. Len(Code) = EntryAt + Len(Main) /\ EntryAt \in Nat /\ Len(Main) \in Nat
  BY Places, Numbers
<1> QED BY <1>1

-----------------------------------------------------------------------------
(* One instruction.                                                        *)
LEMMA FitsByFour ==
  \A a, b, n \in Nat : a % 4 = 0 /\ a + 4 * n <= b => a \div 4 \in Nat /\ (a \div 4) + n <= b \div 4
  OBVIOUS

LEMMA BelowByFour ==
  \A a, b \in Nat : a < b /\ b % 4 = 0 => a \div 4 \in 0 .. (b \div 4) - 1
  OBVIOUS

LEMMA ByFour ==
  /\ \A n \in Int : n % 4 = 0 => \A k \in Int : (n + 4 * k) \div 4 = (n \div 4) + k
  /\ \A n \in Int : n % 4 = 0 => \A k \in Int : (n + 4 * k) % 4 = 0
  OBVIOUS

LEMMA Here ==
  ASSUME Typed, Loaded, NEW i \in 1 .. Len(Code), pc = At(i)
  PROVE  Inst_ = Code[i] /\ Inst_ \in Inst /\ Inst_ \in Instructions
<1>1. Len(Code) \in Nat
  BY CodeLength
<1>2. WordOf(pc) = CodeWord(i)
  BY <1>1, Numbers, ByFour DEF At, WordOf, CodeWord
<1>3. mem[WordOf(pc)] \in Word
  BY Numbers DEF Typed, Memories, WordIdx, NWords, WordOf, Addr
<1> QED BY <1>2, <1>3, OperatorsAssumption DEF Loaded, Inst_, Instructions

LEMMA Ahead ==
  ASSUME NEW i \in Int, NEW d \in Int, i + d \in 1 .. Len(Code)
  PROVE  Plus(At(i), 4 * d) = At(i + d) /\ At(i + d) \in Addr
<1>1. Len(Code) \in Nat /\ RESET_VECTOR + 4 * Len(Code) <= AddrSize
  BY HandlerAssumption, CodeLength
<1>2. At(i) + 4 * d = At(i + d) /\ 0 <= At(i + d) /\ At(i + d) < AddrSize /\ At(i + d) \in Int
  BY <1>1, Numbers DEF At
<1> QED BY <1>2, Numbers DEF Plus, Addr

LEMMA NextAt ==
  ASSUME NEW i \in Int, i + 1 \in 1 .. Len(Code)
  PROVE  Plus(At(i), 4) = At(i + 1)
<1>1. Len(Code) \in Nat /\ RESET_VECTOR + 4 * Len(Code) <= AddrSize
  BY HandlerAssumption, CodeLength
<1>2. At(i) + 4 = At(i + 1) /\ 0 <= At(i + 1) /\ At(i + 1) < AddrSize /\ At(i + 1) \in Int
  BY <1>1, Numbers DEF At
<1> QED BY <1>2, Numbers DEF Plus, Addr

LEMMA PlusType == \A a, d \in Int : Plus(a, d) \in Addr /\ Plus(a, d) \in Word
  BY Numbers DEF Plus, Addr, Word

LEMMA XType ==
  ASSUME Typed, NEW r \in Regs
  PROVE  X(regs, r) \in Word /\ X(regs, r) \in Int
  BY Numbers DEF Typed, X, Word

LEMMA Writes ==
  ASSUME Typed, NEW r, NEW v \in Word, WriteReg(r, v)
  PROVE  /\ regs' \in [Regs -> Word]
         /\ \A q \in Regs : q # r \/ q = 0 => regs'[q] = regs[q]
         /\ r \in Regs \ {0} => regs'[r] = v
  BY DEF Typed, WriteReg

LEMMA SystemType == ASSUME Typed, mstatus \in {0, MIE_bit} PROVE {mstatus, rip, mcause} \subseteq Word
  BY Numbers DEF Typed, Word, Addr, MIE_bit

LEMMA LoadType ==
  ASSUME Typed, mstatus \in {0, MIE_bit}, Inst_ \in Instructions, Inst_.op = "LOAD",
         NEW a \in Addr, NEW v \in LoadValues(a)
  PROVE  v \in Word
<1>1. mem[WordOf(a)] \in Word
  BY Numbers DEF Typed, Memories, WordIdx, NWords, WordOf, Addr
<1>2. \A w \in Word : Narrow(Inst_.f, w) \in Word /\ Narrow("LW", w) = w
  BY OperatorsAssumption
<1> QED BY <1>1, <1>2, SystemType DEF LoadValues

LEMMA Stores_ ==
  ASSUME Typed, NEW a \in Addr, NEW v \in Word, Inst_ \in Instructions, Inst_.op = "STORE",
         mem' = StoreAt(mem, a, Inst_.f, v)
  PROVE  /\ mem' \in Memories
         /\ \A w \in WordIdx : w # WordOf(a) \/ w \notin RamWords => mem'[w] = mem[w]
         /\ Inst_.f = "SW" /\ a % 4 = 0 /\ WordOf(a) \in RamWords => mem'[WordOf(a)] = v
<1>1. a % 4 \in 0 .. 3 /\ WordOf(a) \in WordIdx
  BY Numbers DEF WordOf, WordIdx, NWords, Addr
<1>2. mem[WordOf(a)] \in Word
  BY <1>1 DEF Typed, Memories
<1>3. Merge(Inst_.f, a % 4, mem[WordOf(a)], v) \in Word
  BY <1>1, <1>2, OperatorsAssumption
<1>4. Inst_.f = "SW" /\ a % 4 = 0 => Merge(Inst_.f, a % 4, mem[WordOf(a)], v) = v
  BY <1>2, HandlerAssumption
<1> QED BY <1>1, <1>2, <1>3, <1>4 DEF Typed, Memories, StoreAt

LEMMA EffAddrType == ASSUME Typed, Inst_ \in Inst PROVE EffAddr(regs, Inst_) \in Addr
  BY XType, PlusType DEF Inst, EffAddr

(* A store cannot reach the code. *)
LEMMA CodeOutOfReach == \A i \in 1 .. Len(Code) : CodeWord(i) \in WordIdx \ RamWords
<1>1. Len(Code) \in Nat
  BY CodeLength
<1>2. RESET_VECTOR \div 4 \in Nat /\ (RESET_VECTOR \div 4) + Len(Code) <= AddrSize \div 4
  <2>1. RESET_VECTOR \in Nat /\ AddrSize \in Nat /\ RESET_VECTOR % 4 = 0
        /\ RESET_VECTOR + 4 * Len(Code) <= AddrSize
    BY HandlerAssumption, Numbers
  <2> QED BY <1>1, <2>1, FitsByFour
<1>3. \A i \in 1 .. Len(Code) : (RESET_VECTOR \div 4) + i - 1 \in 0 .. (AddrSize \div 4) - 1
  <2>1. AddrSize \div 4 \in Int
    BY Numbers
  <2> QED BY <1>1, <1>2, <2>1
<1>4. \A i \in 1 .. Len(Code) : CodeWord(i) \notin RamWords
  BY HandlerAssumption
<1> QED BY <1>3, <1>4 DEF CodeWord, WordIdx, NWords, WordOf

LEMMA CodeKept ==
  ASSUME Loaded, \A w \in WordIdx \ RamWords : mem'[w] = mem[w]
  PROVE  Loaded'
  BY CodeOutOfReach DEF Loaded

LEMMA TypedStep ==
  ASSUME Typed, Loaded, mstatus \in {0, MIE_bit}, HNext,
         NEW i \in 1 .. Len(Code), pc = At(i)
  PROVE  Typed' /\ Loaded'
<1>1. Inst_ \in Inst /\ Inst_ \in Instructions /\ pc \in Int
  BY Here, Numbers DEF Typed, Addr
<1>2. X(regs, Inst_.rs1) \in Word /\ X(regs, Inst_.rs2) \in Word /\ Inst_.imm \in Int
  BY <1>1, XType DEF Inst
<1>3. UNCHANGED mem => Loaded' /\ (Typed => mem' \in Memories)
  BY DEF Loaded, Typed
<1>4. Plus(pc, 4) \in Addr /\ Plus(pc, 4) \in Word
  BY <1>1, PlusType
<1>5. CASE Simple
  <2>1. \A v : v % WordSize \in Word \/ v \notin Int
    BY Numbers DEF Word
  <2>2. \A v \in Int : v % WordSize \in Word
    BY <2>1
  <2>3. Plus(pc, 4) + Inst_.imm - 4 \in Int
    BY <1>2, <1>4 DEF Addr
  <2>4. Inst_.op = "OP" => Alu(Inst_, X(regs, Inst_.rs1), X(regs, Inst_.rs2)) \in Word
    BY <1>1, <1>2, OperatorsAssumption
  <2>5. regs' \in [Regs -> Word]
    <3>1. CASE Inst_.op = "OP"
      BY <1>5, <2>4, <3>1, Writes DEF Simple
    <3>2. CASE Inst_.op = "LUI"
      BY <1>2, <1>5, <2>2, <3>2, Writes DEF Simple
    <3>3. CASE Inst_.op = "AUIPC"
      BY <1>5, <2>2, <2>3, <3>3, Writes DEF Simple
    <3>4. CASE Inst_.op = "NOP"
      BY <1>5, <3>4 DEF Simple, Typed
    <3> QED BY <1>5, <3>1, <3>2, <3>3, <3>4 DEF Simple
  <2> QED BY <1>3, <1>4, <1>5, <2>5 DEF Simple, Typed
<1>6. CASE Load
  <2>1. PICK v \in LoadValues(EffAddr(regs, Inst_)) : WriteReg(Inst_.rd, v)
    BY <1>6 DEF Load
  <2>2. v \in Word
    BY <1>1, <1>6, EffAddrType, LoadType DEF Load
  <2> QED BY <1>3, <1>4, <1>6, <2>1, <2>2, Writes DEF Load, Typed
<1>7. CASE Store
  <2>1. mem' \in Memories /\ \A w \in WordIdx \ RamWords : mem'[w] = mem[w]
    BY <1>1, <1>2, <1>7, EffAddrType, Stores_ DEF Store
  <2>2. X(regs, Inst_.rs2) % AddrSize \in Addr
    <3>1. \A v \in Word : v % AddrSize \in Addr
      BY Numbers DEF Word, Addr
    <3> QED BY <1>2, <3>1
  <2>3. rip' \in Addr
    BY <1>7, <2>2 DEF Store, Typed
  <2>4. pc' \in Addr /\ UNCHANGED <<regs, mcause>>
    BY <1>4, <1>7 DEF Store
  <2>5. Loaded'
    BY <2>1, CodeKept
  <2> QED BY <2>1, <2>3, <2>4, <2>5 DEF Typed
<1>8. CASE Branch
  <2>1. Plus(pc, Inst_.imm) \in Addr
    BY <1>1, <1>2, PlusType
  <2> QED BY <1>3, <1>4, <1>8, <2>1 DEF Branch, Typed
<1>9. CASE Jump
  <2>1. Plus(pc, Inst_.imm) \in Addr
    BY <1>1, <1>2, PlusType
  <2>2. JalrTarget(regs, Inst_) \in Addr
    <3>1. \A x \in Word : x - (x % 2) \in Int
      BY DEF Word
    <3> QED BY <1>2, <3>1, PlusType DEF JalrTarget
  <2>3. regs' \in [Regs -> Word]
    BY <1>4, <1>9, Writes DEF Jump
  <2> QED BY <1>3, <1>9, <2>1, <2>2, <2>3 DEF Jump, Typed
<1>10. CASE Return
  BY <1>3, <1>4, <1>10 DEF Return, Mret, Typed
<1>11. ASSUME NEW s \in Sources, Interrupt(s) PROVE Typed' /\ Loaded'
  <2>1. s \in Word /\ RESET_VECTOR + 4 \in Addr
    BY SizesAssumption, Numbers DEF Sources, Byte, Word
  <2> QED BY <1>3, <1>11, <2>1 DEF Interrupt, TakeInterrupt, Typed
<1> QED BY <1>5, <1>6, <1>7, <1>8, <1>9, <1>10, <1>11 DEF HNext, Continue

(***************************************************************************)
(* The instructions of the frame.                                          *)
(***************************************************************************)
LEMMA AddiStep ==
  ASSUME Typed, Loaded, Continue \/ Return, NEW i \in 1 .. Len(Code) - 1, pc = At(i),
         NEW d \in Regs \ {0}, NEW a \in Regs, NEW imm, Code[i] = Addi(d, a, imm)
  PROVE  /\ ~Return /\ pc' = At(i + 1) /\ UNCHANGED <<mem, rip, mstatus, mcause, suspended>>
         /\ regs' \in [Regs -> Word]
         /\ regs'[d] = (X(regs, a) + imm) % WordSize
         /\ \A q \in Regs \ {d} : regs'[q] = regs[q]
<1>1. Len(Code) \in Nat /\ i \in 1 .. Len(Code) /\ i \in Int /\ i + 1 \in 1 .. Len(Code)
  BY CodeLength
<1>2. Inst_ = Addi(d, a, imm) /\ Inst_ \in Instructions
  BY <1>1, Here
<1>3. Inst_.op = "OP" /\ Inst_.f = "ADDI" /\ Inst_.rd = d /\ Inst_.rs1 = a /\ Inst_.rs2 = 0 /\ Inst_.imm = imm
  BY <1>2 DEF Addi
<1>4. Simple /\ ~Return /\ UNCHANGED suspended
  BY <1>3 DEF Continue, Return, Load, Store, Branch, Jump, Mret
<1>5. X(regs, a) \in Word /\ X(regs, 0) \in Word
  BY XType, Numbers
<1>6. Alu(Inst_, X(regs, a), X(regs, 0)) = (X(regs, a) + imm) % WordSize
      /\ Alu(Inst_, X(regs, a), X(regs, 0)) \in Word
  BY <1>2, <1>3, <1>5, HandlerAssumption, OperatorsAssumption
<1>7. WriteReg(d, (X(regs, a) + imm) % WordSize)
  BY <1>3, <1>4, <1>6 DEF Simple
<1>8. Plus(pc, 4) = At(i + 1)
  BY <1>1, NextAt
<1> QED BY <1>4, <1>6, <1>7, <1>8, Writes DEF Simple

LEMMA LwStep ==
  ASSUME Typed, Loaded, mstatus \in {0, MIE_bit}, Continue \/ Return,
         NEW i \in 1 .. Len(Code) - 1, pc = At(i),
         NEW d \in Regs \ {0}, NEW a \in Regs, NEW imm \in Int, Code[i] = Lw(d, imm, a)
  PROVE  /\ ~Return /\ pc' = At(i + 1) /\ UNCHANGED <<mem, rip, mstatus, mcause, suspended>>
         /\ Plus(X(regs, a), imm) >= SysSize => regs'[d] = mem[WordOf(Plus(X(regs, a), imm))]
         /\ \A q \in Regs \ {d} : regs'[q] = regs[q]
<1>1. Len(Code) \in Nat /\ i \in 1 .. Len(Code) /\ i \in Int /\ i + 1 \in 1 .. Len(Code)
  BY CodeLength
<1>2. Inst_ = Lw(d, imm, a) /\ Inst_ \in Instructions /\ Inst_ \in Inst
  BY <1>1, Here
<1>3. Inst_.op = "LOAD" /\ Inst_.f = "LW" /\ Inst_.rd = d /\ Inst_.rs1 = a /\ Inst_.imm = imm
  BY <1>2 DEF Lw
<1>4. Load /\ ~Return /\ UNCHANGED suspended
  BY <1>3 DEF Continue, Return, Simple, Store, Branch, Jump, Mret
<1>5. EffAddr(regs, Inst_) = Plus(X(regs, a), imm) /\ EffAddr(regs, Inst_) \in Addr
  BY <1>2, <1>3, EffAddrType DEF EffAddr
<1>6. PICK v \in LoadValues(EffAddr(regs, Inst_)) : WriteReg(d, v)
  BY <1>3, <1>4 DEF Load
<1>7. v \in Word
  BY <1>2, <1>3, <1>5, LoadType
<1>8. ASSUME Plus(X(regs, a), imm) >= SysSize PROVE v = mem[WordOf(Plus(X(regs, a), imm))]
  <2>1. ~IsSysAddr(EffAddr(regs, Inst_))
    BY <1>5, <1>8, Numbers DEF IsSysAddr, Addr
  <2>2. mem[WordOf(EffAddr(regs, Inst_))] \in Word
    <3>1. WordOf(EffAddr(regs, Inst_)) \in WordIdx
      <4>1. EffAddr(regs, Inst_) \in Nat /\ EffAddr(regs, Inst_) < AddrSize
            /\ AddrSize \in Nat /\ AddrSize % 4 = 0
        BY <1>5, Numbers DEF Addr
      <4> QED BY <4>1, BelowByFour DEF WordIdx, NWords, WordOf
    <3> QED BY <3>1 DEF Typed, Memories
  <2>3. v = Narrow("LW", mem[WordOf(EffAddr(regs, Inst_))])
    BY <1>3, <1>6, <2>1 DEF LoadValues
  <2> QED BY <1>5, <2>2, <2>3, OperatorsAssumption
<1>9. Plus(pc, 4) = At(i + 1)
  BY <1>1, NextAt
<1> QED BY <1>4, <1>6, <1>7, <1>8, <1>9, Writes DEF Load

LEMMA SwStep ==
  ASSUME Typed, Loaded, Continue \/ Return, NEW i \in 1 .. Len(Code) - 1, pc = At(i),
         NEW s \in Regs, NEW a \in Regs, NEW imm \in Int, Code[i] = Sw(s, imm, a),
         Plus(X(regs, a), imm) \notin {REG_RIP, REG_MSTATUS}, Plus(X(regs, a), imm) % 4 = 0
  PROVE  LET w == WordOf(Plus(X(regs, a), imm))
         IN /\ ~Return /\ pc' = At(i + 1) /\ UNCHANGED <<regs, rip, mstatus, mcause, suspended>>
            /\ w \in RamWords => mem'[w] = X(regs, s)
            /\ \A v \in WordIdx \ {w} : mem'[v] = mem[v]
<1>1. Len(Code) \in Nat /\ i \in 1 .. Len(Code) /\ i \in Int /\ i + 1 \in 1 .. Len(Code)
  BY CodeLength
<1>2. Inst_ = Sw(s, imm, a) /\ Inst_ \in Instructions /\ Inst_ \in Inst
  BY <1>1, Here
<1>3. Inst_.op = "STORE" /\ Inst_.f = "SW" /\ Inst_.rs2 = s /\ Inst_.rs1 = a /\ Inst_.imm = imm
  BY <1>2 DEF Sw
<1>4. Store /\ ~Return /\ UNCHANGED suspended
  BY <1>3 DEF Continue, Return, Simple, Load, Branch, Jump, Mret
<1>5. EffAddr(regs, Inst_) = Plus(X(regs, a), imm) /\ EffAddr(regs, Inst_) \in Addr
  BY <1>2, <1>3, EffAddrType DEF EffAddr
<1>6. X(regs, s) \in Word
  BY XType
<1>7. mem' = StoreAt(mem, Plus(X(regs, a), imm), Inst_.f, X(regs, s))
  BY <1>3, <1>4, <1>5 DEF Store
<1>8. Plus(pc, 4) = At(i + 1)
  BY <1>1, NextAt
<1>9. UNCHANGED <<rip, mstatus>>
  BY <1>4, <1>5 DEF Store
<1> QED BY <1>2, <1>3, <1>4, <1>5, <1>6, <1>7, <1>8, <1>9, Stores_ DEF Store

LEMMA JumpStep ==
  ASSUME Typed, Loaded, Continue \/ Return, NEW i \in 1 .. Len(Code), pc = At(i),
         NEW d \in Int, i + d \in 1 .. Len(Code), Code[i] = Jump_(4 * d)
  PROVE  ~Return /\ pc' = At(i + d) /\ UNCHANGED <<regs, mem, rip, mstatus, mcause, suspended>>
<1>1. Inst_ = Jump_(4 * d)
  BY Here
<1>2. Inst_.op = "JAL" /\ Inst_.rd = 0 /\ Inst_.imm = 4 * d
  BY <1>1 DEF Jump_
<1>3. Jump /\ ~Return /\ UNCHANGED suspended
  BY <1>2 DEF Continue, Return, Simple, Load, Store, Branch, Mret
<1>4. UNCHANGED regs
  BY <1>2, <1>3 DEF Jump, WriteReg, Typed
<1>5. Plus(pc, 4 * d) = At(i + d)
  <2>1. Len(Code) \in Nat
    BY CodeLength
  <2>2. i \in Int
    BY <2>1
  <2> QED BY <2>2, Ahead
<1> QED BY <1>2, <1>3, <1>4, <1>5 DEF Jump

LEMMA MretStep ==
  ASSUME Typed, Loaded, Continue \/ Return, pc = At(MretAt), VECTOR_INT_TABLE_SIZE # 0
  PROVE  /\ Return /\ pc' = rip /\ mstatus' = SetMIE(mstatus)
         /\ UNCHANGED <<regs, mem, rip, mcause>>
<1>1. MretAt \in 1 .. Len(Code)
  BY Places, Numbers
<1>2. Inst_.op = "MRET"
  <2>1. Inst_ = Code[MretAt]
    BY <1>1, Here
  <2>2. Code[MretAt] = MretInst
    BY CodeAt
  <2>3. MretInst.op = "MRET"
    BY DEF MretInst
  <2> QED BY <2>1, <2>2, <2>3
<1> QED BY <1>2 DEF Continue, Return, Simple, Load, Store, Branch, Jump, Mret

-----------------------------------------------------------------------------
(* The program.                                                            *)
LEMMA ProgramAt ==
  ASSUME NEW i \in ProgramPlaces
  PROVE  /\ i \in 1 .. Len(Code) /\ i \in BodyAt + 1 .. Len(Code) /\ i \notin FramePlaces
         /\ ~(i <= NReg + 4) /\ \A r \in Nat : i \notin Restored + r + 1 .. MretAt
         /\ \A r \in 1 .. NReg : i > 3 + r
<1>1. CASE \E k \in 1 .. Len(Body) : i = BodyAt + k
  <2>1. i \in BodyAt + 1 .. Restored - 2
    BY <1>1, Places, Numbers
  <2> QED BY <2>1, Places, Numbers DEF FramePlaces
<1>2. CASE \E k \in 1 .. Len(Main) : i = EntryAt + k
  <2>1. i \in MretAt + 1 .. Len(Code)
    BY <1>2, Places, Numbers
  <2> QED BY <2>1, Places, Numbers DEF FramePlaces
<1> QED BY <1>1, <1>2 DEF ProgramPlaces

(* The main program begins behind _entry. *)
LEMMA MainAt == EntryAt + 1 \in ProgramPlaces
<1>1. 1 \in 1 .. Len(Main)
  BY Numbers
<1> QED BY <1>1 DEF ProgramPlaces

(* An instruction of the program, whatever it is. *)
LEMMA ProgramStep ==
  ASSUME AtProgram, Allowed, Continue \/ Return
  PROVE  /\ ~Return /\ Continue /\ UNCHANGED <<rip, mstatus, suspended>>
         /\ regs'[0] = regs[0]
<1>1. ~Return /\ Continue /\ UNCHANGED suspended
  BY DEF Allowed, Return, Mret, Continue
<1>2. UNCHANGED <<rip, mstatus>>
  <2>1. CASE Store
    BY <2>1 DEF Allowed, Store
  <2> QED BY <1>1, <2>1 DEF Continue, Simple, Load, Branch, Jump
<1>3. ASSUME NEW r, NEW v, WriteReg(r, v) PROVE regs'[0] = regs[0]
  BY <1>3, Numbers DEF WriteReg
<1>4. regs'[0] = regs[0]
  <2>1. CASE Simple
    BY <1>3, <2>1 DEF Simple
  <2>2. CASE Load
    BY <1>3, <2>2 DEF Load
  <2>3. CASE Jump
    BY <1>3, <2>3 DEF Jump
  <2> QED BY <1>1, <2>1, <2>2, <2>3 DEF Continue, Store, Branch
<1> QED BY <1>1, <1>2, <1>4

-----------------------------------------------------------------------------
(* The frame.                                                              *)
LEMMA FrameAt ==
  ASSUME NEW s, StackAt(s)
  PROVE  /\ s - Frame \in Word /\ s \in Word /\ Frame \in Nat
         /\ \A j \in 0 .. NReg + 1 :
              /\ Plus(s - Frame, 4 * j) = s - Frame + 4 * j
              /\ (s - Frame + 4 * j) % 4 = 0 /\ s - Frame + 4 * j >= SysSize
              /\ WordOf(s - Frame + 4 * j) = WordOf(s - Frame) + j
              /\ WordOf(s - Frame) + j \in FrameWords(s)
         /\ FrameWords(s) \subseteq RamWords /\ RamWords \subseteq WordIdx
<1>0. /\ s \in Nat /\ s < AddrSize /\ s % 4 = 0 /\ SysSize + 4 * (NReg + 2) <= s
      /\ FrameWords(s) \subseteq RamWords /\ Frame = 4 * (NReg + 2)
  BY Numbers DEF StackAt, Addr, Frame
<1>1. /\ Frame \in Int /\ Frame = 4 * (NReg + 2) /\ s \in Int /\ NReg \in Nat /\ AddrSize \in Nat
      /\ 0 <= s - Frame /\ SysSize <= s - Frame /\ s < AddrSize /\ AddrSize <= WordSize
  BY <1>0, Numbers
<1> DEFINE F == s - Frame
           m == NReg + 2
<1>2. m \in Int /\ Frame = 4 * m
  BY <1>1
<1>3. (s + 4 * (-m)) \div 4 = (s \div 4) + (-m) /\ (s + 4 * (-m)) % 4 = 0
  BY <1>0, <1>1, <1>2, ByFour
<1>4. s + 4 * (-m) = F
  BY <1>1, <1>2
<1>5. F % 4 = 0 /\ F \div 4 = (s \div 4) - m /\ F \in Int /\ 0 <= F
  BY <1>1, <1>2, <1>3, <1>4
<1>6. ASSUME NEW j \in 0 .. NReg + 1
      PROVE  /\ Plus(F, 4 * j) = F + 4 * j
             /\ (F + 4 * j) % 4 = 0 /\ F + 4 * j >= SysSize
             /\ WordOf(F + 4 * j) = WordOf(F) + j /\ WordOf(F) + j \in FrameWords(s)
  <2>1. F + 4 * j \in 0 .. AddrSize - 1 /\ F + 4 * j >= SysSize
    BY <1>1, <1>5, Numbers
  <2>2. \A x \in 0 .. AddrSize - 1 : x % AddrSize = x
    BY <1>1
  <2>3. (F + 4 * j) % 4 = 0 /\ (F + 4 * j) \div 4 = (F \div 4) + j
    BY <1>5, ByFour
  <2>4. (F \div 4) + j \in (F \div 4) .. (s \div 4) - 1
    BY <1>1, <1>5, Numbers
  <2> QED BY <2>1, <2>2, <2>3, <2>4 DEF Plus, WordOf, FrameWords
<1>7. F \in Word /\ s \in Word /\ Frame \in Nat
  BY <1>1, <1>5, Numbers DEF Word
<1> QED BY <1>0, <1>6, <1>7, SizesAssumption

LEMMA SavedAtSlot ==
  ASSUME NEW s, StackAt(s), NEW r \in 1 .. NReg
  PROVE  /\ Plus(s - Frame, Slot(r)) >= SysSize /\ Plus(s - Frame, Slot(r)) % 4 = 0
         /\ Plus(s - Frame, Slot(r)) \notin {REG_RIP, REG_MSTATUS}
         /\ WordOf(Plus(s - Frame, Slot(r))) = SavedAt(s, r) /\ SavedAt(s, r) \in FrameWords(s)
<1>1. r + 1 \in 0 .. NReg + 1 /\ Slot(r) = 4 * (r + 1)
  BY Numbers DEF Slot
<1>2. SavedAt(s, r) = WordOf(s - Frame) + (r + 1)
  <2>1. s - Frame \in Int
    BY Numbers, FrameAt DEF Word
  <2>2. WordOf(s - Frame) \in Int
    BY <2>1 DEF WordOf
  <2> QED BY <2>2 DEF SavedAt
<1> DEFINE p == Plus(s - Frame, Slot(r))
<1>3. p >= SysSize /\ p % 4 = 0 /\ WordOf(p) = SavedAt(s, r) /\ SavedAt(s, r) \in FrameWords(s)
      /\ p = s - Frame + 4 * (r + 1)
  BY <1>1, <1>2, FrameAt
<1> HIDE DEF p
<1>4. p # REG_RIP /\ p # REG_MSTATUS
  <2>1. p \in Int /\ p >= 32
    <3>1. s - Frame \in Int
      BY Numbers, FrameAt DEF Word
    <3>2. p \in Int
      BY <1>1, <1>3, <3>1
    <3> QED BY <1>3, <3>2, Numbers
  <2> QED BY <2>1 DEF REG_RIP, REG_MSTATUS
<1> QED BY <1>3, <1>4 DEF p

LEMMA SavedApart ==
  ASSUME NEW s, StackAt(s)
  PROVE  /\ \A r, q \in 1 .. NReg : r # q => SavedAt(s, r) # SavedAt(s, q)
         /\ \A r \in 1 .. NReg : /\ SavedAt(s, r) \in WordIdx /\ SavedAt(s, r) # 2
                                 /\ SavedAt(s, r) # WordOf(s - Frame)
                                 /\ SavedAt(s, r) # WordOf(s - Frame) + 1
<1>1. WordOf(s - Frame) \in Int /\ WordOf(s - Frame) >= 8
  <2>1. s - Frame \in Word /\ s - Frame + 4 * 0 >= SysSize
    BY Numbers, FrameAt
  <2> QED BY <2>1, Numbers DEF WordOf, Word
<1>2. \A r \in 1 .. NReg : SavedAt(s, r) \in WordIdx
  BY SavedAtSlot, FrameAt
<1> DEFINE w == WordOf(s - Frame)
<1>3. \A r \in 1 .. NReg : SavedAt(s, r) = w + r + 1
  BY DEF SavedAt
<1>4. w \in Int /\ w >= 8
  BY <1>1
<1> HIDE DEF w
<1>5. /\ \A r, q \in 1 .. NReg : r # q => w + r + 1 # w + q + 1
      /\ \A r \in 1 .. NReg : w + r + 1 # 2 /\ w + r + 1 # w /\ w + r + 1 # w + 1
  BY <1>4
<1>6. /\ \A r, q \in 1 .. NReg : r # q => SavedAt(s, r) # SavedAt(s, q)
      /\ \A r \in 1 .. NReg : SavedAt(s, r) # 2 /\ SavedAt(s, r) # w /\ SavedAt(s, r) # w + 1
  BY <1>3, <1>5
<1> USE DEF w
<1> QED BY <1>2, <1>6

-----------------------------------------------------------------------------
(* Interrupts.                                                             *)
LEMMA Enabled ==
  /\ MIE(MIE_bit) /\ ~MIE(0)
  /\ ClearMIE(MIE_bit) = 0 /\ SetMIE(0) = MIE_bit
  BY DEF MIE, MIE_bit, ClearMIE, SetMIE

LEMMA InterruptStep ==
  ASSUME Typed, Idle \/ Handling, NEW s \in Sources, Interrupt(s)
  PROVE  Handling'
<1>1. mstatus # 0
  BY Enabled DEF Interrupt, TakeInterrupt
<1>2. Idle
  BY <1>1 DEF Handling, InHandler
<1>3. InProgram(pc) /\ StackAt(regs[sp]) /\ suspended = <<>> /\ mstatus = MIE_bit
  BY <1>2 DEF Idle, Interrupt
<1>4. PICK S : S = [pc |-> pc, regs |-> regs]
  OBVIOUS
<1>5. S \in Snapshot /\ S.pc = pc /\ S.regs = regs
  BY <1>4 DEF Typed, Snapshot
<1>6. suspended' = <<S>>
  BY <1>4, <1>3 DEF Interrupt
<1>7. mstatus' = 0 /\ rip' = S.pc /\ regs' = regs /\ mem' = mem /\ pc' = RESET_VECTOR + 4
  BY <1>3, <1>5, Enabled DEF Interrupt, TakeInterrupt
<1>8. VECTOR_INT_TABLE_SIZE # 0
  BY SizesAssumption DEF Sources, Byte
<1>9. RESET_VECTOR + 4 = At(2)
  BY Numbers DEF At
<1>10. Stacked(2, S)' /\ Intact(2, S)' /\ Saved(2, S)'
  BY <1>3, <1>5, <1>7, Numbers DEF Stacked, Intact, Saved
<1>11. InHandler(2, S)'
  BY <1>3, <1>5, <1>6, <1>7, <1>8, <1>9, <1>10 DEF InHandler, InProgram
<1>12. 2 \in FramePlaces
  BY Places, Numbers DEF FramePlaces
<1> QED BY <1>5, <1>11, <1>12 DEF Handling

LEMMA IdleStep ==
  ASSUME Typed, Loaded, Idle, Allowed, Continue => Keeps, Continue \/ Return
  PROVE  Idle' /\ ~Return
<1>1. /\ EntryAt \in Nat /\ EntryAt >= 2 /\ Len(Code) = EntryAt + Len(Main) /\ Len(Main) >= 1
      /\ Len(Main) \in Nat
  BY Places, Numbers
<1>2. mstatus = MIE_bit /\ suspended = <<>>
  BY DEF Idle
<1>3. CASE pc = At(1) /\ regs[sp] = 0
  <2>1. 1 \in 1 .. Len(Code) /\ EntryAt - 1 \in Int /\ 1 + (EntryAt - 1) \in 1 .. Len(Code)
        /\ Code[1] = Jump_(4 * (EntryAt - 1))
    BY <1>1, CodeAt
  <2>2. ~Return /\ pc' = At(1 + (EntryAt - 1)) /\ UNCHANGED <<regs, mem, rip, mstatus, mcause, suspended>>
    BY <1>3, <2>1, JumpStep
  <2>3. 1 + (EntryAt - 1) = EntryAt
    BY <1>1
  <2> QED BY <1>2, <1>3, <2>2, <2>3 DEF Idle
<1>4. CASE pc = At(EntryAt) /\ regs[sp] = 0
  <2>1. /\ EntryAt \in 1 .. Len(Code) - 1 /\ sp \in Regs \ {0} /\ zero \in Regs
        /\ Code[EntryAt] = Addi(sp, zero, Stack)
    BY <1>1, CodeAt, Numbers DEF sp, zero
  <2>2. ~Return /\ pc' = At(EntryAt + 1) /\ UNCHANGED <<mstatus, suspended>>
        /\ regs'[sp] = (X(regs, zero) + Stack) % WordSize
    BY <1>4, <2>1, AddiStep
  <2>3. (X(regs, zero) + Stack) % WordSize = Stack
    BY Numbers DEF X, zero
  <2>4. InProgram(pc)'
    BY <2>2, MainAt DEF InProgram
  <2>5. StackAt(regs[sp])'
    BY <2>2, <2>3, HandlerAssumption
  <2> QED BY <1>2, <2>2, <2>4, <2>5 DEF Idle
<1>5. CASE InProgram(pc)
  <2>1. AtProgram
    BY <1>5 DEF InProgram, AtProgram
  <2>2. ~Return /\ Continue /\ UNCHANGED <<rip, mstatus, suspended>>
    BY <2>1, ProgramStep
  <2>3. AtProgram' /\ StackAt(regs'[sp])
    BY <1>2, <2>1, <2>2 DEF Keeps
  <2> QED BY <1>2, <2>2, <2>3 DEF Idle, InProgram, AtProgram
<1> QED BY <1>3, <1>4, <1>5 DEF Idle

-----------------------------------------------------------------------------
(* The handler, one instruction after the other.                           *)
LEMMA AllPlaces ==
  ASSUME NEW i \in FramePlaces
  PROVE  \/ i \in 2 .. 3 \/ \E r \in 1 .. NReg : i = 3 + r
         \/ i = NReg + 4 \/ i = NReg + 5 \/ i = NReg + 6 \/ i = NReg + 7
         \/ i = Restored - 1 \/ i = Restored \/ \E r \in 1 .. NReg : i = Restored + r
         \/ i = MretAt - 1 \/ i = MretAt
<1>1. \/ i \in 2 .. 3 \/ i - 3 \in 1 .. NReg
      \/ i = NReg + 4 \/ i = NReg + 5 \/ i = NReg + 6 \/ i = NReg + 7
      \/ i = Restored - 1 \/ i = Restored \/ i - Restored \in 1 .. NReg
      \/ i = MretAt - 1 \/ i = MretAt
  BY Places, Numbers DEF FramePlaces
<1>2. i \in Int /\ Restored \in Int
  BY Places DEF FramePlaces
<1>3. i = 3 + (i - 3) /\ i = Restored + (i - Restored)
  BY <1>2
<1> QED BY <1>1, <1>3

LEMMA Arrives ==
  ASSUME NEW S, NEW i, NEW j, InHandler(i, S), UNCHANGED <<rip, mstatus, suspended>>,
         pc' = At(j), Stacked(j, S)', Intact(j, S)', Saved(j, S)'
  PROVE  InHandler(j, S)'
  BY DEF InHandler

(* While the frame is up only x0 is known not to have changed, and what    *)
(* has been restored; the words of the frame are as they were saved.       *)
LEMMA Enters ==
  ASSUME Typed, Loaded, Continue \/ Return, NEW S \in Snapshot, NEW i \in 2 .. 3, InHandler(i, S)
  PROVE  ~Return /\ InHandler(i + 1, S)'
<1>1. pc = At(i) /\ Stacked(i, S) /\ Intact(i, S) /\ Saved(i, S)
  BY DEF InHandler
<1>2. Saved(i + 1, S)'
  <2>1. \A r \in 1 .. NReg : ~(i + 1 > 3 + r)
    <3>1. NReg \in Nat
      BY Numbers
    <3> QED BY <3>1
  <2> QED BY <2>1 DEF Saved
<1>3. CASE i = 2
  <2>1. i \in 1 .. Len(Code) /\ 1 \in Int /\ i + 1 \in 1 .. Len(Code) /\ Code[i] = Jump_(4 * 1)
    <3>1. 4 * 1 = 4 /\ i \in 1 .. Len(Code) /\ i + 1 \in 1 .. Len(Code)
      BY <1>3, Places, Numbers
    <3> QED BY <1>3, <3>1, CodeAt
  <2>2. ~Return /\ pc' = At(i + 1) /\ UNCHANGED <<regs, mem, rip, mstatus, mcause, suspended>>
    BY <1>1, <2>1, JumpStep
  <2>3. Stacked(i + 1, S)'
    <3>1. i \in FramePlaces /\ i \notin 4 .. MretAt - 1 /\ i + 1 \notin 4 .. MretAt - 1
      BY <1>3, Places, Numbers DEF FramePlaces
    <3> QED BY <1>1, <2>2, <3>1 DEF Stacked
  <2>4. Intact(i + 1, S)'
    BY <1>1, <1>3, <2>2, Numbers DEF Intact
  <2> QED BY <1>2, <2>2, <2>3, <2>4, Arrives
<1>4. CASE i = 3
  <2>1. i \in 1 .. Len(Code) - 1 /\ sp \in Regs \ {0} /\ sp \in Regs /\ Code[i] = Addi(sp, sp, -Frame)
    <3>1. i \in 1 .. Len(Code) - 1 /\ sp \in Regs \ {0}
      BY <1>4, Places, Numbers DEF sp
    <3>2. Code[i] = Addi(sp, sp, -Frame)
      BY <1>4, CodeAt
    <3> QED BY <3>1, <3>2
  <2>2. /\ ~Return /\ pc' = At(i + 1) /\ UNCHANGED <<mem, rip, mstatus, mcause, suspended>>
        /\ regs'[sp] = (X(regs, sp) + -Frame) % WordSize
        /\ \A q \in Regs \ {sp} : regs'[q] = regs[q]
    BY <1>1, <2>1, AddiStep
  <2>3. X(regs, sp) = S.regs[sp]
    <3>1. i \in FramePlaces /\ i \notin 4 .. MretAt - 1
      BY <1>4, Places, Numbers DEF FramePlaces
    <3> QED BY <1>1, <3>1 DEF Stacked, X, sp
  <2>4. (S.regs[sp] + -Frame) % WordSize = S.regs[sp] - Frame
    <3> DEFINE s == S.regs[sp]
    <3>1. s - Frame \in Word /\ s \in Word /\ Frame \in Nat
      BY FrameAt DEF InHandler
    <3> HIDE DEF s
    <3>2. s + -Frame = s - Frame
      BY <3>1 DEF Word
    <3>3. \A x \in Word : x % WordSize = x
      BY Numbers DEF Word
    <3>4. (s + -Frame) % WordSize = s - Frame
      BY <3>1, <3>2, <3>3
    <3> QED BY <3>4 DEF s
  <2>5. Stacked(i + 1, S)'
    <3>1. i + 1 \in 4 .. MretAt - 1
      BY <1>4, Places, Numbers
    <3> QED BY <2>2, <2>3, <2>4, <3>1 DEF Stacked
  <2>6. Intact(i + 1, S)'
    BY <1>1, <1>4, <2>2, Places, Numbers DEF Intact
  <2> QED BY <1>2, <2>2, <2>5, <2>6, Arrives
<1> QED BY <1>3, <1>4

LEMMA Saves ==
  ASSUME Typed, Loaded, Continue \/ Return, NEW S \in Snapshot, NEW r \in 1 .. NReg,
         InHandler(3 + r, S)
  PROVE  ~Return /\ InHandler(3 + r + 1, S)'
<1> DEFINE i == 3 + r
           p == Plus(X(regs, sp), Slot(r))
<1>1. pc = At(i) /\ Stacked(i, S) /\ Intact(i, S) /\ Saved(i, S)
  BY DEF InHandler
<1>2. i \in 1 .. Len(Code) - 1 /\ i \in 4 .. MretAt - 2 /\ i <= NReg + 3 /\ r \in Regs /\ sp \in Regs
      /\ Slot(r) \in Int /\ Code[i] = Sw(r, Slot(r), sp)
  <2>1. Code[i] = Sw(r, Slot(r), sp)
    BY CodeAt
  <2>2. /\ i \in 1 .. Len(Code) - 1 /\ i \in 4 .. MretAt - 2 /\ i <= NReg + 3 /\ r \in Regs /\ sp \in Regs
        /\ Slot(r) \in Int
    BY Places, Numbers DEF sp, Slot
  <2> QED BY <2>1, <2>2
<1>3. X(regs, sp) = S.regs[sp] - Frame /\ regs[sp] = S.regs[sp] - Frame
  <2>1. i \in 4 .. MretAt - 1 /\ i \in FramePlaces
    BY <1>2, Places, Numbers DEF FramePlaces
  <2> QED BY <1>1, <2>1 DEF Stacked, X, sp
<1>4. p \notin {REG_RIP, REG_MSTATUS} /\ p % 4 = 0 /\ WordOf(p) = SavedAt(S.regs[sp], r) /\ SavedAt(S.regs[sp], r) \in RamWords
  BY <1>3, SavedAtSlot, FrameAt DEF InHandler
<1> HIDE DEF i, p
<1>5. /\ ~Return /\ pc' = At(i + 1) /\ UNCHANGED <<regs, rip, mstatus, mcause, suspended>>
      /\ mem'[SavedAt(S.regs[sp], r)] = X(regs, r)
      /\ \A v \in WordIdx \ {SavedAt(S.regs[sp], r)} : mem'[v] = mem[v]
  <2>1. /\ ~Return /\ pc' = At(i + 1) /\ UNCHANGED <<regs, rip, mstatus, mcause, suspended>>
        /\ WordOf(p) \in RamWords => mem'[WordOf(p)] = X(regs, r)
        /\ \A v \in WordIdx \ {WordOf(p)} : mem'[v] = mem[v]
    BY <1>1, <1>2, <1>4, SwStep DEF p
  <2> QED BY <1>4, <2>1
<1>6. X(regs, r) = IF r = sp THEN S.regs[sp] - Frame ELSE S.regs[r]
  BY <1>1, <1>2, <1>3, Numbers DEF X, Intact, i
<1>7. Saved(i + 1, S)'
  <2> SUFFICES ASSUME NEW q \in 1 .. NReg, i + 1 > 3 + q
               PROVE  mem'[SavedAt(S.regs[sp], q)] = IF q = sp THEN S.regs[sp] - Frame ELSE S.regs[q]
    BY DEF Saved
  <2>1. CASE q = r
    BY <1>5, <1>6, <2>1
  <2>2. CASE q # r
    <3>1. i > 3 + q
      BY <2>2 DEF i
    <3>2. SavedAt(S.regs[sp], q) \in WordIdx \ {SavedAt(S.regs[sp], r)}
      BY <2>2, SavedApart DEF InHandler
    <3> QED BY <1>1, <1>5, <3>1, <3>2 DEF Saved
  <2> QED BY <2>1, <2>2
<1>8. Stacked(i + 1, S)' /\ Intact(i + 1, S)'
  <2>1. i + 1 \in 4 .. MretAt - 1 /\ \A q \in Regs : i + 1 \notin Restored + q + 1 .. MretAt
    BY <1>2, Places, Numbers
  <2>2. i + 1 <= NReg + 4 /\ i <= NReg + 4
    BY <1>2, Numbers
  <2>3. Stacked(i + 1, S)'
    BY <1>3, <1>5, <2>1 DEF Stacked
  <2> QED BY <1>1, <1>5, <2>1, <2>2, <2>3 DEF Intact
<1>9. InHandler(i, S)
  BY DEF i
<1>10. InHandler(i + 1, S)'
  BY <1>5, <1>7, <1>8, <1>9, Arrives
<1> QED BY <1>5, <1>10 DEF i

(* A load into t1, in the middle of the handler. *)
LEMMA Fetches ==
  ASSUME Typed, Loaded, Continue \/ Return, NEW S, NEW i \in FramePlaces, i \in NReg + 4 .. Restored - 1,
         InHandler(i, S), NEW a \in {zero, sp}, NEW imm \in Int, Code[i] = Lw(t1, imm, a)
  PROVE  ~Return /\ InHandler(i + 1, S)'
<1>1. pc = At(i) /\ Stacked(i, S) /\ Intact(i, S) /\ Saved(i, S) /\ mstatus \in {0, MIE_bit}
  BY DEF InHandler
<1>2. i \in 1 .. Len(Code) - 1 /\ i \in 4 .. MretAt - 1 /\ i + 1 \in 4 .. MretAt - 1
      /\ \A q \in Regs : i + 1 \notin Restored + q + 1 .. MretAt \/ q = 0
  BY Places, Numbers
<1>3. t1 \in Regs \ {0} /\ a \in Regs /\ t1 # sp /\ sp \in Regs /\ 0 \in Regs
  BY Numbers DEF sp, zero
<1>4. /\ ~Return /\ pc' = At(i + 1) /\ UNCHANGED <<mem, rip, mstatus, mcause, suspended>>
      /\ \A q \in Regs \ {t1} : regs'[q] = regs[q]
  BY <1>1, <1>2, <1>3, LwStep
<1>5. Stacked(i + 1, S)'
  BY <1>1, <1>2, <1>3, <1>4 DEF Stacked
<1>6. Intact(i + 1, S)'
  <2>1. ~(i + 1 <= NReg + 4)
    BY Places, Numbers
  <2> QED BY <1>1, <1>2, <1>3, <1>4, <2>1 DEF Intact
<1>7. Saved(i + 1, S)'
  <2>1. \A q \in 1 .. NReg : i > 3 + q
    BY Places, Numbers
  <2> QED BY <1>1, <1>4, <2>1 DEF Saved
<1> QED BY <1>4, <1>5, <1>6, <1>7, Arrives

(* A store of t1 beside the saved registers, likewise. *)
LEMMA Notes ==
  ASSUME Typed, Loaded, Continue \/ Return, NEW S, NEW i \in FramePlaces, i \in NReg + 4 .. Restored,
         InHandler(i, S), NEW a \in {zero, sp}, NEW imm \in Int, Code[i] = Sw(t1, imm, a),
         Plus(X(regs, a), imm) \notin {REG_RIP, REG_MSTATUS}, Plus(X(regs, a), imm) % 4 = 0,
         \A q \in 1 .. NReg : SavedAt(S.regs[sp], q) # WordOf(Plus(X(regs, a), imm))
  PROVE  ~Return /\ InHandler(i + 1, S)'
<1>1. pc = At(i) /\ Stacked(i, S) /\ Intact(i, S) /\ Saved(i, S)
  BY DEF InHandler
<1>2. i \in 1 .. Len(Code) - 1 /\ i \in 4 .. MretAt - 1 /\ i + 1 \in 4 .. MretAt - 1
      /\ \A q \in Regs : i + 1 \notin Restored + q + 1 .. MretAt \/ q = 0
  BY Places, Numbers
<1>3. t1 \in Regs /\ a \in Regs /\ sp \in Regs /\ 0 \in Regs
  BY Numbers DEF sp, zero
<1>4. /\ ~Return /\ pc' = At(i + 1) /\ UNCHANGED <<regs, rip, mstatus, mcause, suspended>>
      /\ \A v \in WordIdx \ {WordOf(Plus(X(regs, a), imm))} : mem'[v] = mem[v]
  BY <1>1, <1>2, <1>3, SwStep
<1>5. Stacked(i + 1, S)'
  BY <1>1, <1>2, <1>4 DEF Stacked
<1>6. Intact(i + 1, S)'
  <2>1. ~(i + 1 <= NReg + 4)
    BY Places, Numbers
  <2> QED BY <1>1, <1>2, <1>3, <1>4, <2>1 DEF Intact
<1>7. Saved(i + 1, S)'
  <2>1. \A q \in 1 .. NReg : i > 3 + q
    BY Places, Numbers
  <2>2. \A q \in 1 .. NReg : mem'[SavedAt(S.regs[sp], q)] = mem[SavedAt(S.regs[sp], q)]
    BY <1>4, SavedApart DEF InHandler
  <2> QED BY <1>1, <2>1, <2>2 DEF Saved
<1> QED BY <1>4, <1>5, <1>6, <1>7, Arrives

(* Where the cause and the return address go: beside the registers. *)
LEMMA NotedAt ==
  ASSUME NEW S, NEW i \in FramePlaces, i \in 4 .. MretAt - 1, InHandler(i, S)
  PROVE  /\ X(regs, sp) = S.regs[sp] - Frame /\ regs[sp] = S.regs[sp] - Frame
         /\ \A n \in {0, 4} : LET p == Plus(X(regs, sp), n)
                              IN /\ p \notin {REG_RIP, REG_MSTATUS} /\ p % 4 = 0
                                 /\ \A q \in 1 .. NReg : SavedAt(S.regs[sp], q) # WordOf(p)
<1>1. regs[sp] = S.regs[sp] - Frame /\ X(regs, sp) = S.regs[sp] - Frame
  BY DEF InHandler, Stacked, X, sp
<1>2. /\ Plus(S.regs[sp] - Frame, 4 * 0) = S.regs[sp] - Frame + 4 * 0
      /\ Plus(S.regs[sp] - Frame, 4 * 1) = S.regs[sp] - Frame + 4 * 1
      /\ (S.regs[sp] - Frame + 4 * 0) % 4 = 0 /\ S.regs[sp] - Frame + 4 * 0 >= SysSize
      /\ (S.regs[sp] - Frame + 4 * 1) % 4 = 0 /\ S.regs[sp] - Frame + 4 * 1 >= SysSize
      /\ WordOf(S.regs[sp] - Frame + 4 * 0) = WordOf(S.regs[sp] - Frame) + 0
      /\ WordOf(S.regs[sp] - Frame + 4 * 1) = WordOf(S.regs[sp] - Frame) + 1
  <2>1. 0 \in 0 .. NReg + 1 /\ 1 \in 0 .. NReg + 1
    BY Numbers
  <2> QED BY <2>1, FrameAt DEF InHandler
<1>3. 4 * 0 = 0 /\ 4 * 1 = 4 /\ S.regs[sp] - Frame \in Int
      /\ WordOf(S.regs[sp] - Frame) + 0 = WordOf(S.regs[sp] - Frame)
  BY FrameAt DEF InHandler, Word, WordOf
<1> DEFINE F == S.regs[sp] - Frame
<1>4. Plus(F, 0) = F /\ F % 4 = 0 /\ F >= SysSize
  BY <1>2, <1>3
<1>5. Plus(F, 4) = F + 4 /\ (F + 4) % 4 = 0 /\ F + 4 >= SysSize /\ WordOf(F + 4) = WordOf(F) + 1
  BY <1>2, <1>3
<1> HIDE DEF F
<1>6. F # 0 /\ F # 2 /\ F + 4 # 0 /\ F + 4 # 2
  BY <1>3, <1>4, <1>5, Numbers DEF F
<1>7. \A q \in 1 .. NReg : SavedAt(S.regs[sp], q) # WordOf(F) /\ SavedAt(S.regs[sp], q) # WordOf(F + 4)
  BY <1>5, SavedApart DEF F, InHandler
<1>8. X(regs, sp) = F
  BY <1>1 DEF F
<1> QED BY <1>1, <1>4, <1>5, <1>6, <1>7, <1>8 DEF REG_RIP, REG_MSTATUS

LEMMA Works ==
  ASSUME Typed, Loaded, Allowed, Continue => Keeps, Continue \/ Return,
         NEW S \in Snapshot, NEW i \in ProgramPlaces, InHandler(i, S)
  PROVE  ~Return /\ \E j \in FramePlaces \cup ProgramPlaces : InHandler(j, S)'
<1>1. /\ pc = At(i) /\ Intact(i, S) /\ Saved(i, S) /\ suspended = <<S>> /\ StackAt(S.regs[sp])
  BY DEF InHandler
<1>2. AtProgram
  BY <1>1 DEF AtProgram
<1>3. /\ ~Return /\ Continue /\ UNCHANGED <<rip, mstatus, suspended>>
      /\ regs'[0] = regs[0]
  BY <1>2, ProgramStep
<1>4. /\ \A w \in FrameWords(S.regs[sp]) : mem'[w] = mem[w]
      /\ AtProgram' \/ (pc' = At(Restored - 1) /\ regs'[sp] = S.regs[sp] - Frame)
  <2>1. suspended # <<>> /\ Head(suspended) = S
    BY <1>1
  <2> QED BY <1>2, <1>3, <2>1 DEF Keeps
<1>5. \A r \in 1 .. NReg : i > 3 + r
  BY ProgramAt
<1>6. \A r \in 1 .. NReg :
        mem'[SavedAt(S.regs[sp], r)] = IF r = sp THEN S.regs[sp] - Frame ELSE S.regs[r]
  BY <1>1, <1>4, <1>5, SavedAtSlot DEF Saved
<1>7. \A j : Saved(j, S)'
  BY <1>6 DEF Saved
<1>8. 0 \in Regs \ {sp} /\ regs'[0] = S.regs[0]
  BY <1>1, <1>3, Numbers DEF Intact, sp
<1>9. CASE AtProgram'
  <2>1. PICK j \in ProgramPlaces : pc' = At(j)
    BY <1>9 DEF AtProgram
  <2>2. Stacked(j, S)'
    BY ProgramAt DEF Stacked
  <2>3. Intact(j, S)'
    <3>1. ~(j <= NReg + 4) /\ \A r \in Regs : j \notin Restored + r + 1 .. MretAt
      BY ProgramAt, Numbers
    <3> QED BY <1>8, <3>1 DEF Intact
  <2>4. InHandler(j, S)'
    BY <1>3, <1>7, <2>1, <2>2, <2>3, Arrives
  <2> QED BY <1>3, <2>4
<1>10. CASE pc' = At(Restored - 1) /\ regs'[sp] = S.regs[sp] - Frame
  <2>1. /\ Restored - 1 \in FramePlaces /\ Restored - 1 \in 4 .. MretAt - 1
        /\ ~(Restored - 1 <= NReg + 4)
        /\ \A r \in Regs : Restored - 1 \notin Restored + r + 1 .. MretAt
    BY Places, Numbers DEF FramePlaces
  <2>2. Stacked(Restored - 1, S)'
    BY <1>10, <2>1 DEF Stacked
  <2>3. Intact(Restored - 1, S)'
    BY <1>8, <2>1 DEF Intact
  <2>4. InHandler(Restored - 1, S)'
    BY <1>3, <1>7, <1>10, <2>2, <2>3, Arrives
  <2> QED BY <1>3, <2>1, <2>4
<1> QED BY <1>4, <1>9, <1>10

LEMMA Restores ==
  ASSUME Typed, Loaded, Continue \/ Return, NEW S \in Snapshot, NEW r \in 1 .. NReg,
         InHandler(Restored + r, S)
  PROVE  ~Return /\ InHandler(Restored + r + 1, S)'
<1> DEFINE i == Restored + r
           p == Plus(X(regs, sp), Slot(r))
<1>1. /\ pc = At(i) /\ Intact(i, S) /\ Saved(i, S) /\ mstatus \in {0, MIE_bit}
      /\ StackAt(S.regs[sp])
  BY DEF InHandler
<1>2. /\ i \in 1 .. Len(Code) - 1 /\ i \in 4 .. MretAt - 2 /\ i + 1 \in 4 .. MretAt - 1
      /\ r \in Regs \ {0} /\ sp \in Regs /\ Slot(r) \in Int
      /\ ~(i + 1 <= NReg + 4) /\ \A q \in 1 .. NReg : i > 3 + q
      /\ \A q \in Regs \ {r} :
           i + 1 \in Restored + q + 1 .. MretAt => i \in Restored + q + 1 .. MretAt
  BY Places, Numbers DEF sp, Slot
<1>3. Code[i] = Lw(r, Slot(r), sp)
  BY CodeAt
<1>4. i \in 4 .. MretAt - 1 /\ i \in FramePlaces
  BY <1>2, Places, Numbers DEF FramePlaces
<1>5. regs[sp] = S.regs[sp] - Frame /\ X(regs, sp) = S.regs[sp] - Frame
  BY <1>4, NotedAt
<1>6. p >= SysSize /\ WordOf(p) = SavedAt(S.regs[sp], r)
  BY <1>1, <1>5, SavedAtSlot
<1>7. InHandler(i, S)
  OBVIOUS
<1> HIDE DEF i, p
<1>8. /\ ~Return /\ pc' = At(i + 1) /\ UNCHANGED <<mem, rip, mstatus, mcause, suspended>>
      /\ regs'[r] = mem[SavedAt(S.regs[sp], r)] /\ \A q \in Regs \ {r} : regs'[q] = regs[q]
  <2>1. /\ pc = At(i) /\ mstatus \in {0, MIE_bit} /\ i \in 1 .. Len(Code) - 1
        /\ r \in Regs \ {0} /\ sp \in Regs /\ Slot(r) \in Int /\ Code[i] = Lw(r, Slot(r), sp)
    BY <1>1, <1>2, <1>3
  <2>2. Plus(X(regs, sp), Slot(r)) >= SysSize /\ WordOf(Plus(X(regs, sp), Slot(r))) = SavedAt(S.regs[sp], r)
    BY <1>6 DEF p
  <2>3. /\ ~Return /\ pc' = At(i + 1) /\ UNCHANGED <<mem, rip, mstatus, mcause, suspended>>
        /\ regs'[r] = mem[WordOf(Plus(X(regs, sp), Slot(r)))]
        /\ \A q \in Regs \ {r} : regs'[q] = regs[q]
    BY <2>1, <2>2, LwStep
  <2> QED BY <2>2, <2>3
<1>9. regs'[r] = IF r = sp THEN S.regs[sp] - Frame ELSE S.regs[r]
  BY <1>1, <1>2, <1>8 DEF Saved
<1>10. Stacked(i + 1, S)'
  <2>1. regs'[sp] = S.regs[sp] - Frame
    BY <1>2, <1>5, <1>8, <1>9
  <2> QED BY <1>2, <2>1 DEF Stacked
<1>11. Intact(i + 1, S)'
  <2> SUFFICES ASSUME NEW q \in Regs \ {sp}, q = 0 \/ i + 1 <= NReg + 4 \/ i + 1 \in Restored + q + 1 .. MretAt
               PROVE  regs'[q] = S.regs[q]
    BY DEF Intact
  <2>1. CASE q = r
    BY <1>9, <2>1
  <2>2. CASE q # r
    BY <1>1, <1>2, <1>8, <2>2 DEF Intact
  <2> QED BY <2>1, <2>2
<1>12. Saved(i + 1, S)'
  BY <1>1, <1>2, <1>8 DEF Saved
<1>13. InHandler(i + 1, S)'
  BY <1>7, <1>8, <1>10, <1>11, <1>12, Arrives
<1> QED BY <1>8, <1>13 DEF i

LEMMA Leaves ==
  ASSUME Typed, Loaded, Continue \/ Return, NEW S \in Snapshot, InHandler(MretAt - 1, S)
  PROVE  ~Return /\ InHandler(MretAt, S)'
<1> DEFINE i == MretAt - 1
<1>1. pc = At(i) /\ Intact(i, S) /\ Saved(i, S)
  BY DEF InHandler
<1>2. /\ i \in 1 .. Len(Code) - 1 /\ i \in 4 .. MretAt - 1 /\ i + 1 = MretAt
      /\ sp \in Regs \ {0} /\ sp \in Regs
      /\ ~(MretAt <= NReg + 4) /\ \A q \in 1 .. NReg : i > 3 + q
      /\ \A q \in Regs : i \in Restored + q + 1 .. MretAt
      /\ MretAt \notin 4 .. MretAt - 1 /\ i \in FramePlaces /\ MretAt \in FramePlaces
  BY Places, Numbers DEF sp, FramePlaces
<1>3. Code[i] = Addi(sp, sp, Frame)
  BY CodeAt
<1>4. X(regs, sp) = S.regs[sp] - Frame
  BY <1>2, NotedAt
<1>5. InHandler(i, S)
  OBVIOUS
<1> HIDE DEF i
<1>6. /\ ~Return /\ pc' = At(i + 1) /\ UNCHANGED <<mem, rip, mstatus, mcause, suspended>>
      /\ regs'[sp] = (X(regs, sp) + Frame) % WordSize
      /\ \A q \in Regs \ {sp} : regs'[q] = regs[q]
  BY <1>1, <1>2, <1>3, AddiStep
<1>7. regs'[sp] = S.regs[sp]
  <2> DEFINE s == S.regs[sp]
  <2>1. \A x \in Word : x % WordSize = x
    BY Numbers DEF Word
  <2>2. s - Frame \in Word /\ s \in Word /\ Frame \in Nat
    BY <1>5, FrameAt DEF InHandler
  <2> HIDE DEF s
  <2>3. s - Frame + Frame = s
    BY <2>2 DEF Word
  <2>4. (s - Frame + Frame) % WordSize = s
    BY <2>1, <2>2, <2>3
  <2> QED BY <1>4, <1>6, <2>4 DEF s
<1>8. Stacked(MretAt, S)' /\ Intact(MretAt, S)' /\ Saved(MretAt, S)'
  BY <1>1, <1>2, <1>6, <1>7 DEF Stacked, Intact, Saved
<1> QED BY <1>2, <1>5, <1>6, <1>8, Arrives

LEMMA HandlerStep ==
  ASSUME Typed, Loaded, Allowed, Continue => Keeps, Continue \/ Return,
         NEW S \in Snapshot, NEW i \in FramePlaces \cup ProgramPlaces, i # MretAt, InHandler(i, S)
  PROVE  ~Return /\ \E j \in FramePlaces \cup ProgramPlaces : InHandler(j, S)'
<1>0. CASE i \in ProgramPlaces
  BY <1>0, Works
<1> SUFFICES ASSUME i \in FramePlaces
             PROVE  ~Return /\ \E j \in FramePlaces \cup ProgramPlaces : InHandler(j, S)'
  BY <1>0
<1>1. \/ i \in 2 .. 3 \/ \E r \in 1 .. NReg : i = 3 + r
      \/ i = NReg + 4 \/ i = NReg + 5 \/ i = NReg + 6 \/ i = NReg + 7
      \/ i = Restored - 1 \/ i = Restored \/ \E r \in 1 .. NReg : i = Restored + r
      \/ i = MretAt - 1
  BY AllPlaces
<1>2. /\ i + 1 \in FramePlaces \cup ProgramPlaces
      /\ i \in Int /\ 20 \in Int /\ 8 \in Int /\ 4 \in Int /\ 0 \in Int
      /\ zero \in {zero, sp} /\ sp \in {zero, sp}
  <2>1. i + 1 \in FramePlaces \/ (i = BodyAt /\ Len(Body) >= 1)
    BY Places, Numbers DEF FramePlaces
  <2>2. Len(Body) >= 1 => BodyAt + 1 \in ProgramPlaces
    <3>1. Len(Body) >= 1 => 1 \in 1 .. Len(Body)
      BY Numbers
    <3> QED BY <3>1 DEF ProgramPlaces
  <2>3. i \in Int
    BY Places DEF FramePlaces
  <2> QED BY <2>1, <2>2, <2>3
<1>3. CASE i \in 2 .. 3
  BY <1>2, <1>3, Enters
<1>4. CASE \E r \in 1 .. NReg : i = 3 + r
  BY <1>2, <1>4, Saves
<1>5. CASE i = NReg + 4
  <2>1. i \in NReg + 4 .. Restored - 1
    BY <1>5, Places, Numbers
  <2>2. Code[i] = Lw(t1, 20, zero)
    BY <1>5, CodeAt
  <2> QED BY <1>2, <2>1, <2>2, Fetches
<1>6. CASE i = NReg + 6
  <2>1. i \in NReg + 4 .. Restored - 1
    BY <1>6, Places, Numbers
  <2>2. Code[i] = Lw(t1, 8, zero)
    BY <1>6, CodeAt
  <2> QED BY <1>2, <2>1, <2>2, Fetches
<1>7. CASE i = Restored - 1
  <2>1. i \in NReg + 4 .. Restored - 1
    BY <1>7, Places, Numbers
  <2>2. Code[i] = Lw(t1, 0, sp)
    BY <1>7, CodeAt
  <2> QED BY <1>2, <2>1, <2>2, Fetches
<1>8. CASE i = NReg + 5
  <2>1. i \in NReg + 4 .. Restored /\ i \in 4 .. MretAt - 1
    BY <1>8, Places, Numbers
  <2>2. Code[i] = Sw(t1, 4, sp)
    BY <1>8, CodeAt
  <2>3. /\ Plus(X(regs, sp), 4) \notin {REG_RIP, REG_MSTATUS} /\ Plus(X(regs, sp), 4) % 4 = 0
        /\ \A q \in 1 .. NReg : SavedAt(S.regs[sp], q) # WordOf(Plus(X(regs, sp), 4))
    BY <2>1, NotedAt
  <2> QED BY <1>2, <2>1, <2>2, <2>3, Notes
<1>9. CASE i = NReg + 7
  <2>1. i \in NReg + 4 .. Restored /\ i \in 4 .. MretAt - 1
    BY <1>9, Places, Numbers
  <2>2. Code[i] = Sw(t1, 0, sp)
    BY <1>9, CodeAt
  <2>3. /\ Plus(X(regs, sp), 0) \notin {REG_RIP, REG_MSTATUS} /\ Plus(X(regs, sp), 0) % 4 = 0
        /\ \A q \in 1 .. NReg : SavedAt(S.regs[sp], q) # WordOf(Plus(X(regs, sp), 0))
    BY <2>1, NotedAt
  <2> QED BY <1>2, <2>1, <2>2, <2>3, Notes
<1>10. CASE i = Restored
  <2>1. i \in NReg + 4 .. Restored /\ i \in 4 .. MretAt - 1
    BY <1>10, Places, Numbers
  <2>2. Code[i] = Sw(t1, 8, zero)
    BY <1>10, CodeAt
  <2>3. Plus(X(regs, zero), 8) = 8
    BY Numbers DEF X, zero, Plus
  <2>4. /\ Plus(X(regs, zero), 8) \notin {REG_RIP, REG_MSTATUS} /\ Plus(X(regs, zero), 8) % 4 = 0
        /\ \A q \in 1 .. NReg : SavedAt(S.regs[sp], q) # WordOf(Plus(X(regs, zero), 8))
    BY <2>3, SavedApart DEF InHandler, REG_RIP, REG_MSTATUS, WordOf
  <2> QED BY <1>2, <2>1, <2>2, <2>4, Notes
<1>12. CASE \E r \in 1 .. NReg : i = Restored + r
  BY <1>2, <1>12, Restores
<1>13. CASE i = MretAt - 1
  <2>1. MretAt \in FramePlaces
    BY Places, Numbers DEF FramePlaces
  <2> QED BY <1>13, <2>1, Leaves
<1> QED BY <1>1, <1>3, <1>4, <1>5, <1>6, <1>7, <1>8, <1>9, <1>10, <1>12, <1>13

(* At the mret everything is back. *)
LEMMA Resumes ==
  ASSUME Typed, Loaded, Continue \/ Return, NEW S \in Snapshot, InHandler(MretAt, S)
  PROVE  /\ Return /\ suspended # <<>> /\ pc' = Head(suspended).pc
         /\ regs = Head(suspended).regs /\ Idle'
<1>1. /\ pc = At(MretAt) /\ VECTOR_INT_TABLE_SIZE # 0 /\ suspended = <<S>> /\ mstatus = 0
      /\ rip = S.pc /\ InProgram(S.pc) /\ StackAt(S.regs[sp])
      /\ Stacked(MretAt, S) /\ Intact(MretAt, S)
  BY DEF InHandler
<1>2. Return /\ pc' = rip /\ mstatus' = SetMIE(mstatus) /\ UNCHANGED <<regs, mem, rip, mcause>>
  BY <1>1, MretStep
<1>3. Head(suspended) = S /\ suspended # <<>> /\ Tail(suspended) = <<>>
  BY <1>1
<1>4. regs = S.regs
  <2>1. \A q \in Regs : MretAt \in Restored + q + 1 .. MretAt
    BY Places, Numbers
  <2>2. regs[sp] = S.regs[sp]
    <3>1. MretAt \in FramePlaces /\ MretAt \notin 4 .. MretAt - 1
      BY Places, Numbers DEF FramePlaces
    <3> QED BY <1>1, <3>1 DEF Stacked
  <2>3. \A q \in Regs : regs[q] = S.regs[q]
    BY <1>1, <2>1, <2>2 DEF Intact
  <2> QED BY <2>3 DEF Typed, Snapshot
<1>5. suspended' = <<>> /\ mstatus' = MIE_bit
  BY <1>1, <1>2, <1>3, Enabled DEF Return
<1>6. InProgram(pc)' /\ StackAt(regs[sp])'
  <2>1. pc' = S.pc /\ regs' = S.regs
    BY <1>1, <1>2, <1>4
  <2> QED BY <1>1, <2>1 DEF InProgram
<1> QED BY <1>1, <1>2, <1>3, <1>4, <1>5, <1>6 DEF Idle

-----------------------------------------------------------------------------
LEMMA Kinds ==
  /\ \A imm : Jump_(imm).op = "JAL" /\ MretInst.op = "MRET"
  /\ \A r, a, imm : /\ Addi(r, a, imm).op = "OP" /\ Lw(r, imm, a).op = "LOAD"
                    /\ Sw(r, imm, a).op = "STORE"
  BY DEF Jump_, MretInst, Addi, Lw, Sw

(* Prologue and epilogue have one mret, and store where they save. *)
LEMMA FrameKinds ==
  ASSUME NEW i \in FramePlaces
  PROVE  /\ i \in 1 .. Len(Code)
         /\ i # MretAt => Code[i].op # "MRET"
         /\ Code[i].op = "STORE" =>
              \/ \E r \in 1 .. NReg : i = 3 + r /\ Code[i] = Sw(r, Slot(r), sp)
              \/ i = NReg + 5 /\ Code[i] = Sw(t1, 4, sp)
              \/ i = NReg + 7 /\ Code[i] = Sw(t1, 0, sp)
              \/ i = Restored /\ Code[i] = Sw(t1, 8, zero)
<1> DEFINE Fine == /\ i # MretAt => Code[i].op # "MRET"
                   /\ Code[i].op = "STORE" =>
                        \/ \E r \in 1 .. NReg : i = 3 + r /\ Code[i] = Sw(r, Slot(r), sp)
                        \/ i = NReg + 5 /\ Code[i] = Sw(t1, 4, sp)
                        \/ i = NReg + 7 /\ Code[i] = Sw(t1, 0, sp)
                        \/ i = Restored /\ Code[i] = Sw(t1, 8, zero)
<1>1. i \in 1 .. Len(Code)
  BY Places, Numbers DEF FramePlaces
<1> SUFFICES Fine
  BY <1>1
<1>2. CASE \E r \in 1 .. NReg : i = 3 + r
  <2>1. PICK r \in 1 .. NReg : i = 3 + r
    BY <1>2
  <2>2. Code[i] = Sw(r, Slot(r), sp)
    BY <2>1, CodeAt
  <2> QED BY <2>1, <2>2, Kinds
<1>3. CASE \E r \in 1 .. NReg : i = Restored + r
  <2>1. PICK r \in 1 .. NReg : i = Restored + r
    BY <1>3
  <2>2. Code[i] = Lw(r, Slot(r), sp)
    BY <2>1, CodeAt
  <2>3. Code[i].op = "LOAD"
    BY <2>2, Kinds
  <2> QED BY <2>3
<1>4. CASE i = 2 \/ i = 3
  <2>1. Code[i] = Jump_(4) \/ Code[i] = Addi(sp, sp, -Frame)
    BY <1>4, CodeAt
  <2>2. Code[i].op = "JAL" \/ Code[i].op = "OP"
    BY <2>1, Kinds
  <2> QED BY <2>2
<1>5. CASE i = NReg + 4 \/ i = NReg + 6 \/ i = Restored - 1
  <2>1. Code[i] = Lw(t1, 20, zero) \/ Code[i] = Lw(t1, 8, zero) \/ Code[i] = Lw(t1, 0, sp)
    BY <1>5, CodeAt
  <2>2. Code[i].op = "LOAD"
    BY <2>1, Kinds
  <2> QED BY <2>2
<1>6. CASE i = NReg + 5
  <2>1. Code[i] = Sw(t1, 4, sp)
    BY <1>6, CodeAt
  <2> QED BY <1>6, <2>1, Kinds
<1>7. CASE i = NReg + 7
  <2>1. Code[i] = Sw(t1, 0, sp)
    BY <1>7, CodeAt
  <2> QED BY <1>7, <2>1, Kinds
<1>8. CASE i = Restored
  <2>1. Code[i] = Sw(t1, 8, zero)
    BY <1>8, CodeAt
  <2> QED BY <1>8, <2>1, Kinds
<1>9. CASE i = MretAt - 1
  <2>1. Code[i] = Addi(sp, sp, Frame)
    BY <1>9, CodeAt
  <2>2. Code[i].op = "OP"
    BY <2>1, Kinds
  <2> QED BY <2>2
<1>10. CASE i = MretAt
  <2>1. Code[i] = MretInst
    BY <1>10, CodeAt
  <2>2. Code[i].op = "MRET"
    BY <2>1, Kinds
  <2> QED BY <1>10, <2>2
<1>11. i \in 2 .. 3 => i = 2 \/ i = 3
  OBVIOUS
<1> HIDE DEF Fine
<1> QED BY <1>2, <1>3, <1>4, <1>5, <1>6, <1>7, <1>8, <1>9, <1>10, <1>11, AllPlaces

LEMMA HandlerInit == HInit => HandlerInv
<1> SUFFICES ASSUME HInit PROVE HandlerInv
  OBVIOUS
<1>1. mem \in Memories /\ Loaded
  BY HandlerAssumption DEF HInit, Init, Loaded
<1>2. Typed
  BY <1>1, SizesAssumption, Numbers DEF HInit, Init, Typed, Word, Addr
<1>3. Idle
  BY Numbers DEF HInit, Init, Idle, At, sp
<1> QED BY <1>1, <1>2, <1>3 DEF HandlerInv

LEMMA KnownPlace ==
  ASSUME HandlerInv
  PROVE  mstatus \in {0, MIE_bit} /\ \E i \in 1 .. Len(Code) : pc = At(i)
<1>1. CASE Idle
  <2>1. 1 \in 1 .. Len(Code) /\ EntryAt \in 1 .. Len(Code)
    BY Places, Numbers
  <2>2. \A i \in ProgramPlaces : i \in 1 .. Len(Code)
    BY ProgramAt
  <2> QED BY <1>1, <2>1, <2>2 DEF Idle, InProgram
<1>2. CASE Handling
  <2>1. \A i \in FramePlaces \cup ProgramPlaces : i \in 1 .. Len(Code)
    BY ProgramAt, Places, Numbers DEF FramePlaces
  <2> QED BY <1>2, <2>1 DEF Handling, InHandler
<1> QED BY <1>1, <1>2 DEF HandlerInv

LEMMA HandlerInvStep ==
  ASSUME HandlerInv, Allowed, [Keeps]_allvars, [HNext]_allvars
  PROVE  HandlerInv'
<1>1. CASE UNCHANGED allvars
  <2>1. Typed' /\ Loaded'
    BY <1>1 DEF allvars, vars, HandlerInv, Typed, Loaded
  <2>2. Idle => Idle'
    BY <1>1 DEF allvars, vars, Idle, InProgram
  <2>3. \A S, i : InHandler(i, S) => InHandler(i, S)'
    BY <1>1 DEF allvars, vars, InHandler, InProgram, Stacked, Intact, Saved
  <2> QED BY <2>1, <2>2, <2>3 DEF HandlerInv, Handling
<1>2. CASE HNext /\ Keeps
  <2>1. mstatus \in {0, MIE_bit} /\ \E i \in 1 .. Len(Code) : pc = At(i)
    BY KnownPlace
  <2>2. Typed' /\ Loaded'
    BY <1>2, <2>1, TypedStep DEF HandlerInv
  <2>3. ASSUME NEW s \in Sources, Interrupt(s) PROVE Handling'
    BY <2>3, InterruptStep DEF HandlerInv
  <2>4. ASSUME Continue \/ Return PROVE Idle' \/ Handling'
    <3>1. CASE Idle
      BY <1>2, <2>4, <3>1, IdleStep DEF HandlerInv
    <3>2. CASE Handling
      <4>1. PICK S \in Snapshot, i \in FramePlaces \cup ProgramPlaces : InHandler(i, S)
        BY <3>2 DEF Handling
      <4>2. CASE i = MretAt
        BY <2>4, <4>1, <4>2, Resumes DEF HandlerInv
      <4>3. CASE i # MretAt
        BY <1>2, <2>4, <4>1, <4>3, HandlerStep DEF HandlerInv, Handling
      <4> QED BY <4>2, <4>3
    <3> QED BY <3>1, <3>2 DEF HandlerInv
  <2> QED BY <1>2, <2>2, <2>3, <2>4 DEF HNext, HandlerInv
<1> QED BY <1>1, <1>2

LEMMA HandlerInvCorrect == HSpec /\ ProgramBehaves => []HandlerInv
  BY HandlerInit, HandlerInvStep, PTL DEF HSpec, ProgramBehaves

LEMMA ReturnResumes ==
  ASSUME HandlerInv, Allowed, Return
  PROVE  /\ suspended # <<>> /\ pc' = Head(suspended).pc /\ regs = Head(suspended).regs
<1>1. ~AtProgram
  BY ProgramStep
<1>2. CASE Idle
  <2>1. PICK i \in 1 .. Len(Code) : pc = At(i) /\ Code[i].op # "MRET"
    <3>1. pc = At(1) \/ pc = At(EntryAt)
      BY <1>1, <1>2 DEF Idle, InProgram, AtProgram
    <3>2. 1 \in 1 .. Len(Code) /\ EntryAt \in 1 .. Len(Code)
      BY Places, Numbers
    <3>3. Code[1].op # "MRET" /\ Code[EntryAt].op # "MRET"
      <4>1. Code[1] = Jump_(4 * (EntryAt - 1)) /\ Code[EntryAt] = Addi(sp, zero, Stack)
        BY CodeAt
      <4> QED BY <4>1, Kinds
    <3> QED BY <3>1, <3>2, <3>3
  <2>2. Inst_.op # "MRET"
    BY <2>1, Here DEF HandlerInv
  <2> QED BY <2>2 DEF Return, Mret
<1>3. CASE Handling
  <2>1. PICK S \in Snapshot, i \in FramePlaces \cup ProgramPlaces : InHandler(i, S)
    BY <1>3 DEF Handling
  <2>2. i \notin ProgramPlaces
    BY <1>1, <2>1 DEF InHandler, AtProgram
  <2>3. i = MretAt
    <3>1. ASSUME i # MretAt PROVE Code[i].op # "MRET" /\ i \in 1 .. Len(Code)
      BY <2>1, <2>2, <3>1, FrameKinds
    <3>2. i # MretAt => Inst_.op # "MRET"
      BY <2>1, <3>1, Here DEF HandlerInv, InHandler
    <3> QED BY <3>2 DEF Return, Mret
  <2> QED BY <2>1, <2>3, Resumes DEF HandlerInv
<1> QED BY <1>2, <1>3 DEF HandlerInv

(***************************************************************************)
(* mret resumes what was interrupted, at the instruction that did not run  *)
(* and with every register it had, whatever the program calls, jumps to    *)
(* and stores, as long as it keeps its contract with the frame             *)
(* (riscv_hal.h 12-94).                                                    *)
(***************************************************************************)
THEOREM ResumesInterruptedHolds == HSpec /\ ProgramBehaves => ResumesInterrupted
<1>1. HandlerInv /\ Allowed /\ [HNext]_allvars =>
        [Return => /\ suspended # <<>>
                   /\ pc' = Head(suspended).pc
                   /\ regs = Head(suspended).regs]_allvars
  BY ReturnResumes
<1> QED BY <1>1, HandlerInvCorrect, PTL DEF HSpec, ProgramBehaves, ResumesInterrupted

LEMMA Masked == HandlerInv => MaskedWhileHandled
<1>1. Idle => MaskedWhileHandled
  BY Enabled DEF Idle, MaskedWhileHandled
<1>2. Handling => MaskedWhileHandled
  BY Enabled DEF Handling, InHandler, MaskedWhileHandled
<1> QED BY <1>1, <1>2 DEF HandlerInv

(***************************************************************************)
(* Interrupts do not nest, and none is lost sight of: they are enabled     *)
(* again exactly when nothing is left to resume (risc-v-v2.v 303, 325).    *)
(***************************************************************************)
THEOREM MaskedWhileHandledHolds == HSpec /\ ProgramBehaves => []MaskedWhileHandled
  BY Masked, HandlerInvCorrect, PTL

-----------------------------------------------------------------------------
(* What the handler and the application store, seen from a core that       *)
(* applies a store one instruction late.                                   *)

(* No word is stored to mstatus or to the return pointer.  *)
LEMMA StoresElsewhere ==
  ASSUME HandlerInv, Allowed, Inst_.op = "STORE", Inst_.f = "SW"
  PROVE  EffAddr(regs, Inst_) \notin {REG_MSTATUS, REG_RIP}
<1>1. Typed /\ Loaded
  BY DEF HandlerInv
<1>2. \A j \in 1 .. Len(Code) : pc = At(j) => Inst_ = Code[j]
  BY <1>1, Here
<1>3. CASE AtProgram
  BY <1>3 DEF Allowed
<1>4. CASE Idle /\ ~AtProgram
  <2>1. 1 \in 1 .. Len(Code) /\ EntryAt \in 1 .. Len(Code)
    BY Places, Numbers
  <2>2. Code[1].op # "STORE" /\ Code[EntryAt].op # "STORE"
    <3>1. Code[1] = Jump_(4 * (EntryAt - 1)) /\ Code[EntryAt] = Addi(sp, zero, Stack)
      BY CodeAt
    <3> QED BY <3>1, Kinds
  <2> QED BY <1>2, <1>4, <2>1, <2>2 DEF Idle, InProgram, AtProgram
<1>5. CASE Handling /\ ~AtProgram
  <2>1. PICK S \in Snapshot, i \in FramePlaces \cup ProgramPlaces : InHandler(i, S)
    BY <1>5 DEF Handling
  <2>2. i \in FramePlaces /\ pc = At(i) /\ StackAt(S.regs[sp])
    BY <1>5, <2>1 DEF InHandler, AtProgram
  <2>3. Inst_ = Code[i]
    BY <1>2, <2>2, FrameKinds
  <2>4. ASSUME i \in 4 .. MretAt - 1
        PROVE  /\ X(regs, sp) = S.regs[sp] - Frame
               /\ \A n \in {0, 4} : Plus(X(regs, sp), n) \notin {REG_RIP, REG_MSTATUS}
    BY <2>1, <2>2, <2>4, NotedAt
  <2>5. ASSUME NEW r, NEW imm, NEW a, Inst_ = Sw(r, imm, a)
        PROVE  EffAddr(regs, Inst_) = Plus(X(regs, a), imm)
    BY <2>5 DEF Sw, EffAddr
  <2>6. CASE \E r \in 1 .. NReg : i = 3 + r /\ Inst_ = Sw(r, Slot(r), sp)
    <3>1. PICK r \in 1 .. NReg : i = 3 + r /\ Inst_ = Sw(r, Slot(r), sp)
      BY <2>6
    <3>2. i \in 4 .. MretAt - 1
      BY <3>1, Places, Numbers
    <3>3. X(regs, sp) = S.regs[sp] - Frame
      BY <2>4, <3>2
    <3>4. Plus(S.regs[sp] - Frame, Slot(r)) \notin {REG_RIP, REG_MSTATUS}
      BY <2>2, SavedAtSlot
    <3> QED BY <2>5, <3>1, <3>3, <3>4
  <2>7. CASE (i = NReg + 5 /\ Inst_ = Sw(t1, 4, sp)) \/ (i = NReg + 7 /\ Inst_ = Sw(t1, 0, sp))
    <3>1. i \in 4 .. MretAt - 1
      BY <2>7, Places, Numbers
    <3> QED BY <2>4, <2>5, <2>7, <3>1
  <2>8. CASE Inst_ = Sw(t1, 8, zero)
    <3>1. Plus(X(regs, zero), 8) = 8
      BY Numbers DEF X, zero, Plus
    <3> QED BY <2>5, <2>8, <3>1 DEF REG_RIP, REG_MSTATUS
  <2> QED BY <2>2, <2>3, <2>6, <2>7, <2>8, FrameKinds
<1> QED BY <1>3, <1>4, <1>5 DEF HandlerInv

LEMMA HandlerHarmless ==
  ASSUME HandlerInv, Allowed, EndKept
  PROVE  StoreHarmless
<1> SUFFICES ASSUME Inst_.op = "STORE" PROVE StoreHarmless
  BY DEF StoreHarmless
<1>1. PICK i \in 1 .. Len(Code) : pc = At(i)
  BY KnownPlace
<1>2. Inst_ = Code[i] /\ Inst_ \in Inst /\ Inst_ \in Instructions /\ Typed
  BY <1>1, Here DEF HandlerInv
<1>3. i \in Int /\ Len(Code) \in Nat
  BY CodeLength
<1>4. \A j \in 1 .. Len(Code) : WordOf(At(j)) = CodeWord(j)
  BY <1>3, Numbers, ByFour DEF At, WordOf, CodeWord
<1>5. ASSUME NEW d \in {1, 2} PROVE WordOf(Plus(pc, 4 * d)) \notin RamWords
  <2>1. CASE i + d \in 1 .. Len(Code)
    <3>1. i \in Int /\ d \in Int
      BY <1>3
    <3>2. Plus(At(i), 4 * d) = At(i + d)
      BY <2>1, <3>1, Ahead
    <3> QED BY <1>1, <1>4, <2>1, <3>2, CodeOutOfReach
  <2>2. CASE i + d \notin 1 .. Len(Code)
    <3>1. PICK k \in {0, 1} : i + d = Len(Code) + 1 + k
      <4>1. i + d = Len(Code) + 1 + 0 \/ i + d = Len(Code) + 1 + 1
        BY <1>3, <2>2
      <4> QED BY <4>1
    <3>2. At(i) + 4 * d = RESET_VECTOR + 4 * (Len(Code) + k)
      BY <1>3, <3>1, Numbers DEF At
    <3> QED BY <1>1, <3>2 DEF Plus, EndKept
  <2> QED BY <2>1, <2>2
<1>6. WordOf(Plus(pc, 4)) \notin RamWords /\ WordOf(Plus(pc, 8)) \notin RamWords
  <2>1. 4 * 1 = 4 /\ 4 * 2 = 8
    OBVIOUS
  <2> QED BY <1>5, <2>1
<1>7. EffAddr(regs, Inst_) \in Addr /\ X(regs, Inst_.rs2) \in Word
  BY <1>2, EffAddrType, XType DEF Inst
<1>8. \A w : w \notin RamWords =>
        StoreAt(mem, EffAddr(regs, Inst_), Inst_.f, X(regs, Inst_.rs2))[w] = mem[w]
  BY <1>2 DEF StoreAt, Typed, Memories
<1> QED BY <1>6, <1>8, StoresElsewhere DEF StoreHarmless

(***************************************************************************)
(* No store of the handler, of what it calls or of the application asks    *)
(* the core for more than either of its bus configurations gives: none     *)
(* rewrites an instruction behind it, mstatus or the return pointer        *)
(* (riscv_hal.h 12-94 on risc-v-v2.v 233-251, 328-338).                    *)
(***************************************************************************)
THEOREM StoreHarmlessHolds ==
  ASSUME EndKept
  PROVE  HSpec /\ ProgramBehaves => []StoreHarmless
  BY HandlerHarmless, HandlerInvCorrect, PTL DEF ProgramBehaves
=============================================================================
