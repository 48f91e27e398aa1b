------------------------------ MODULE RiscvBus ------------------------------
(***************************************************************************)
(* What the core needs of everything behind data_addr_o: a flat memory     *)
(* that answers every address one clock later, and takes stores in the     *)
(* clock that drives them.  It is what Datapath of RiscvCore does to mem   *)
(* and data_i.                                                             *)
(***************************************************************************)
EXTENDS RiscvArch

CONSTANTS Requests,   \* what a core may drive: addr, op ("READ" or a store), data
          Programs    \* the memories the system may be started with

VARIABLES request, mem, data_i

vars == <<request, mem, data_i>>

Init == request \in Requests /\ mem \in Programs /\ data_i = 0

Cycle ==
  /\ request' \in Requests
  /\ data_i' = mem[WordOf(request.addr)]
  /\ mem' = IF request.op \in Stores
              THEN StoreAt(mem, request.addr, request.op, request.data)
              ELSE mem

Spec == Init /\ [][Cycle]_vars
=============================================================================
