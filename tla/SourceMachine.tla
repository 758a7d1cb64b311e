---------------------------- MODULE SourceMachine --------------------------
(***************************************************************************)
(* What an assembly source means, whatever its encoding: the instructions  *)
(* as kernel/vm/opcodes.h describes them, with the operands in the order   *)
(* in which asm/app0.s writes them and values that are not cut off.  A     *)
(* branch goes to its label.                                               *)
(*                                                                         *)
(* opcodes.h knows memory instructions with an index register only, as     *)
(* app0.s writes them; a number in its place, which vm_core.c:14 names, is *)
(* added.  LUI shifts its operand up (opcodes.h:69), so the upper half of  *)
(* an address is written hi(x); the assembler and app0.s take it from the  *)
(* plain address.                                                          *)
(***************************************************************************)
EXTENDS Words, Sequences, FiniteSets

CONSTANT Answers

VARIABLES source, pc, gp, ram, state

svars == <<source, pc, gp, ram, state>>

i == source[pc \div 4 + 1]
reg(k) == gp[i.regs[k]]

\* The number a line is given: hi(x) and lo(x) are the halves of x.
operand == CASE i.form = "hi" -> i.value \div 65536
             [] i.form = "lo" -> i.value % 65536
             [] OTHER -> i.value

Executes(ops) ==
    /\ state = "RUNNING"
    /\ pc \in {4 * k : k \in 0 .. Len(source) - 1}
    /\ i.op \in ops

Assign(r, value) ==
    /\ gp' = [gp EXCEPT ![r] = IF r = 0 THEN 0 ELSE value]
    /\ pc' = pc + 4
    /\ UNCHANGED <<source, ram, state>>

Goto(to) ==
    /\ pc' = to
    /\ UNCHANGED <<source, ram, state>>

Ends(how) ==
    /\ state' = how
    /\ UNCHANGED <<source, pc, gp, ram>>

Bytes(addr, n) == addr .. addr + n - 1
InRam(addr, n) == Bytes(addr, n) \subseteq DOMAIN ram /\ addr % n = 0

\* The n bytes of value go to addr.
Put(addr, n, value) ==
    /\ ram' = [a \in DOMAIN ram |->
                  IF a \in Bytes(addr, n)
                  THEN ByteOf(value, a - addr) ELSE ram[a]]
    /\ pc' = pc + 4
    /\ UNCHANGED <<source, gp, state>>

Arithmetic ==
    \/ Executes({"ADD"})  /\ Assign(i.regs[1], Wrap(reg(2) + reg(3)))
    \/ Executes({"SUB"})  /\ Assign(i.regs[1], Wrap(reg(2) - reg(3)))
    \/ Executes({"ADDI"}) /\ Assign(i.regs[1], Wrap(reg(2) + operand))
    \/ Executes({"MOV"})  /\ Assign(i.regs[1], reg(2))
    \/ Executes({"LUI"})  /\ Assign(i.regs[1], Wrap(operand * 65536))

\* "LOAD rd, base, index" and "STORE base, index, rt": the index is a register
\* or a number.
Indexed == Len(i.regs) = 3

\* Words lie at aligned addresses, with the least byte first.
Memory ==
    LET stores == i.op \in {"STORE", "STOREB"}
        base  == IF stores THEN 1 ELSE 2
        index == IF Indexed THEN reg(base + 1) ELSE i.value
        addr  == Wrap(reg(base) + index)
        n == IF i.op \in {"LOAD", "STORE"} THEN 4 ELSE 1
    IN /\ Executes({"LOAD", "LOADB", "STORE", "STOREB"})
       /\ \/ ~InRam(addr, n) /\ Ends("ERROR")
          \/ /\ InRam(addr, n)
             /\ IF stores
                THEN Put(addr, n, reg(Len(i.regs)))
                ELSE Assign(i.regs[1],
                            IF n = 1 THEN ram[addr] ELSE WordAt(ram, addr))

Control ==
    \/ Executes({"BEQ"}) /\ Goto(IF reg(1) = reg(2) THEN i.value ELSE pc + 4)
                         /\ UNCHANGED gp
    \/ Executes({"BNE"}) /\ Goto(IF reg(1) # reg(2) THEN i.value ELSE pc + 4)
                         /\ UNCHANGED gp
    \/ Executes({"JMP"}) /\ Goto(i.value) /\ UNCHANGED gp
    \/ Executes({"CALL"}) /\ Goto(i.value) /\ gp' = [gp EXCEPT ![31] = pc + 4]
    \/ Executes({"RET"}) /\ Goto(gp[31]) /\ UNCHANGED gp

System ==
    \/ Executes({"VCALL"}) /\ \E answer \in Answers : Assign(26, answer)
    \/ Executes({"HALT"}) /\ Ends("HALTED")

\* An unknown instruction, or the end of the program.
Fault ==
    /\ state = "RUNNING"
    /\ ~Executes({"ADD", "SUB", "ADDI", "MOV", "LUI", "LOAD", "LOADB", "STORE",
                  "STOREB", "BEQ", "BNE", "JMP", "CALL", "RET", "VCALL", "HALT"})
    /\ Ends("ERROR")

SourceInit ==
    /\ pc = 0
    /\ gp = [[r \in 0 .. 31 |-> 0] EXCEPT ![29] = Wrap(Cardinality(DOMAIN ram) - 4)]
    /\ \A a \in DOMAIN ram : ram[a] = 0
    /\ state = "RUNNING"

SourceNext == Arithmetic \/ Memory \/ Control \/ System \/ Fault
=============================================================================
