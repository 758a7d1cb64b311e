---------------------------- MODULE MCAssembledVm --------------------------
(* Instances of AssembledVm for TLC. *)
EXTENDS AssembledVm, TLC

T0 == 8  T1 == 9

SourceLine(op, regs, v, form) == [op |-> op, regs |-> regs, value |-> v, form |-> form]
Line3(op, a, b, c) == SourceLine(op, <<a, b, c>>, 0, "plain")
Line2(op, a, b, v) == SourceLine(op, <<a, b>>, v, "plain")
Line0(op, v) == SourceLine(op, <<>>, v, "plain")

\* Lines that leave something to see in t0, t1, ra, the memory or the program
\* counter, with the immediates at the borders of 8 and 16 bits, the ways to
\* write an address, and one that names a register which does not exist.
MCLines ==
    {Line3("ADD", T0, T0, T1), Line3("SUB", T0, ZERO, T1), Line2("MOV", T1, T0, 0),
     Line2("ADDI", T0, ZERO, 1), Line2("ADDI", RA, ZERO, 2),
     Line2("MOV", ZERO, SP, 0), Line2("ADDI", T1, T0, 127),
     Line2("ADDI", T0, T0, -1), Line2("ADDI", T0, T0, 128),
     SourceLine("ADDI", <<T0, T0>>, 3 * 65536, "hi"),
     SourceLine("LUI", <<T0>>, 65541, "hi"), SourceLine("LUI", <<T0>>, 5, "plain"),
     Line2("LOAD", T1, ZERO, 4), Line3("LOAD", RA, SP, ZERO), Line2("LOAD", T1, T0, 2048),
     SourceLine("LOAD", <<T1, T0>>, 4, "base"),
     Line2("STORE", ZERO, T0, 4), Line2("STORE", ZERO, T0, 6),
     Line3("STORE", SP, ZERO, RA), Line3("LOADB", T1, T0, ZERO), Line3("LOAD", T1, ZERO, T0),
     Line2("STOREB", ZERO, T0, 1), Line2("MOV", T0, 40, 0), Line2("BEQ", T0, ZERO, 8), Line2("BNE", T0, T1, 0),
     Line2("BNE", T0, ZERO, 0), Line0("JMP", 0), Line0("CALL", 8), Line0("CALL", 4),
     Line0("RET", 0), Line0("VCALL", 0), Line0("HALT", 0), Line0("AND", 0)}

MCSources == {<<a, b, c>> : a, b, c \in MCLines}

\* Instructions that only other tools write, and words that are read outside.
MCRawCode ==
    {<< <<Opcode[op], T0, T1, 5>>, <<Opcode[op2], T1, T0, T1>>, <<Opcode["STOREB"], T0, ZERO, T1>>,
        <<Opcode["SRA"], T0, ZERO, 9>>, w>> :
        op \in {"ADDI", "SLT", "LUI"}, op2 \in {"AND", "OR", "XOR", "NOR", "SLL", "SRL", "SRA"},
        w \in {<<Opcode["BEQ"], ZERO, 255, 250>>, <<Opcode["BNE"], T0, ZERO, 16>>,
               <<Opcode["JMP"], 0, 0, 6>>}}
    \cup \* the last word of the address space, whose end wraps to 0
    {<< <<Opcode["NOR"], T1, 0, 0>>, <<Opcode["SLL"], 1, 0, T1>>,
        <<Opcode["LOAD"], T0, 1, 252>> >>}
=============================================================================
