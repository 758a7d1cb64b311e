------------------------------ MODULE Assembler ----------------------------
(***************************************************************************)
(* The instruction words of the virtual machine: the opcodes of            *)
(* kernel/vm/opcodes.h, and what assemble_line of asm/vm_asm.c makes of an *)
(* instruction of an assembly source.                                      *)
(*                                                                         *)
(* A word is the tuple <<opcode, rd, rs, rt>> of its bytes.  A source      *)
(* instruction has its registers in the order they are written, the value  *)
(* resolve_value finds for its number, constant or label (0 if it has      *)
(* none; labels are byte addresses), and the form of that operand: plain,  *)
(* hi(x), lo(x), or x(base) with the name of a register.                   *)
(***************************************************************************)
EXTENDS Words, Sequences

Opcode == [ADD |-> 1, SUB |-> 2, ADDI |-> 3, AND |-> 16, OR |-> 17, MOV |-> 18,
           LUI |-> 19, XOR |-> 20, NOR |-> 21, LOAD |-> 32, STORE |-> 33,
           LOADB |-> 34, STOREB |-> 35, BEQ |-> 48, BNE |-> 49, SLT |-> 50,
           JMP |-> 51, CALL |-> 52, RET |-> 53, SLL |-> 64, SRL |-> 65,
           SRA |-> 66, VCALL |-> 80, HALT |-> 255]

\* The mnemonics assemble_line knows.
Mnemonic == {"ADD", "SUB", "ADDI", "LUI", "MOV", "LOAD", "STORE", "LOADB",
             "STOREB", "BEQ", "BNE", "JMP", "CALL", "RET", "VCALL", "HALT"}

\* (opcode << 24) | (rd << 16) | (rs << 8) | (uint16_t)imm: the high byte of
\* the immediate and rs share their bits.
ImmediateWord(op, rd, rs, imm) ==
    LET low == imm % 65536 IN
    <<Opcode[op], rd, Or(rs, low \div 256), low % 256>>

\* (opcode << 24) | (target & 0xFFFFFF)
TargetWord(op, target) ==
    <<Opcode[op], (target \div 65536) % 256, (target \div 256) % 256, target % 256>>

\* ADDI looks for hi( and lo( in its operand, LUI does not.
Half(i) == CASE i.form = "hi" -> i.value \div 65536
             [] i.form = "lo" -> i.value % 65536
             [] OTHER -> i.value

\* In x(base) the name ends in a parenthesis, and reg_to_num finds no register.
BaseOf(i) == IF i.form = "base" THEN 0 ELSE i.regs[2]

\* The word for the instruction i, placed at pc.
assemble_line(i, pc) ==
    CASE i.op \in {"ADD", "SUB"} ->
            <<Opcode[i.op], i.regs[1], i.regs[2], i.regs[3]>>
      [] i.op = "MOV"  -> <<Opcode[i.op], i.regs[1], i.regs[2], 0>>
      [] i.op = "ADDI" -> ImmediateWord(i.op, i.regs[1], i.regs[2], Half(i))
      [] i.op = "LUI"  -> ImmediateWord(i.op, i.regs[1], 0, i.value \div 65536)
         \* The name of an index register is no constant and no label: its value
         \* is 0, also in LOADB.
      [] i.op = "LOAD" -> ImmediateWord(i.op, i.regs[1], BaseOf(i), i.value)
      [] i.op \in {"STORE", "STOREB"} ->
            ImmediateWord(i.op, i.regs[Len(i.regs)], i.regs[1], i.value)
      [] i.op = "LOADB" -> ImmediateWord(i.op, i.regs[1], i.regs[2], 0)
      [] i.op \in {"BEQ", "BNE"} ->
            ImmediateWord(i.op, i.regs[1], i.regs[2], Wrap(i.value - pc - 4) \div 4)
      [] i.op \in {"JMP", "CALL"} -> TargetWord(i.op, i.value)
      [] i.op \in {"RET", "VCALL", "HALT"} -> <<Opcode[i.op], 0, 0, 0>>
         \* A mnemonic it does not know leaves all fields 0.
      [] OTHER -> <<0, 0, 0, 0>>

\* The second pass: a word for every instruction line.
Assemble(source) ==
    [k \in DOMAIN source |-> assemble_line(source[k], 4 * (k - 1))]
=============================================================================
