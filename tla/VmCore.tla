------------------------------- MODULE VmCore ------------------------------
(***************************************************************************)
(* vm_step of kernel/vm/vm_core.c: one action per kind of instruction.     *)
(* What C leaves undefined, or what reads or writes outside the buffers of *)
(* the virtual machine, takes its state to "UNDEFINED", where the model    *)
(* ends.                                                                   *)
(***************************************************************************)
EXTENDS Assembler, FiniteSets

CONSTANTS
    Answers,    \* what kernel_intent_dispatcher returns
    MaxSteps    \* bound: the instructions of a run

VARIABLES
    code,       \* code_buffer, as instruction words
    pc, gp,     \* regs.gp[0 .. 31]
    ram,        \* ram_buffer: its bytes
    state,
    steps       \* the instructions executed (for MaxSteps)

vmvars == <<code, pc, gp, ram, state, steps>>

ZERO == 0  V0 == 2  K0 == 26  SP == 29  RA == 31

VmTypeOK ==
    /\ pc \in Word
    /\ gp \in [0 .. 31 -> Word]
    /\ \A a \in DOMAIN ram : ram[a] \in Byte
    /\ state \in {"RUNNING", "HALTED", "ERROR", "UNDEFINED"}
    /\ gp[ZERO] = 0

code_size == 4 * Len(code)
ram_size == Cardinality(DOMAIN ram)

\* vm_create with entry point 0, and the start of vm_interpreter_loop.
VmInit(program, size) ==
    /\ code = program
    /\ pc = 0
    /\ ram = [a \in 0 .. size - 1 |-> 0]
    /\ gp = [[r \in 0 .. 31 |-> 0] EXCEPT ![SP] = Wrap(size - 4)]
    /\ state = "RUNNING"
    /\ steps = 0

-----------------------------------------------------------------------------
(* Fetch and decode. *)

Running == state = "RUNNING" /\ steps < MaxSteps

\* Mutant of vm_step: the test looks at the first byte only.
InCodeFirstByte == pc <= code_size

\* The test of the program counter, whose sum wraps.
InCode == Wrap(pc + 4) <= code_size

\* The words of the code that can be read as one: aligned, inside it.
Readable == pc % 4 = 0 /\ pc + 4 <= code_size

instr == code[pc \div 4 + 1]
opcode == instr[1]
rd == instr[2]
rs == instr[3]
rt == instr[4]
shamt == rt % 32
target == 65536 * rd + 256 * rs + rt

imm8 == Signed(rt, 128)
imm == Signed(256 * rs + rt, 32768)

Is(ops) == \E op \in ops : opcode = Opcode[op]

\* The fields of the word that vm_step uses as indices of gp.
Named ==
    (IF Is({"ADD", "SUB", "ADDI", "AND", "OR", "MOV", "LUI", "XOR", "NOR", "SLL",
            "SRL", "SRA", "LOAD", "STORE", "LOADB", "STOREB", "SLT", "BEQ", "BNE"})
     THEN {rd} ELSE {})
    \cup (IF Is({"ADD", "SUB", "ADDI", "AND", "OR", "MOV", "XOR", "NOR", "LOAD",
                 "STORE", "LOADB", "STOREB", "SLT", "BEQ", "BNE"})
          THEN {rs} ELSE {})
    \cup (IF Is({"ADD", "SUB", "AND", "OR", "XOR", "NOR", "SLL", "SRL", "SRA",
                 "LOADB", "STOREB", "SLT"})
          THEN {rt} ELSE {})

\* An instruction that vm_step can decode without reading outside anything.
Decodes == Running /\ InCode /\ Readable /\ Named \subseteq 0 .. 31

-----------------------------------------------------------------------------
(* Execute. *)

\* Write a register, zero excepted, and go on.
SetRegister(r, value) ==
    /\ gp' = [gp EXCEPT ![r] = value, ![ZERO] = 0]
    /\ pc' = Wrap(pc + 4)
    /\ steps' = steps + 1
    /\ UNCHANGED <<code, ram, state>>

\* Stop in a state, changing nothing else.
Stop(how) ==
    /\ state' = how
    /\ steps' = steps + 1
    /\ UNCHANGED <<code, pc, gp, ram>>

Result ==
    CASE Is({"ADD"})  -> Wrap(gp[rs] + gp[rt])
      [] Is({"SUB"})  -> Wrap(gp[rs] - gp[rt])
      [] Is({"ADDI"}) -> Wrap(gp[rs] + imm8)
      [] Is({"AND"})  -> And(gp[rs], gp[rt])
      [] Is({"OR"})   -> Or(gp[rs], gp[rt])
      [] Is({"MOV"})  -> gp[rs]
      [] Is({"LUI"})  -> ((256 * rs + rt) % 2 ^ (WordBits - 16)) * 65536
      [] Is({"XOR"})  -> Xor(gp[rs], gp[rt])
      [] Is({"NOR"})  -> Wrap(-1 - Or(gp[rs], gp[rt]))
      [] Is({"SLL"})  -> ShiftLeft(gp[rt], shamt)
      [] Is({"SRL"})  -> ShiftRight(gp[rt], shamt)
      [] Is({"SRA"})  -> ShiftRightSigned(gp[rt], shamt)
      [] Is({"SLT"})  -> IF gp[rs] < gp[rt] THEN 1 ELSE 0

Compute ==
    /\ Decodes
    /\ Is({"ADD", "SUB", "ADDI", "AND", "OR", "MOV", "LUI", "XOR", "NOR", "SLL",
           "SRL", "SRA", "SLT"})
    /\ SetRegister(rd, Result)

\* A word at an aligned address: the test of the bound wraps.
word_addr == Wrap(gp[rs] + imm)
WordAllowed == word_addr % 4 = 0 /\ Wrap(word_addr + 4) <= ram_size
WordThere == word_addr + 4 <= ram_size

Load ==
    /\ Decodes /\ Is({"LOAD"}) /\ WordAllowed /\ WordThere
    /\ SetRegister(rd, WordAt(ram, word_addr))

Store ==
    /\ Decodes /\ Is({"STORE"}) /\ WordAllowed /\ WordThere
    /\ ram' = [a \in DOMAIN ram |->
                  IF a \in word_addr .. word_addr + 3
                  THEN ByteOf(gp[rd], a - word_addr)
                  ELSE ram[a]]
    /\ pc' = Wrap(pc + 4)
    /\ steps' = steps + 1
    /\ UNCHANGED <<code, gp, state>>

LoadByte ==
    LET addr == Wrap(gp[rs] + gp[rt]) IN
    /\ Decodes /\ Is({"LOADB"}) /\ addr < ram_size
    /\ SetRegister(rd, ram[addr])

StoreByte ==
    LET addr == Wrap(gp[rd] + gp[rs]) IN
    /\ Decodes /\ Is({"STOREB"}) /\ addr < ram_size
    /\ ram' = [ram EXCEPT ![addr] = gp[rt] % 256]
    /\ pc' = Wrap(pc + 4)
    /\ steps' = steps + 1
    /\ UNCHANGED <<code, gp, state>>

\* An address that fails its test.
AddressFault ==
    /\ Decodes
    /\ \/ Is({"LOAD", "STORE"}) /\ ~WordAllowed
       \/ Is({"LOADB"}) /\ Wrap(gp[rs] + gp[rt]) >= ram_size
       \/ Is({"STOREB"}) /\ Wrap(gp[rd] + gp[rs]) >= ram_size
    /\ Stop("ERROR")

JumpTo(to) ==
    /\ pc' = to
    /\ steps' = steps + 1
    /\ UNCHANGED <<code, ram, state>>

\* A branch counts from itself.
Branch ==
    /\ Decodes /\ Is({"BEQ", "BNE"})
    /\ JumpTo(Wrap(pc + (IF (gp[rd] = gp[rs]) = Is({"BEQ"}) THEN 4 * imm ELSE 4)))
    /\ UNCHANGED gp

\* Mutant of vm_step: a call saves its own address.
JumpSavesSelf ==
    /\ Decodes /\ Is({"JMP", "CALL", "RET"})
    /\ JumpTo(IF Is({"RET"}) THEN gp[RA] ELSE Wrap(target))
    /\ gp' = [gp EXCEPT ![RA] = IF Is({"CALL"}) THEN pc ELSE @]

Jump ==
    /\ Decodes /\ Is({"JMP", "CALL", "RET"})
    /\ JumpTo(IF Is({"RET"}) THEN gp[RA] ELSE Wrap(target))
    /\ gp' = [gp EXCEPT ![RA] = IF Is({"CALL"}) THEN Wrap(pc + 4) ELSE @]

\* The kernel answers in k0.  (Its writes into ram, for console and storage
\* reads, are left out.)
Vcall ==
    /\ Decodes /\ Is({"VCALL"})
    /\ \E answer \in Answers : SetRegister(K0, answer)

Halt == Decodes /\ Is({"HALT"}) /\ Stop("HALTED")

\* Beyond the code, or an opcode that does not exist.
Illegal ==
    /\ Running
    /\ \/ ~InCode
       \/ Decodes /\ ~Is(DOMAIN Opcode)
    /\ Stop("ERROR")

\* The tests passed, and yet something outside is read or written.
Undefined ==
    /\ Running /\ InCode
    /\ \/ ~Readable
       \/ Readable /\ ~(Named \subseteq 0 .. 31)
       \/ Decodes /\ Is({"LOAD", "STORE"}) /\ WordAllowed /\ ~WordThere
    /\ Stop("UNDEFINED")

VmNext ==
    \/ Compute \/ Load \/ Store \/ LoadByte \/ StoreByte \/ AddressFault
    \/ Branch \/ Jump \/ Vcall \/ Halt \/ Illegal \/ Undefined

=============================================================================
