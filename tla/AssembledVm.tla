----------------------------- MODULE AssembledVm ---------------------------
(***************************************************************************)
(* The assembler and the virtual machine together: vm_step executes what   *)
(* assemble_line wrote, and whether that is what the source means.         *)
(* Programs that do not come from the assembler are code words without a   *)
(* source.                                                                 *)
(***************************************************************************)
EXTENDS VmCore

CONSTANTS
    Lines,      \* the lines of assembly, parsed
    Sources,    \* the assembly programs
    RawCode,    \* the programs given as code words
    RamSize     \* of all programs

VARIABLES
    source,     \* the program as written; <<>> if there is only code
    misread     \* history: an instruction was executed whose word does not
                \* say what its source line says

vars == <<vmvars, source, misread>>

\* What parsing a line leaves: reg_to_num's result is cut to a uint8_t and may
\* be no register.  (A line that lacks an operand would leave what happened to
\* be in an array; there are none here.)
Registers(op) ==
    CASE op \in {"ADD", "SUB", "LOADB"} -> {3}
      [] op \in {"LOAD", "STORE", "STOREB"} -> {2, 3}
      [] op \in {"MOV", "ADDI", "BEQ", "BNE"} -> {2}
      [] op = "LUI" -> {1}
      [] OTHER -> {0}

Parsed(line) ==
    /\ line.value \in Int
    /\ line.regs \in Seq(Byte)
    /\ Len(line.regs) \in Registers(line.op)
    /\ Len(line.regs) = 3 => line.value = 0
    /\ line.form \in {"plain", "hi", "lo", "base"}
    /\ line.form \in {"hi", "lo"} => line.op \in {"ADDI", "LUI"}
    /\ line.form = "base" => line.op = "LOAD" /\ Len(line.regs) = 2

\* The assembler has an array of this size for the code.
MAX_CODE == 65536

ASSUME VmAssumption ==
    /\ \A line \in Lines : Parsed(line)
    /\ \A program \in Sources : program \in Seq(Lines) /\ 4 * Len(program) <= MAX_CODE
    /\ RawCode \subseteq Seq(Byte \X Byte \X Byte \X Byte)
    /\ RamSize \in Word
    /\ Answers \subseteq Word

\* The word of instruction k of the source, which lies at 4 * (k - 1), says
\* what the line says.  Immediates share their high byte with rs and, in
\* ADDI, are read as 8 bits; LUI encodes the upper half of what it is given;
\* the index register of a memory instruction is not encoded, nor is the base
\* in x(base); the operands of STOREB do not arrive where vm_step looks for
\* them; a branch that is taken counts from itself, and was encoded from its
\* successor; a jump has 24 bits.
Survives(k) ==
    LET line == source[k]
        indexed == Len(line.regs) = 3
    IN
    CASE line.op = "ADDI"   -> Half(line) \in 0 .. 127
      [] line.op = "LUI"    -> line.form = "hi"
      [] line.op = "LOAD"   -> /\ line.value \div 256 = BaseOf(line)
                               /\ indexed => gp[line.regs[3]] = 0
                               /\ line.form = "base" => gp[line.regs[2]] = 0
      [] line.op = "STORE"  -> /\ line.value \div 256 = line.regs[1]
                               /\ indexed => gp[line.regs[2]] = 0
      [] line.op = "LOADB"  -> line.regs[3] = ZERO
      [] line.op = "STOREB" -> FALSE
      [] line.op = "BEQ"    -> gp[line.regs[1]] # gp[line.regs[2]]
                               /\ code[k][3] = line.regs[2]
      [] line.op = "BNE"    -> gp[line.regs[1]] = gp[line.regs[2]]
                               /\ code[k][3] = line.regs[2]
      [] line.op \in {"JMP", "CALL"} -> line.value \in Word /\ line.value < 2 ^ 24
      [] OTHER -> TRUE

Init ==
    /\ misread = FALSE
    /\ \/ source \in Sources /\ VmInit(Assemble(source), RamSize)
       \/ source = <<>> /\ \E words \in RawCode : VmInit(words, RamSize)

\* The line that is fetched, if it is one of the source.
Line == {k \in DOMAIN source : pc = 4 * (k - 1)}

Next ==
    /\ VmNext
    /\ misread' = (misread \/ \E k \in Line : ~Survives(k))
    /\ UNCHANGED source

Spec == Init /\ [][Next]_vars

-----------------------------------------------------------------------------

TypeOK == VmTypeOK /\ misread \in BOOLEAN

Src == INSTANCE SourceMachine

\* As long as every word executed says what its line says, and nothing
\* undefined happens, the machine does what the source means: calls return
\* behind their callers, words stored are loaded again, faults stop it where
\* they should.
RunsTheSource ==
    /\ source # <<>> => Src!SourceInit
    /\ [][source # <<>> /\ ~misread' /\ state' # "UNDEFINED"
              => Src!SourceNext]_vmvars

\* The source names registers that exist, returns only where it was called from
\* and addresses words only from register zero, with jumps to its lines or its
\* end.
Tame ==
    \A k \in DOMAIN source :
        LET line == source[k] IN
        /\ \A n \in DOMAIN line.regs : line.regs[n] <= 31
        /\ line.op \in {"ADD", "SUB", "ADDI", "MOV", "LUI", "LOAD", "LOADB"}
              => line.regs[1] # RA
        /\ line.op = "LOAD" => line.regs[2] = ZERO
        /\ line.op = "STORE" => line.regs[1] = ZERO
        /\ line.op \in {"JMP", "CALL", "BEQ", "BNE"}
              => line.value \in {4 * j : j \in 0 .. Len(source)}

\* The tests of vm_step are enough for such a program: it never reads or
\* writes outside the virtual machine's buffers, nor an unaligned word.
TameStaysInside ==
    source # <<>> /\ Tame /\ ~misread => state # "UNDEFINED"

\* The registers keep their width and zero its value, and a tame program
\* stays inside.
VmInvariant == TypeOK /\ TameStaysInside
=============================================================================
