----------------------------- MODULE Instruction -----------------------------
(***************************************************************************)
(* The instruction format of waivm: opcodes, the operands each opcode      *)
(* reads, and the checks the engines and the verifiers share.  An          *)
(* instruction has an opcode byte, two register bytes a and b, a reserved  *)
(* byte c and a value imm.  Every opcode byte outside 1..41 is the one     *)
(* opcode "INVALID" here.  A program is the sequence of its instructions;  *)
(* instruction index i of the program is element i + 1 of the sequence.    *)
(***************************************************************************)
EXTENDS Word, Sequences

CONSTANTS
    RegisterCount,  \* WAI_REGISTER_COUNT
    MemorySize      \* WAI_MEMORY_SIZE, in bytes

ASSUME MachineAssumption ==
    /\ RegisterCount \in Nat \ {0}
    /\ MemorySize \in Nat
    /\ MemorySize >= ValueSize
    /\ MemorySize % ValueSize = 0

ImmOps == {"MOV_IMM", "ADD_IMM", "SUB_IMM", "MUL_IMM", "AND_IMM", "OR_IMM",
           "XOR_IMM"}
RegOps == {"MOV_REG", "ADD_REG", "SUB_REG", "MUL_REG", "AND_REG", "OR_REG",
           "XOR_REG"}
AluOps == ImmOps \cup RegOps
BitOps == {"AND_IMM", "AND_REG", "OR_IMM", "OR_REG", "XOR_IMM", "XOR_REG"}
DivOps == {"DIV_IMM", "DIV_REG", "MOD_IMM", "MOD_REG"}
ShiftOps == {"SHL_IMM", "SHL_REG", "SHR_IMM", "SHR_REG"}
CmpOps == {"CMP_IMM", "CMP_REG"}
LoadOps == {"LOAD_ABS", "LOAD_REG"}
StoreOps == {"STORE_ABS", "STORE_REG"}
JumpOps == {"JMP", "JZ", "JNZ", "JE", "JNE"}
UnaryOps == {"NOT", "PRINT", "PUSH", "POP"}

Opcode == AluOps \cup DivOps \cup ShiftOps \cup CmpOps \cup LoadOps
            \cup StoreOps \cup JumpOps \cup UnaryOps
            \cup {"CALL", "RET", "HALT", "NOP"}

(* The opcodes whose second operand is the register b instead of imm. *)
SecondRegOps == RegOps \cup {"DIV_REG", "MOD_REG", "SHL_REG", "SHR_REG",
                             "CMP_REG", "LOAD_REG", "STORE_REG"}
(* The opcodes that read or write register a. *)
FirstRegOps == (Opcode \ {"JMP", "JE", "JNE", "CALL", "RET", "HALT", "NOP"})

Instruction == [op : Opcode \cup {"INVALID"}, a : Nat, b : Nat, c : Nat,
                imm : Value]

Register == 0 .. (RegisterCount - 1)
ValidReg(r) == r < RegisterCount

BadRegister(ins) ==
    \/ ins.op \in FirstRegOps /\ ~ValidReg(ins.a)
    \/ ins.op \in SecondRegOps /\ ~ValidReg(ins.b)

(* Mutant of BadTarget: only negative targets are refused. *)
BadTargetUnbounded(code, v) == v < 0

(* An address holds a whole value; a jump target is an instruction index;  *)
(* a shift count is below the word's width (0..63).                        *)
BadAddress(v) == v < 0 \/ v > MemorySize - ValueSize
BadTarget(code, v) == v < 0 \/ v >= Len(code)
BadShift(v) == v < 0 \/ v > WordBits - 1

ErrorCode == {"OK", "PARSE", "BAD_OPCODE", "IP_OUT_OF_BOUNDS",
              "BAD_REGISTER", "DIV_ZERO", "BAD_JUMP", "MEMORY_OOB",
              "STACK_OVERFLOW", "STACK_UNDERFLOW", "BAD_SHIFT"}
=============================================================================
