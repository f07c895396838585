------------------------------ MODULE Verifier ------------------------------
(***************************************************************************)
(* The two static checks of a program: wai_verify_program (verifier.c),    *)
(* behind `waivm verify`, and validate_program (bytecode.c), behind every  *)
(* write and read of a bytecode file.  They are written separately, each   *)
(* with its own case tables, and each returns the error of the first bad   *)
(* instruction; their tables are kept apart here too.                      *)
(***************************************************************************)
EXTENDS Instruction

(* The scan both functions make: the first instruction whose check is not  *)
(* OK decides.                                                             *)
FirstBad(program, Check(_, _)) ==
    CHOOSE i \in 1..Len(program) :
        /\ Check(program, program[i]) # "OK"
        /\ \A j \in 1..(i - 1) : Check(program, program[j]) = "OK"

AllGood(program, Check(_, _)) ==
    \A i \in 1..Len(program) : Check(program, program[i]) = "OK"

----------------------------------------------------------------------------
(* Mutants of the tables: a case label is missing, or in the wrong case. *)
VerifiesOneRegNoNot ==
    {"MOV_IMM", "ADD_IMM", "SUB_IMM", "MUL_IMM", "DIV_IMM", "MOD_IMM",
     "AND_IMM", "OR_IMM", "XOR_IMM", "CMP_IMM", "LOAD_ABS", "STORE_ABS",
     "PUSH", "POP", "PRINT", "JZ", "JNZ", "SHL_IMM", "SHR_IMM"}
VerifiesTwoRegsCmpImm ==
    {"MOV_REG", "ADD_REG", "SUB_REG", "MUL_REG", "DIV_REG", "MOD_REG",
     "AND_REG", "OR_REG", "XOR_REG", "CMP_REG", "CMP_IMM", "LOAD_REG",
     "STORE_REG", "SHL_REG", "SHR_REG"}
ValidatesNoRegNoRet == {"JMP", "CALL", "JE", "JNE", "HALT", "NOP"}

(* verifier.c: the cases of its first switch. *)
VerifiesOneReg ==
    {"MOV_IMM", "ADD_IMM", "SUB_IMM", "MUL_IMM", "DIV_IMM", "MOD_IMM",
     "AND_IMM", "OR_IMM", "XOR_IMM", "CMP_IMM", "LOAD_ABS", "STORE_ABS",
     "PUSH", "POP", "PRINT", "NOT", "JZ", "JNZ", "SHL_IMM", "SHR_IMM"}
VerifiesTwoRegs ==
    {"MOV_REG", "ADD_REG", "SUB_REG", "MUL_REG", "DIV_REG", "MOD_REG",
     "AND_REG", "OR_REG", "XOR_REG", "CMP_REG", "LOAD_REG", "STORE_REG",
     "SHL_REG", "SHR_REG"}

VerifyReg(ins) ==
    /\ ins.op \in VerifiesOneReg \cup VerifiesTwoRegs => ValidReg(ins.a)
    /\ ins.op \in VerifiesTwoRegs => ValidReg(ins.b)

VerifyJump(program, ins) ==
    ins.op \in {"JMP", "JZ", "JNZ", "CALL", "JE", "JNE"} =>
        ~BadTarget(program, ins.imm)

VerifyIns(program, ins) ==
    IF ins.c # 0 THEN "PARSE"
    ELSE IF ins.op = "INVALID" THEN "BAD_OPCODE"
    ELSE IF ~VerifyReg(ins) THEN "BAD_REGISTER"
    ELSE IF ins.op \in {"SHL_IMM", "SHR_IMM"} /\ BadShift(ins.imm)
         THEN "BAD_SHIFT"
    ELSE IF ins.op \in {"DIV_IMM", "MOD_IMM"} /\ ins.imm = 0 THEN "DIV_ZERO"
    ELSE IF ~VerifyJump(program, ins) THEN "BAD_JUMP"
    ELSE IF ins.op \in {"LOAD_ABS", "STORE_ABS"} /\ BadAddress(ins.imm)
         THEN "MEMORY_OOB"
    ELSE "OK"

(* The result and the ip of the report; the message is not modelled. *)
VerifyProgram(program) ==
    IF AllGood(program, VerifyIns) THEN [error |-> "OK", ip |-> 0]
    ELSE LET i == FirstBad(program, VerifyIns)
         IN  [error |-> VerifyIns(program, program[i]), ip |-> i - 1]

----------------------------------------------------------------------------
(* bytecode.c: instruction_registers_valid. *)
ValidatesOneReg ==
    {"MOV_IMM", "ADD_IMM", "SUB_IMM", "MUL_IMM", "DIV_IMM", "MOD_IMM",
     "AND_IMM", "OR_IMM", "XOR_IMM", "SHL_IMM", "SHR_IMM", "JZ", "JNZ",
     "PRINT", "LOAD_ABS", "STORE_ABS", "PUSH", "POP", "CMP_IMM", "NOT"}
ValidatesTwoRegs ==
    {"MOV_REG", "ADD_REG", "SUB_REG", "MUL_REG", "DIV_REG", "MOD_REG",
     "AND_REG", "OR_REG", "XOR_REG", "SHL_REG", "SHR_REG", "LOAD_REG",
     "STORE_REG", "CMP_REG"}
ValidatesNoReg == {"JMP", "CALL", "JE", "JNE", "HALT", "RET", "NOP"}

InstructionRegistersValid(ins) ==
    \/ ins.op \in ValidatesOneReg /\ ValidReg(ins.a)
    \/ ins.op \in ValidatesTwoRegs /\ ValidReg(ins.a) /\ ValidReg(ins.b)
    \/ ins.op \in ValidatesNoReg

ValidateIns(program, ins) ==
    IF ins.c # 0 THEN "PARSE"
    ELSE IF ins.op = "INVALID" THEN "BAD_OPCODE"
    ELSE IF ~InstructionRegistersValid(ins) THEN "BAD_REGISTER"
    ELSE IF /\ ins.op \in {"JMP", "JZ", "JNZ", "CALL", "JE", "JNE"}
            /\ BadTarget(program, ins.imm) THEN "BAD_JUMP"
    ELSE IF ins.op \in {"DIV_IMM", "MOD_IMM"} /\ ins.imm = 0 THEN "DIV_ZERO"
    ELSE IF ins.op \in {"LOAD_ABS", "STORE_ABS"} /\ BadAddress(ins.imm)
         THEN "MEMORY_OOB"
    ELSE IF ins.op \in {"SHL_IMM", "SHR_IMM"} /\ BadShift(ins.imm)
         THEN "BAD_SHIFT"
    ELSE "OK"

ValidateProgram(program) ==
    IF AllGood(program, ValidateIns) THEN "OK"
    ELSE ValidateIns(program, program[FirstBad(program, ValidateIns)])

(* What the validation can find in an instruction the assembler made:      *)
(* an immediate it does not look at, or a label after the last instruction. *)
RefusableFor(program, ins) ==
    LET error == ValidateIns(program, ins)
    IN  error \in {"OK", "DIV_ZERO", "MEMORY_OOB", "BAD_SHIFT"}
            \/ (error = "BAD_JUMP" /\ ins.imm = Len(program))
=============================================================================
