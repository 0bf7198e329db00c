--------------------------------- MODULE Vcpu ---------------------------------
(****************************************************************************)
(* extern/isa/vcpu.hpp, the virtual processor, in two parts.                *)
(*                                                                          *)
(* What the instructions compute: immediates loaded a few bits at a time,   *)
(* arithmetic in the type of a register with its flags, comparisons and the *)
(* branches on them.  The word of 64 bits is one of Width, the field of 4   *)
(* bits one of Nibble; of the register types the two whole ones.  Nothing   *)
(* sets the registers for the remainder, the high product and the bits      *)
(* shifted out (wruxr is not written yet), so they are not kept.            *)
(*                                                                          *)
(* Calls.  A call names the registers its caller wants back; they are saved *)
(* no sooner than something changes them (psm has the bits of those still   *)
(* to be saved), each on a stack of its own that has four groups in the     *)
(* processor and spills the rest into memory.                               *)
(****************************************************************************)
EXTENDS Integers, Sequences, FiniteSets, Bitwise

CONSTANTS
    Width, Nibble,
    Field,              \* what the instructions have in a field of Nibble bits
    Operand,            \* what the registers hold at first
    Offset,             \* jump distances, none of them 0
    Opcode              \* the opcodes that are executed

ASSUME OpsAssumption == /\ {Width, Nibble} \subseteq Nat \ {0} /\ Width >= 4 * Nibble
                        /\ Operand \subseteq 0 .. 2 ^ Width - 1 /\ Field \subseteq 0 .. 2 ^ Nibble - 1
                        /\ Offset \subseteq 1 .. 2 ^ (2 * Nibble) - 1
                        /\ Opcode \subseteq 0 .. 255

VARIABLES
    reg, kind,          \* value and type of each register
    flag,               \* sta: gt, eq, zf, cf, uf
    imm,                \* rim: the bits loaded and their number
    last                \* the instruction executed last (bound: one,
                        \* and a branch after it), with its operands

opsVars == <<reg, kind, flag, imm, last>>

Temp   == 15            \* opt, the register of the short forms
Named  == {1, Temp}
Kinds  == {"u64", "i64"}
Mod    == 2 ^ Width
AllOn  == Mod - 1
Cut(x)      == x % Mod
Negative(v) == v >= Mod \div 2
Number(k, v) == IF k = "i64" /\ Negative(v) THEN v - Mod ELSE v
Bit01(p)    == IF p THEN 1 ELSE 0
Nothing     == [op |-> "none", kind |-> "u64", b |-> 0, c |-> 0, result |-> 0]

------------------------------------------------------------------------------
(* imm_t: the instruction's opcode is in the bits as well, and of its second *)
(* byte only half                                                            *)
Loaded(value, bits) ==
    [value |-> Cut(imm.value + value * 2 ^ imm.bits), bits |-> imm.bits + bits]
NoImm == [value |-> 0, bits |-> 0]

(* read_with_clear: a shift by the whole word has no defined result          *)
ReadImm(k, im) ==
    LET top == im.bits > 0 /\ im.value >= 2 ^ (im.bits - 1)
    IN  IF top /\ (k = "i64" \/ im.bits > Nibble) /\ im.bits <= Width
        THEN IF im.bits = Width THEN {im.value, AllOn} ELSE {im.value + Mod - 2 ^ im.bits}
        ELSE {im.value}

LoadImm ==
    /\ last = Nothing
    /\ \E low, high \in Field :
        /\ imm.bits + 3 * Nibble <= Width
        /\ imm' = Loaded(low + (2 ^ Nibble - 1) * 2 ^ Nibble + high * 2 ^ (2 * Nibble), 3 * Nibble)
        /\ UNCHANGED <<reg, kind, flag, last>>

------------------------------------------------------------------------------
(* The operations: a set of results, one unless the code leaves it undefined *)
Outcome(v, f) == [value |-> v, flag |-> f]

Sum_CarryAsSigned(k, b, c, f) ==
    LET a == Cut(b + c)
    IN  Outcome(a, [f EXCEPT !.cf = Bit01(~Negative(b) /\ ~Negative(c) /\ Negative(a)),
                             !.uf = Bit01(Negative(b) /\ Negative(c) /\ ~Negative(a))])
Sum(k, b, c, f) ==
    LET a == Cut(b + c)
    IN  IF k = "i64"
        THEN Outcome(a, [f EXCEPT !.uf = Bit01(Negative(b) /\ Negative(c) /\ ~Negative(a)),
                                  !.cf = Bit01(~Negative(b) /\ ~Negative(c) /\ Negative(a))])
        ELSE Outcome(a, [f EXCEPT !.cf = Bit01(b + c >= Mod), !.uf = 0])

Compared(k, b, c, f) == [f EXCEPT !.gt = Bit01(Number(k, b) > Number(k, c)), !.eq = Bit01(b = c)]
Difference(k, b, c, f) ==
    LET sum == Sum(k, b, Cut(-c), f) IN Outcome(sum.value, Compared(k, b, c, sum.flag))

(* 2^index_of_last_set(v)                                                    *)
TopOf(v) == 2 ^ (CHOOSE i \in 0 .. Width : 2 ^ i <= v /\ v < 2 ^ (i + 1))

(* A product with a negative factor fills the high half from its top bit on; *)
(* without a bit the shift is undefined, with flags of either kind.          *)
Product(k, b, c, f) ==
    LET differ == k = "i64" /\ Negative(b) /= Negative(c)
        both   == k = "i64" /\ Negative(b) /\ Negative(c)
        high   == (b * c) \div Mod
        whole  == IF both THEN Cut(-b) * Cut(-c) ELSE b * c
        unders == IF high = 0 THEN {0, 1} ELSE {Bit01(high + 1 /= 2 * TopOf(high))}
    IN  IF differ THEN {Outcome(Cut(b * c), [f EXCEPT !.cf = 0, !.uf = u]) : u \in unders}
        ELSE {Outcome(Cut(whole), [f EXCEPT !.cf = Bit01(whole >= Mod), !.uf = 0])}

Truncated(x, y) == LET q == (IF x < 0 THEN -x ELSE x) \div (IF y < 0 THEN -y ELSE y)
                   IN  IF (x < 0) = (y < 0) THEN q ELSE -q
(* The smallest number divided by -1 stops the program                       *)
Divides(k, b, c) == ~(k = "i64" /\ b = Mod \div 2 /\ c = AllOn)
Quotient(k, b, c, f) ==
    LET x == Number(k, b)
    IN  IF c /= 0 THEN Outcome(Cut(Truncated(x, Number(k, c))), f)
        ELSE Outcome(CASE x > 0 -> IF k = "i64" THEN Mod \div 2 - 1 ELSE AllOn
                       [] x < 0 -> Mod \div 2
                       [] x = 0 -> 1,
                     [f EXCEPT !.cf = Bit01(x > 0), !.uf = Bit01(x < 0)])

(* The bits shifted out, u128.low of shift_right and u128.high of shift_left *)
OutRight(b, c) == IF c = 0 THEN {b, 0}
                  ELSE {IF c < Width THEN Cut(b * 2 ^ (Width - c))
                        ELSE IF c < 2 * Width THEN b \div 2 ^ (c - Width) ELSE 0}
OutLeft(b, c)  == IF c = 0 THEN {b, 0}
                  ELSE {IF c < Width THEN b \div 2 ^ (Width - c)
                        ELSE IF c < 2 * Width THEN Cut(b * 2 ^ (c - Width)) ELSE 0}
Right(b, c, f) ==
    LET a == IF c < Width THEN b \div 2 ^ c ELSE 0
        v == IF a = 0 THEN 0 ELSE a + Mod - 2 * TopOf(a)
    IN  {Outcome(v, [f EXCEPT !.cf = Bit01(Negative(o)), !.zf = Bit01(v = 0)]) : o \in OutRight(b, c)}
Left(b, c, f) ==
    LET a == IF c < Width THEN Cut(b * 2 ^ c) ELSE 0
    IN  {Outcome(a, [f EXCEPT !.cf = o % 2, !.zf = Bit01(a = 0)]) : o \in OutLeft(b, c)}

AluOps == {"add", "sub", "mul", "div", "shr", "shl"}
Alu(op, k, b, c, f) ==
    CASE op = "add" -> {Sum(k, b, c, f)}
      [] op = "sub" -> {Difference(k, b, c, f)}
      [] op = "mul" -> Product(k, b, c, f)
      [] op = "div" -> {Quotient(k, b, c, f)}
      [] op = "shr" -> Right(b, c, f)
      [] op = "shl" -> Left(b, c, f)

LogicOps == {"band", "bor", "bxor", "bnand"}
Logic(op, b, c) ==
    CASE op = "band"  -> b & c
      [] op = "bor"   -> b | c
      [] op = "bxor"  -> b ^^ c
      [] op = "bnand" -> AllOn - (b & c)

Give(r, k, op, b, c, out) ==
    /\ reg'  = [reg EXCEPT ![r] = out.value]
    /\ kind' = [kind EXCEPT ![r] = k]
    /\ flag' = out.flag
    /\ last' = [op |-> op, kind |-> k, b |-> b, c |-> c, result |-> out.value]
    /\ imm'  = NoImm

------------------------------------------------------------------------------
(* f8: three operands of the registers a, b, t and the immediate i; the type *)
(* is that of the first register named, and the immediate is cleared by all  *)
AluForms == {"abt", "atb", "aab", "tab", "aai", "aia", "tai", "tia"}
Execute8 ==
    /\ last = Nothing
    /\ \E op \in AluOps, form \in AluForms, opa, opb \in Named, im4 \in Field :
        LET role == CASE form = "abt" -> kind[opb] [] form = "atb" -> kind[Temp] [] OTHER -> kind[opa]
            to   == IF form \in {"tab", "tai", "tia"} THEN Temp ELSE opa
            with == IF form \in {"abt", "atb"} THEN imm ELSE Loaded(im4, Nibble)
        IN  \E i \in ReadImm(role, with) :
                LET b == CASE form = "abt" -> reg[opb] [] form = "atb" -> reg[Temp]
                           [] form \in {"aia", "tia"} -> i [] OTHER -> reg[opa]
                    c == CASE form = "abt" -> reg[Temp] [] form \in {"atb", "aab", "tab"} -> reg[opb]
                           [] form \in {"aia", "tia"} -> reg[opa] [] OTHER -> i
                IN  /\ op = "div" => Divides(role, b, c)
                    /\ \E out \in Alu(op, role, b, c, flag) : Give(to, role, op, b, c, out)

(* f4: the logical ones; the immediate is read only in the form tai          *)
Execute4 ==
    /\ last = Nothing /\ imm = NoImm
    /\ \E op \in LogicOps, form \in {"aab", "abt", "tab", "tai"}, opa, opb \in Named, im4 \in Field :
        LET k  == IF form = "abt" THEN kind[opb] ELSE kind[opa]
            to == IF form \in {"aab", "abt"} THEN opa ELSE Temp
        IN  \E i \in ReadImm("i64", Loaded(im4, Nibble)) :
                LET b == IF form = "abt" THEN reg[opb] ELSE reg[opa]
                    c == CASE form = "abt" -> reg[Temp] [] form = "tai" -> i [] OTHER -> reg[opb]
                    v == Logic(op, b, c)
                IN  Give(to, k, op, b, c, Outcome(v, [flag EXCEPT !.zf = Bit01(v = 0)]))

(* movq*: a whole number of fewer bits, with its sign or without             *)
Extended(k, v, bits) ==
    LET w == v % 2 ^ bits
    IN  IF k = "i64" /\ w >= 2 ^ (bits - 1) THEN w + Mod - 2 ^ bits ELSE w
Move ==
    /\ last = Nothing /\ imm = NoImm
    /\ \E opa, opb \in Named, k \in Kinds, bits \in {Width \div 4, Width \div 2, Width} :
        Give(opa, k, "mov", reg[opb], bits, Outcome(Extended(k, reg[opb], bits), flag))

(* ld*: the sign is extended where there is none                             *)
ReadMemory(k, v, bits) ==
    LET w == v % 2 ^ bits
    IN  IF k = "i64" /\ w < 2 ^ (bits - 1) THEN w + Mod - 2 ^ bits ELSE w
LoadMemory ==
    /\ last = Nothing /\ imm = NoImm
    /\ \E opa \in Named, k \in Kinds, bits \in {Width \div 4, Width \div 2}, v \in Operand :
        Give(opa, k, "ld", v, bits, Outcome(ReadMemory(k, v, bits), flag))

(* bdc*: one value for some of the four registers of a bank                  *)
Broadcast ==
    /\ last = Nothing /\ imm = NoImm
    /\ \E some \in SUBSET Named, opb \in Named, k \in Kinds, im4 \in Field, direct \in BOOLEAN :
        \E i \in IF direct THEN {reg[opb]} ELSE ReadImm(k, Loaded(im4, Nibble)) :
            /\ \A r, s \in some : r \div 4 = s \div 4
            /\ reg'  = [r \in Named |-> IF r \in some THEN i ELSE reg[r]]
            /\ kind' = [r \in Named |-> IF r \in some THEN k ELSE kind[r]]
            /\ last' = [Nothing EXCEPT !.op = "bdc", !.kind = k, !.b = i, !.result = i]
            /\ UNCHANGED <<flag, imm>>

(* cmp: no opcode is told from the others, all take the immediate            *)
CompareWith ==
    /\ last = Nothing
    /\ \E opa \in Named, im4 \in Field :
        \E i \in ReadImm(kind[opa], Loaded(im4, Nibble)) :
            /\ flag' = Compared(kind[opa], reg[opa], i, flag)
            /\ last' = [Nothing EXCEPT !.op = "cmp", !.kind = kind[opa], !.b = reg[opa], !.c = i]
            /\ imm'  = NoImm
            /\ UNCHANGED <<reg, kind>>

------------------------------------------------------------------------------
Branches == {"ifeq", "ifne", "ifle", "iflt", "ifge", "ifgt", "ifzf", "ifnz", "ifcf", "ifnc",
             "ifuf", "ifnu", "jmp"}

Contiguous_SwapsLess(cond) ==
    CASE cond = "ifeq" -> flag.eq = 1
      [] cond = "ifne" -> flag.eq = 0
      [] cond = "ifle" -> flag.gt = 0 /\ flag.eq = 0
      [] cond = "ifge" -> flag.eq = 1 \/ flag.gt = 1
      [] OTHER         -> FALSE

(* Whether the next instruction follows, as the code has it                  *)
Contiguous(cond) ==
    CASE cond = "ifeq" -> flag.eq = 1
      [] cond = "ifne" -> flag.eq = 0
      [] cond = "ifle" -> flag.eq = 1 \/ flag.gt = 0
      [] cond = "iflt" -> flag.eq = 0 \/ flag.gt = 0
      [] cond = "ifge" -> flag.eq = 1 \/ flag.gt = 1
      [] cond = "ifgt" -> flag.eq = 0 \/ flag.gt = 1
      [] cond = "ifzf" -> flag.zf = 1
      [] cond = "ifnz" -> flag.zf = 0
      [] cond = "ifcf" -> flag.cf = 1
      [] cond = "ifnc" -> flag.cf = 0
      [] cond = "ifuf" -> flag.uf = 1
      [] cond = "ifnu" -> flag.uf = 0
      [] cond = "jmp"  -> FALSE

(* The branch reads an immediate of its own 8 bits and those loaded before;   *)
(* bound: only after a comparison or a difference.                           *)
Branch ==
    /\ last.op \in {"sub", "cmp"}
    /\ \E cond \in Branches, im8 \in Offset :
        \E i \in ReadImm("i64", Loaded(im8, 2 * Nibble)) :
            /\ last' = [last EXCEPT !.op = cond, !.result =
                            IF Contiguous(cond) THEN 1 ELSE Number("i64", i) + 1]
            /\ imm' = NoImm
            /\ UNCHANGED <<reg, kind, flag>>

NoFlag == [gt |-> 0, eq |-> 0, zf |-> 0, cf |-> 0, uf |-> 0]
------------------------------------------------------------------------------
(* cmd_t: the groups of instructions in the order of their opcodes, with the *)
(* number of instructions and the opcodes each of them has.                  *)
InstructionSet == <<
    <<"cif", 4, 4>>, <<"if", 13, 1>>, <<"ret", 1, 1>>, <<"jal", 2, 1>>, <<"bdc", 8, 4>>,
    <<"mov", 24, 1>>, <<"rduxr", 1, 2>>, <<"rdpri", 1, 2>>, <<"wruxr", 1, 2>>, <<"wrpri", 1, 2>>,
    <<"ld", 8, 2>>, <<"lds", 2, 2>>, <<"lddz", 2, 2>>, <<"st", 4, 2>>,
    <<"band", 1, 4>>, <<"bor", 1, 4>>, <<"bxor", 1, 4>>, <<"bnand", 1, 4>>,
    <<"add", 1, 8>>, <<"sub", 1, 8>>, <<"mul", 1, 8>>, <<"div", 1, 8>>, <<"shr", 1, 8>>, <<"shl", 1, 8>>,
    <<"cmp", 1, 4>>, <<"bop", 1, 4>>, <<"miax", 1, 1>>, <<"swap", 1, 1>>, <<"lock", 1, 1>>,
    <<"token", 1, 1>>, <<"unused", 36, 1>>, <<"imm", 16, 1>> >>

FirstCode[g \in 1 .. Len(InstructionSet) + 1] ==
    IF g = 1 THEN 0 ELSE FirstCode[g - 1] + InstructionSet[g - 1][2] * InstructionSet[g - 1][3]

InstructionOf(code) == CHOOSE g \in 1 .. Len(InstructionSet) : code \in FirstCode[g] .. FirstCode[g + 1] - 1

(* Mistake: as cmp, the last of the arithmetic takes opcodes of the next     *)
Registered_TooMany(g) ==
    CASE g[1] \in {"rduxr", "rdpri", "wruxr", "wrpri", "lddz", "bop", "miax",
                  "swap", "lock", "token", "unused"} -> 0
      [] g[1] \in {"cmp", "sub"} -> 9
      [] OTHER -> g[2] * g[3]
(* The table of the constructor: how many opcodes from the first of a group  *)
(* on get its handler.  Where an instruction has several opcodes, the last   *)
(* instruction of the group gets it for its first one only; cmp gets it for  *)
(* the four of bop too.                                                      *)
Registered(g) ==
    CASE g[1] \in {"rduxr", "rdpri", "wruxr", "wrpri", "lddz", "bop", "miax",
                  "swap", "lock", "token", "unused"} -> 0
      [] g[1] \in {"cif", "bdc", "ld", "lds", "st"}   -> (g[2] - 1) * g[3] + 1
      [] g[1] = "cmp"                                -> 8
      [] OTHER                                       -> g[2] * g[3]

(* cmd: a later assignment wins; "none" was never assigned                   *)
Cmd == [code \in 0 .. 255 |->
    LET taken == {g \in 1 .. Len(InstructionSet) :
                    code \in FirstCode[g] .. FirstCode[g] + Registered(InstructionSet[g]) - 1}
    IN  IF taken = {} THEN "none"
        ELSE InstructionSet[CHOOSE g \in taken : \A other \in taken : other <= g][1]]

(* run and exec: the instruction is read and its handler called              *)
Exec ==
    /\ last = Nothing /\ imm = NoImm
    /\ \E opc \in Opcode :
        last' = [Nothing EXCEPT !.op = "exec", !.kind = Cmd[opc], !.b = opc, !.result = InstructionOf(opc)]
    /\ UNCHANGED <<reg, kind, flag, imm>>

OpsInit ==
    /\ reg \in [Named -> Operand] /\ kind \in [Named -> Kinds]
    /\ flag = NoFlag
    /\ imm = NoImm /\ last = Nothing

OpsNext ==
    \/ LoadImm
    \/ Execute8
    \/ Execute4
    \/ Move
    \/ LoadMemory
    \/ Broadcast
    \/ CompareWith
    \/ Branch
    \/ Exec

OpsSpec == OpsInit /\ [][OpsNext]_opsVars
------------------------------------------------------------------------------
OpsTypeOK ==
    /\ reg \in [Named -> 0 .. AllOn] /\ kind \in [Named -> Kinds]
    /\ \A f \in DOMAIN flag : flag[f] \in {0, 1}
    /\ imm.bits \in 0 .. Width /\ imm.value < 2 ^ imm.bits

(* The number that the lowest bits of a word are                             *)
Extension(k, v, bits) ==
    CHOOSE n \in (IF k = "i64" THEN -(2 ^ (bits - 1)) .. 2 ^ (bits - 1) - 1 ELSE 0 .. 2 ^ bits - 1) :
        (n - v) % 2 ^ bits = 0

(* Sums, differences, products, quotients and shifts to the left are those   *)
(* of the numbers the registers hold, cut to the word; cf and uf of a sum    *)
(* tell on which side it left the type, eq and gt of a difference how its    *)
(* operands compare, and a quotient leaves a remainder of the dividend's     *)
(* sign; a number moved or loaded from fewer bits keeps its value.  Left out *)
(* are shifts to the right (ShiftHalves), numbers with a sign that are       *)
(* loaded (LoadKeepsSign), and the flags of products and shifts.             *)
ArithExact ==
    LET k == last.kind
        x == Number(k, last.b)
        y == Number(k, last.c)
        r == Number(k, last.result)
        least == IF k = "i64" THEN -(Mod \div 2) ELSE 0
        most  == IF k = "i64" THEN Mod \div 2 - 1 ELSE AllOn
    IN  CASE last.op = "add" -> /\ (r - x - y) % Mod = 0
                                /\ flag.cf = Bit01(x + y > most) /\ flag.uf = Bit01(x + y < least)
          [] last.op = "sub" -> /\ (r - x + y) % Mod = 0
                                /\ flag.eq = Bit01(x = y) /\ flag.gt = Bit01(x > y)
          [] last.op = "mul" -> (r - x * y) % Mod = 0
          [] last.op = "div" /\ y /= 0 ->
                 LET m == x - r * y
                 IN  (m = 0 \/ (m > 0) = (x > 0)) /\ (IF m < 0 THEN -m ELSE m) < (IF y < 0 THEN -y ELSE y)
          [] last.op = "shl" -> r % Mod = (IF last.c < Width THEN (last.b * 2 ^ last.c) % Mod ELSE 0)
          [] last.op = "mov" -> r = Extension(k, last.b, last.c)
          [] last.op = "ld" /\ k = "u64" -> r = Extension(k, last.b, last.c)
          [] OTHER -> TRUE

(* After a comparison the branches on equal, unequal, less or equal and      *)
(* greater or equal go on exactly when the numbers compared are so; those on *)
(* less and on greater go on when they are, but not only then: the code is   *)
(* wrong for other numbers (1060, 1062; BranchesAsTold).                     *)
BranchAfterCompare ==
    LET x == Number(last.kind, last.b)
        y == Number(last.kind, last.c)
    IN  /\ \A test \in {<<"ifeq", x = y>>, <<"ifne", x /= y>>, <<"ifle", x <= y>>, <<"ifge", x >= y>>} :
               last.op = test[1] => (last.result = 1) = test[2]
        /\ (last.op = "iflt" /\ x < y) \/ (last.op = "ifgt" /\ x > y) => last.result = 1

(* The first opcode of every instruction that is written goes to the handler *)
(* of its group, and none goes to that of another group, but for the four of *)
(* bop (vcpu.hpp:627).                                                       *)
ExecExact ==
    last.op = "exec" =>
        LET g == InstructionSet[last.result]
        IN  /\ last.kind \in {"none", g[1]} \/ (g[1] = "bop" /\ last.kind = "cmp")
            /\ Registered(g) > 0 /\ (last.b - FirstCode[last.result]) % g[3] = 0 => last.kind = g[1]

(* As extern/isa/README.md has it, iflt goes on if gt is 0 and ifgt if gt is *)
(* 1, and both jump otherwise.  The code does not keep this (1060, 1062).    *)
BranchesAsTold ==
    /\ last.op = "iflt" /\ last.result = 1 => flag.gt = 0
    /\ last.op = "ifgt" /\ last.result = 1 => flag.gt = 1

(* A number loaded from memory keeps its sign.  The code does not keep this: *)
(* it fills the upper bits where the sign is not set (574-591).              *)
LoadKeepsSign ==
    last.op = "ld" /\ last.kind = "i64" =>
        Number("i64", last.result) = Extension("i64", last.b, last.c)

(* As a comment on shr has it, shifting a number right by one halves it.     *)
(* The code does not keep this.                                              *)
ShiftHalves ==
    last.op = "shr" /\ last.kind = "i64" /\ last.c = 1 =>
        Number("i64", last.result) = Truncated(Number("i64", last.b), 2)

------------------------------------------------------------------------------
(* Calls                                                                    *)
CONSTANTS
    Register, Content,      \* registers and what they hold: value and type
    Junk,                   \* what memory holds that was never written
    Area, Position,         \* the two halves of an address
    Calls,                  \* [Area \X Position -> [saves, flags, area]]: the calls of the code
    PerGroup,               \* values in a group, 16 in the code
    Disciplined,            \* whether functions keep to the rules below
    MaxCalls, MaxSpilled    \* bounds: calls that are open, groups in memory

ASSUME CallsAssumption ==
    /\ PerGroup \in Nat \ {0} /\ Disciplined \in BOOLEAN /\ 0 \in Area
    /\ Calls \in [Area \X Position -> [saves : SUBSET Register, flags : BOOLEAN, area : Area]]

VARIABLES
    regs, flags,    \* the registers and the flags of sta
    psm, ps,        \* sta: registers to be saved before a change; what a return restores
    pc, cs,         \* the position, and what is on the stack of calls
    saved,          \* ctx: the values saved, for each register
    open,           \* history: the calls that have not returned
    lost            \* history: for each register, the numbers of the saved
                    \* values whose place was taken by another

callVars == <<regs, flags, psm, ps, pc, cs, saved, open, lost>>

Groups    == 4
NeedStore == (Groups - 1) * PerGroup
Groupful  == [0 .. PerGroup - 1 -> Content \cup {Junk}]
Pop(s)    == SubSeq(s, 1, Len(s) - 1)
LastOf(s) == s[Len(s)]

RegisterValues == [Register -> Content \cup {Junk}]
InCode         == Area \X Position
NothingSaved   ==
    [counter |-> 0, counterx |-> 0, mem |-> <<>>,
     group |-> [g \in 0 .. Groups - 1 |-> [k \in 0 .. PerGroup - 1 |-> Junk]]]

CallsInit ==
    /\ regs \in [Register -> Content] /\ flags = 0
    /\ psm = {} /\ ps = {}
    /\ pc \in InCode /\ cs = <<>>
    /\ saved = [r \in Register |-> NothingSaved]
    /\ open = <<>> /\ lost = [r \in Register |-> {}]

------------------------------------------------------------------------------
(* The group of a value: only the lowest bit of its number is taken, so that *)
(* the third group is the first one again                                    *)
GroupOf_First(n) == 0
GroupOf(n) == (n \div PerGroup) % 2

(* Saves a value; with three groups full one of them goes to memory, and     *)
(* with all four there is again room for one.                                *)
Push(c, v) ==
    LET i   == GroupOf(c.counter)
        in  == [c EXCEPT !.group[i][c.counter % PerGroup] = v, !.counter = @ + 1, !.counterx = @ + 1]
        old == in.group[(i + 2) % Groups]
    IN  CASE in.counterx = NeedStore         -> [in EXCEPT !.mem = Append(@, old)]
          [] in.counterx = Groups * PerGroup -> [in EXCEPT !.counterx = @ - PerGroup]
          [] OTHER                           -> in

(* Takes a value back; with one group left another comes from memory, where  *)
(* nothing was put for the groups behind the fourth                          *)
Reloads(c) == c.counterx - 1 = PerGroup /\ c.counter - 1 > PerGroup
Taken(c) ==
    LET n    == c.counter - 1
        left == [c EXCEPT !.counter = n, !.counterx = @ - 1]
        back == (GroupOf(n) + Groups - 1) % Groups
        none == c.mem = <<>>
    IN  IF Reloads(c)
        THEN [left EXCEPT !.group[back] = IF none THEN [k \in 0 .. PerGroup - 1 |-> Junk] ELSE LastOf(c.mem),
                          !.mem = IF none THEN @ ELSE Pop(@), !.counterx = @ + PerGroup]
        ELSE left
TopValue(c) == Taken(c).group[GroupOf(c.counter - 1)][(c.counter - 1) % PerGroup]

(* The values whose place is taken: by the one that is saved as number n, two *)
(* groups further on or more; and by what comes back from memory             *)
LostAt(old, n)   == (old \ {n}) \cup {m \in 0 .. n - 1 : (n - m) % (2 * PerGroup) = 0}
LostBack(old, c) ==
    LET n    == c.counter - 1
        back == (((n \div PerGroup) % 2) + Groups - 1) % Groups
        over == IF Reloads(c) THEN {m \in 0 .. n - 1 : (m \div PerGroup) % 2 = back} ELSE {}
    IN  (old \ {n}) \cup over

(* before_modify_register and the change: any instruction with a result      *)
Touches(r) == [k \in DOMAIN open |-> IF k = Len(open) THEN [open[k] EXCEPT !.touched = @ \cup {r}] ELSE open[k]]
Modify(r) ==
    \E v \in Content :
        /\ regs'  = [regs EXCEPT ![r] = v]
        /\ psm'   = psm \ {r}
        /\ saved' = IF r \in psm THEN [saved EXCEPT ![r] = Push(@, regs[r])] ELSE saved
        /\ lost'  = IF r \in psm THEN [lost EXCEPT ![r] = LostAt(@, saved[r].counter)] ELSE lost
        /\ open'  = Touches(r)
        /\ Len(saved'[r].mem) <= MaxSpilled
        /\ UNCHANGED <<flags, ps, pc, cs>>

SetFlags == flags' = 1 - flags /\ UNCHANGED <<regs, psm, ps, pc, cs, saved, open, lost>>

(* A branch to another call of the same area                                 *)
BranchTo(p) == pc' = <<pc[1], p>> /\ p /= pc[2] /\ UNCHANGED <<regs, flags, psm, ps, cs, saved, open, lost>>

(* The rules: who is to give a register back has changed it before it calls  *)
(* one that is to give it back too, and before it returns.                   *)
MayCall(saves) == Disciplined => \A k \in DOMAIN open : open[k].saves \cap saves \subseteq open[k].touched
MayReturn      == Disciplined => LastOf(open).saves \subseteq LastOf(open).touched

(* jal: what is asked for lies on the stack below the flags, the area and    *)
(* the position, which says whether there is an area; the first area is not  *)
(* taken for one.                                                            *)
Entry(name, v, cond) == IF cond THEN <<<<name, v>>>> ELSE <<>>
Pushed_NotOver(call) ==
    Entry("ps", ps, call.saves /= {}) \o Entry("flags", flags, call.flags)
    \o Entry("area", pc[1], call.area /= 0) \o <<<<"near", pc[2]>>>>
Pushed(call) ==
    Entry("ps", ps, call.saves /= {}) \o Entry("flags", flags, call.flags)
    \o Entry("area", pc[1], call.area /= 0)
    \o <<<<IF call.area /= 0 THEN "over" ELSE "near", pc[2]>>>>
Jal(p) ==
    LET call == Calls[pc]
    IN  /\ Len(open) < MaxCalls /\ MayCall(call.saves)
        /\ psm' = psm \cup call.saves
        /\ cs'  = cs \o Pushed(call)
        /\ pc'   = <<IF call.area /= 0 THEN call.area ELSE pc[1], p>>
        /\ open' = Append(open, [pc |-> pc, regs |-> regs, flags |-> flags, saves |-> call.saves,
                                 keeps |-> call.flags, touched |-> {}, depth |-> Len(cs)])
        /\ UNCHANGED <<regs, flags, ps, saved, lost>>

(* after_return for the registers that were asked for and are not waiting to *)
(* be saved: they were changed                                               *)
Recover(saves, s) == {r \in saves \ psm : s[r].counter > 0}

(* ret: the position, the area, then the call itself is read again, which    *)
(* tells what else there is; its own ps is left on the stack unread          *)
Ret ==
    LET over == LastOf(cs)[1] = "over"
        at   == <<IF over THEN cs[Len(cs) - 1][2] ELSE pc[1], LastOf(cs)[2]>>
        call == Calls[at]
        rest == SubSeq(cs, 1, Len(cs) - (IF over THEN 2 ELSE 1))
        less == IF call.flags THEN Pop(rest) ELSE rest
        back == Recover(call.saves, saved)
    IN  /\ open /= <<>> /\ MayReturn
        /\ pc'    = at
        /\ flags' = IF call.flags THEN LastOf(rest)[2] ELSE flags
        /\ cs'    = IF call.saves = {} THEN less ELSE Pop(less)
        /\ ps'    = IF call.saves = {} THEN ps ELSE call.saves
        /\ regs'  = [r \in Register |-> IF r \in back THEN TopValue(saved[r]) ELSE regs[r]]
        /\ saved' = [r \in Register |-> IF r \in back THEN Taken(saved[r]) ELSE saved[r]]
        /\ lost'  = [r \in Register |-> IF r \in back THEN LostBack(lost[r], saved[r]) ELSE lost[r]]
        /\ open'  = LET rests == Pop(open) IN
                    [k \in DOMAIN rests |-> IF k = Len(rests)
                        THEN [rests[k] EXCEPT !.touched = @ \cup (LastOf(open).touched \ call.saves)]
                        ELSE rests[k]]
        /\ UNCHANGED psm

CallsNext ==
    \/ \E r \in Register : Modify(r)
    \/ SetFlags
    \/ \E p \in Position : BranchTo(p)
    \/ \E p \in Position : Jal(p)
    \/ Ret

CallsSpec == CallsInit /\ [][CallsNext]_callVars
------------------------------------------------------------------------------
CallsTypeOK ==
    /\ regs \in RegisterValues
    /\ psm \subseteq Register /\ pc \in InCode
    /\ \A r \in Register : /\ saved[r].counterx \in 0 .. Groups * PerGroup - 1
                           /\ saved[r].group \in [0 .. Groups - 1 -> Groupful]

(* A return goes back behind the call it returns from, with the stack as it  *)
(* was and the flags if they were asked for.                                 *)
ReturnsToCall ==
    [][Len(open') < Len(open) =>
           /\ pc' = LastOf(open).pc /\ Len(cs') = LastOf(open).depth
           /\ LastOf(open).keeps => flags' = LastOf(open).flags]_callVars

(* The registers a call asked to keep are what they were, save one whose     *)
(* value was written over: the group of a value is the lowest bit of its     *)
(* number (715, 757), so that the value saved two groups later takes its     *)
(* place before it has gone to memory.  And it is functions that keep to the *)
(* rules of MayCall and MayReturn of which this is said.                     *)
RegistersKept ==
    [][Len(open') < Len(open) =>
           \A r \in LastOf(open).saves :
               saved[r].counter - 1 \notin lost[r] => regs'[r] = LastOf(open).regs[r]]_callVars

(* The same without exception, as the four groups and the memory behind them *)
(* (664-695) are meant to give.  The code does not keep this from the third  *)
(* group on.                                                                 *)
SpilledKept ==
    [][Len(open') < Len(open) =>
           \A r \in LastOf(open).saves : regs'[r] = LastOf(open).regs[r]]_callVars
==============================================================================
