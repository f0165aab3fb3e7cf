----------------------------- MODULE Arithmetic -----------------------------
(***************************************************************************)
(* The arithmetic, comparison and bit instructions of instructions.h on    *)
(* two operands read from memory (a third for ADDMOD and MULMOD).  One     *)
(* behaviour executes one instruction; the loops of divmod256 and of EXP   *)
(* are steps.                                                              *)
(***************************************************************************)
EXTENDS Uint256

CONSTANTS
    OffsetBits,   (* 32: SHL, SHR and SAR read the shift as an uint32_t      *)
    ExpByteCost,  (* 50                                                     *)
    Operands,     (* pairs of buffers the operands are read from            *)
    Moduli,       (* third operands                                         *)
    Exponents,    (* operands EXP is given: it loops that often             *)
    GasLimits

ASSUME ArithmeticAssumption ==
    /\ OffsetBits \in 1..LimbBits /\ Power2[OffsetBits] > 4 * LimbBits
    /\ ExpByteCost \in Nat /\ GasLimits \subseteq Nat
    /\ Operands \subseteq WordBuffers \X WordBuffers
    /\ Moduli \subseteq WordBuffers /\ Exponents \subseteq Nat

VARIABLES
    input,    (* the pair of buffers                                        *)
    x, y,     (* the operands: the top of the stack and the item below      *)
    op,       (* the instruction                                            *)
    phase,    (* "ready", "dividing", "raising", "done", "OUT_OF_GAS"       *)
    result,   (* what the instruction leaves in the place of its operands   *)
    div,      (* the locals of divmod256                                    *)
    power     (* the locals of exp_                                         *)

vars == <<input, x, y, op, phase, result, div, power>>

operands == <<input, x, y>>

Word(n) == <<clear128, <<0, n>>>>
NoDivision == [l |-> clear256, r |-> clear256, copyd |-> clear256, adder |-> clear256,
               resDiv |-> clear256, resMod |-> clear256]
NoPower == [target |-> clear256, exponent |-> clear256]

-----------------------------------------------------------------------------
Small(n, bound) == zero128(UPPER(n)) /\ UPPER(LOWER(n)) = 0 /\ LOWER(LOWER(n)) < bound

\* Byte n of a number, 0 the highest.
ByteFromTop(n, a) ==
    LET count == 4 * LimbBytes
        index == count - 1 - (LOWER(LOWER(n)) % count)
    IN  Word(IF Small(n, count) THEN ByteAt(a, index) ELSE 0)

offset(n) == LOWER(LOWER(n)) % Power2[OffsetBits]

Negative(a) == 2 * u256_index(a, 3) >= Base

\* The ones are shifted by the offset and not by what is left of it.
ShiftedSigned(n, a) ==
    LET sign_mask == IF Negative(a) THEN not256(clear256) ELSE clear256
    IN  add256(shiftr256(a, offset(n)), shiftl256(sign_mask, offset(n)))

\* The sign word itself is overwritten, with the bytes above the sign byte,
\* shifted as an unsigned number.
SignExtended(n, a) ==
    LET index     == LOWER(LOWER(n)) \div LimbBytes
        byte      == ByteAt(a, LOWER(LOWER(n)) % (4 * LimbBytes))
        sext_byte == IF 2 * byte >= ByteBase THEN Base - ByteBase + byte ELSE byte
        sign_ex   == Shr(sext_byte, ByteBits)
    IN  IF ~Small(n, 4 * LimbBytes - 1) \/ index = 3 THEN a
        ELSE CASE index = 0 -> <<UPPER(a), <<UPPER(LOWER(a)), sign_ex>>>>
               [] index = 1 -> <<UPPER(a), <<sign_ex, LOWER(LOWER(a))>>>>
               [] index = 2 -> <<<<UPPER(UPPER(a)), sign_ex>>, LOWER(a)>>

clz(limb) == LimbBits - Bits(limb)
count_significant_bytes(limb) == (LimbBits - clz(limb) + ByteBits - 1) \div ByteBits

\* A limb is cut to half its width, r64 is the bytes of the number 64, and the
\* lowest limb is not looked at.
csb256(n) ==
    LET r64      == count_significant_bytes(LimbBits)
        csb(i)   == count_significant_bytes(u256_index(n, i) % Half)
        found(i) == u256_index(n, i) % Half # 0
    IN  CASE found(3) -> csb(3) + r64 * 3
          [] ~found(3) /\ found(2) -> csb(2) + r64 * 2
          [] ~found(3) /\ ~found(2) /\ found(1) -> csb(1) + r64
          [] OTHER -> csb(1)

-----------------------------------------------------------------------------
Compute(name, value) ==
    /\ phase = "ready"
    /\ op' = name
    /\ result' = value
    /\ phase' = "done"
    /\ UNCHANGED <<operands, div, power>>

add == Compute("ADD", add256(x, y))
mul == Compute("MUL", mul256(x, y))
sub == Compute("SUB", minus256(x, y))
lt == Compute("LT", Word(Bool(gt256(y, x))))
gt == Compute("GT", Word(Bool(gt256(x, y))))
slt == Compute("SLT", Word(Bool(gt256(y, x))))
sgt == Compute("SGT", Word(Bool(gt256(x, y))))
eq == Compute("EQ", Word(Bool(equal256(x, y))))
iszero == Compute("ISZERO", Word(Bool(zero256(x))))
and_ == Compute("AND", and256(x, y))
or_ == Compute("OR", or256(x, y))
xor_ == Compute("XOR", xor256(x, y))
not_ == Compute("NOT", not256(x))
byte_ == Compute("BYTE", ByteFromTop(x, y))
shl == Compute("SHL", shiftl256(y, offset(x)))
shr == Compute("SHR", shiftr256(y, offset(x)))
sar == Compute("SAR", ShiftedSigned(x, y))
signextend == Compute("SIGNEXTEND", SignExtended(x, y))

-----------------------------------------------------------------------------
\* What an instruction takes from a division.
Taken(name, quotient, remainder) == IF name \in {"MOD", "SMOD"} THEN remainder ELSE quotient

\* The divisor under the highest bit of l, and its weight.
Aligned(l, r) ==
    LET diff  == bits256(l) - bits256(r)
        copyd == shiftl256(r, diff)
        adder == shiftl256(one256, diff)
        back  == IF gt256(copyd, l) THEN 1 ELSE 0
    IN  [copyd |-> shiftr256(copyd, back), adder |-> shiftr256(adder, back)]

\* An instruction that divides l by r, up to the loop of divmod256.
Divide(name, l, r) ==
    \/ zero256(r) /\ Compute(name, clear256)
    \/ ~zero256(r) /\ gt256(r, l) /\ Compute(name, Taken(name, clear256, l))
    \/ /\ phase = "ready"
       /\ ~zero256(r) /\ ~gt256(r, l)
       /\ op' = name
       /\ div' = [l |-> l, r |-> r, resDiv |-> clear256, resMod |-> l,
                  copyd |-> Aligned(l, r).copyd, adder |-> Aligned(l, r).adder]
       /\ phase' = "dividing"
       /\ UNCHANGED <<operands, result, power>>

\* Mutant of Reduced: the weight is halved before it is added.
Reduced_late(d) ==
    LET subtract == gte256(d.resMod, d.copyd)
    IN  [d EXCEPT !.resMod = IF subtract THEN minus256(@, d.copyd) ELSE @,
                  !.resDiv = IF subtract THEN or256(@, shiftr256(d.adder, 1)) ELSE @,
                  !.copyd = shiftr256(@, 1), !.adder = shiftr256(@, 1)]

\* Mutant of Reduced: the divisor is moved after a subtraction only.
Reduced_stuck(d) ==
    IF gte256(d.resMod, d.copyd)
    THEN [d EXCEPT !.resMod = minus256(@, d.copyd), !.resDiv = or256(@, d.adder),
                   !.copyd = shiftr256(@, 1), !.adder = shiftr256(@, 1)]
    ELSE d

\* One round of the loop.
Reduced(d) ==
    LET subtract == gte256(d.resMod, d.copyd)
    IN  [d EXCEPT !.resMod = IF subtract THEN minus256(@, d.copyd) ELSE @,
                  !.resDiv = IF subtract THEN or256(@, d.adder) ELSE @,
                  !.copyd = shiftr256(@, 1), !.adder = shiftr256(@, 1)]

divmod256 ==
    /\ phase = "dividing"
    /\ \/ /\ gte256(div.resMod, div.r)
          /\ div' = Reduced(div)
          /\ UNCHANGED <<phase, result>>
       \/ /\ ~gte256(div.resMod, div.r)
          /\ phase' = "done"
          /\ result' = Taken(op, div.resDiv, div.resMod)
          /\ div' = div
    /\ UNCHANGED <<operands, op, power>>

div_ == Divide("DIV", x, y)
sdiv == Divide("SDIV", x, y)
mod == Divide("MOD", x, y)
smod == Divide("SMOD", x, y)
addmod(m) == \E sum \in {add256(x, y)} : Divide("ADDMOD", sum, m)
mulmod(m) == \E product \in {mul256(x, y)} : Divide("MULMOD", product, m)

-----------------------------------------------------------------------------
\* gas_left is what the state has left when the instruction starts.
exp_(gas_left) ==
    LET cost == csb256(y) * ExpByteCost
    IN  /\ phase = "ready" /\ Value256(y) \in Exponents
        /\ op' = "EXP"
        /\ power' = [target |-> x, exponent |-> y]
        /\ result' = IF zero256(y) THEN one256 ELSE result
        /\ phase' = CASE gas_left - cost < 0 -> "OUT_OF_GAS"
                      [] gas_left - cost >= 0 /\ zero256(y) -> "done"
                      [] OTHER -> "raising"
        /\ UNCHANGED <<operands, div>>

\* The exponent counts down in its place on the stack, where the result is
\* expected; the product is left in a local variable.
exp_loop ==
    /\ phase = "raising"
    /\ \/ /\ ~zero256(power.exponent)
          /\ power' = [target |-> mul256(power.target, x),
                       exponent |-> minus256(power.exponent, one256)]
          /\ UNCHANGED <<phase, result>>
       \/ /\ zero256(power.exponent)
          /\ phase' = "done"
          /\ result' = power.exponent
          /\ power' = power
    /\ UNCHANGED <<operands, op, div>>

Stopped == phase \in {"done", "OUT_OF_GAS"} /\ UNCHANGED vars

-----------------------------------------------------------------------------
Init ==
    /\ input \in Operands
    /\ x = readu256BE(input[1]) /\ y = readu256BE(input[2])
    /\ op = "none" /\ phase = "ready"
    /\ result = clear256
    /\ div = NoDivision /\ power = NoPower

Next ==
    \/ add \/ mul \/ sub
    \/ lt \/ gt \/ slt \/ sgt \/ eq \/ iszero
    \/ and_ \/ or_ \/ xor_ \/ not_
    \/ byte_ \/ shl \/ shr \/ sar \/ signextend
    \/ div_ \/ sdiv \/ mod \/ smod
    \/ \E m \in {readu256BE(buffer) : buffer \in Moduli} : addmod(m) \/ mulmod(m)
    \/ divmod256
    \/ \E gas_left \in GasLimits : exp_(gas_left)
    \/ exp_loop
    \/ Stopped

Spec == Init /\ [][Next]_vars

-----------------------------------------------------------------------------
(***************************************************************************)
(* The instructions of evmone, on integers a (top) and b.                  *)
(***************************************************************************)
Signed(a) == IF 2 * a >= Modulus THEN a - Modulus ELSE a
Abs(n) == IF n < 0 THEN -n ELSE n
Sign(n) == IF n < 0 THEN -1 ELSE 1
Wrapped(n) == n % Modulus
sdivrem(a, b) ==
    LET quot == Sign(Signed(a)) * Sign(Signed(b)) * (Abs(Signed(a)) \div Abs(Signed(b)))
    IN  [quot |-> Wrapped(quot),
         rem  |-> Wrapped(Sign(Signed(a)) * (Abs(Signed(a)) % Abs(Signed(b))))]

\* a * b, for numbers whose product is too large for TLC.
Product(a, b) ==
    LET root  == Base * Base
        cross == (((a \div root) * (b % root)) % root) + (((a % root) * (b \div root)) % root)
    IN  Wrapped((a % root) * (b % root) + (cross % root) * root)

BitsAgree(n, a, b, f(_, _)) ==
    \A k \in 0..(4 * LimbBits - 1) : Bit(n, k) = f(Bit(a, k), Bit(b, k))

\* The instructions whose result is a number computed from the operands.
evmone_arithmetic(name, a, b) ==
    CASE name = "ADD" -> Wrapped(a + b)
      [] name = "MUL" -> Product(a, b)
      [] name = "SUB" -> Wrapped(a - b)
      [] name = "DIV" -> IF b = 0 THEN 0 ELSE a \div b
      [] name = "MOD" -> IF b = 0 THEN 0 ELSE a % b
      [] name = "SDIV" -> IF b = 0 THEN 0 ELSE sdivrem(a, b).quot
      [] name = "SMOD" -> IF b = 0 THEN 0 ELSE sdivrem(a, b).rem

evmone_compare(name, a, b) ==
    CASE name = "LT" -> Bool(a < b)
      [] name = "GT" -> Bool(a > b)
      [] name = "SLT" -> Bool(Signed(a) < Signed(b))
      [] name = "SGT" -> Bool(Signed(a) > Signed(b))
      [] name = "EQ" -> Bool(a = b)
      [] name = "ISZERO" -> Bool(a = 0)

evmone_shift(name, a, b) ==
    LET all == 4 * LimbBits
    IN  CASE name = "BYTE" -> IF a >= 4 * LimbBytes THEN 0
                              ELSE (b \div Power2[ByteBits * (4 * LimbBytes - 1 - a)]) % ByteBase
          [] name = "SHL" -> IF a >= all THEN 0 ELSE (b % Power2[all - a]) * Power2[a]
          [] name = "SHR" -> IF a >= all THEN 0 ELSE b \div Power2[a]
          [] name = "SAR" -> Wrapped(Signed(b) \div Power2[IF a >= all THEN all - 1 ELSE a])

evmone_bits(name, n, a, b) ==
    LET and(p, q) == p * q
        or(p, q)  == p + q - p * q
        xor(p, q) == (p + q) % 2
        not(p, q) == 1 - p
    IN  CASE name = "AND" -> BitsAgree(n, a, b, and)
          [] name = "OR"  -> BitsAgree(n, a, b, or)
          [] name = "XOR" -> BitsAgree(n, a, b, xor)
          [] name = "NOT" -> BitsAgree(n, a, b, not)

ArithmeticOps == {"ADD", "MUL", "SUB", "DIV", "MOD", "SDIV", "SMOD"}
CompareOps == {"LT", "GT", "SLT", "SGT", "EQ", "ISZERO"}
ShiftOps == {"BYTE", "SHL", "SHR", "SAR"}
BitOps == {"AND", "OR", "XOR", "NOT"}

\* The bytes the instruction leaves are those of the number evmone leaves.
AsEvmone ==
    LET a == BufferValue(input[1])
        b == BufferValue(input[2])
        n == BufferValue(u256_to_u8_32(result))
    IN  /\ op \in ArithmeticOps => n = evmone_arithmetic(op, a, b)
        /\ op \in CompareOps => n = evmone_compare(op, a, b)
        /\ op \in ShiftOps => n = evmone_shift(op, a, b)
        /\ op \in BitOps => evmone_bits(op, n, a, b)

\* Where the code is meant to be exact: signed instructions on numbers that are
\* not negative, products of numbers of one limb, and shifts by what an uint32_t
\* holds.
Regular ==
    /\ op \in {"SDIV", "SMOD", "SLT", "SGT", "SAR"} => ~Negative(x) /\ ~Negative(y)
    /\ op = "MUL" => Small(x, Base) /\ Small(y, Base)
    /\ op \in {"SHL", "SHR", "SAR"} => Small(x, Power2[OffsetBits])

-----------------------------------------------------------------------------
\* From the bytes of the operands to the bytes of the result, every instruction
\* computes in its regular cases what evmone computes, carries, borrows and the
\* loop of the division included.
Exact == phase = "done" /\ Regular => AsEvmone

\* The loop of divmod256: what was taken off l is quotient times divisor, the
\* moved divisor is the divisor times its weight, and the rest is less than
\* twice the moved divisor, so that the loop ends with the remainder.
DivisionSound ==
    phase = "dividing" =>
        LET V(n) == Value256(n)
            Q    == V(div.resDiv)
        IN  /\ V(div.resMod) <= V(div.l) /\ Q <= V(div.l) \div V(div.r)
            /\ V(div.l) - V(div.resMod) = Q * V(div.r)
            /\ V(div.adder) # 0 => V(div.copyd) = V(div.adder) * V(div.r)
            /\ V(div.resMod) < V(div.r) \/ (V(div.adder) # 0 /\ V(div.resMod) < 2 * V(div.copyd))

\* The loops of the division and of EXP come to an end: a round makes the weight
\* of the divisor, or the exponent that is left, smaller.
LoopsEnd ==
    /\ phase = "dividing" /\ gte256(div.resMod, div.r) =>
          Value256(Reduced(div).adder) < Value256(div.adder)
    /\ phase = "raising" /\ ~zero256(power.exponent) =>
          Value256(minus256(power.exponent, one256)) < Value256(power.exponent)
=============================================================================
