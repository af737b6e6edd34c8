----------------------------- MODULE Int32Helpers -----------------------------
(***************************************************************************)
(* src/deconet/Efficiency/epic_process/utility/helper_functions.rs: i32  *)
(* add, subtract, multiply, divide, is_even and is_odd.                  *)
(*                                                                         *)
(* Integers keep two's-complement semantics at a width of W bits (32 in   *)
(* the code; TLC's own integers are 32-bit, so a smaller W is checked;   *)
(* the edge cases are the same at every width).  Overflow of + - * is     *)
(* build dependent: a debug build panics, a release build wraps; the     *)
(* build is chosen in Init.  Division overflow (MIN / -1) panics in every *)
(* build.  Rust's / truncates toward zero and % takes the dividend's sign. *)
(* A caller makes one call after another until one panics.                *)
(***************************************************************************)
EXTENDS Integers

CONSTANTS
    W,              \* integer width in bits (i32: 32)
    None, Panic, Err

ASSUME W \in 2..8

MinInt == -(2^(W - 1))
MaxInt == 2^(W - 1) - 1
Int32 == MinInt..MaxInt

(* Two's-complement wrap-around to W bits. *)
Wrap(x) == ((x - MinInt) % (2^W)) + MinInt

Abs(x) == IF x < 0 THEN -x ELSE x
Sign(x) == IF x < 0 THEN -1 ELSE IF x = 0 THEN 0 ELSE 1

(* a / b of Rust integers: the quotient truncated toward zero. *)
TruncDiv(a, b) == Sign(a) * Sign(b) * (Abs(a) \div Abs(b))

(* a % b of Rust integers: the remainder with the sign of a. *)
RustRem(a, b) == a - b * TruncDiv(a, b)

VARIABLES
    build,          \* "debug" or "release"
    last            \* the last call: [op, a, b, out]

vars == <<build, last>>

Parity == {"is_even", "is_odd"}

TypeOK ==
    /\ build \in {"debug", "release"}
    /\ \/ last = None
       \/ /\ last \in [op : {"add", "subtract", "multiply", "divide"} \cup Parity,
                       a : Int32, b : Int32, out : {last.out}]
          /\ IF last.op \in Parity THEN last.out \in BOOLEAN
             ELSE last.out \in {Panic, Err} \/ last.out \in Int32

(* The outcome of an arithmetic operator whose exact result is x. *)
Checked(x) ==
    IF x \in Int32 THEN x
    ELSE IF build = "debug" THEN Panic ELSE Wrap(x)

(* Fault: the sum taken in a wider type and not narrowed. *)
AddWide(a, b) == a + b

Add(a, b) == Checked(a + b)
Subtract(a, b) == Checked(a - b)
Multiply(a, b) == Checked(a * b)

(* divide: Err when b == 0, else Ok(a / b); MIN / -1 overflows. *)
Divide(a, b) ==
    IF b = 0 THEN Err
    ELSE IF a = MinInt /\ b = -1 THEN Panic
    ELSE TruncDiv(a, b)

IsEven(n) == RustRem(n, 2) = 0

(* Fault: the test for an odd number written as num % 2 == 1. *)
IsOddEqOne(n) == RustRem(n, 2) = 1

IsOdd(n) == RustRem(n, 2) # 0

Init ==
    /\ build \in {"debug", "release"}
    /\ last = None

Call(op, a, b, out) ==
    /\ IF last = None THEN TRUE ELSE last.out # Panic
    /\ last' = [op |-> op, a |-> a, b |-> b, out |-> out]
    /\ UNCHANGED build

Next ==
    \E a, b \in Int32 :
        \/ Call("add", a, b, Add(a, b))
        \/ Call("subtract", a, b, Subtract(a, b))
        \/ Call("multiply", a, b, Multiply(a, b))
        \/ Call("divide", a, b, Divide(a, b))
        \/ Call("is_even", a, 0, IsEven(a))
        \/ Call("is_odd", a, 0, IsOdd(a))

Spec == Init /\ [][Next]_vars

-----------------------------------------------------------------------------
(* Properties *)

(* is_even and is_odd agree with parity for negative numbers as well:   *)
(* n is even iff n = 2k for an integer k.                                *)
ParityCorrect ==
    (last # None /\ last.op \in Parity) =>
        (last.out = ((last.op = "is_even") = (\E k \in Int32 : last.a = 2 * k)))
=============================================================================
