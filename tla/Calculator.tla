------------------------------ MODULE Calculator ------------------------------
(***************************************************************************)
(* The calculator (class CalculatorWindow): a register, an operator that   *)
(* waits and the entry, worked on key by key.                              *)
(*                                                                         *)
(* Numbers are fractions <<n, d>>, exact where the code's are rounded; the *)
(* decimal point, the limit of 16 digits and the digit that is appended to *)
(* the text of a percentage are left out.                                  *)
(***************************************************************************)
EXTENDS Integers, Sequences, FiniteSetsExt

CONSTANTS
    Digits,     \* keys 0 to 9
    Operators,  \* of "+", "-", "*", "/"
    MaxKeys     \* bound on the keys pressed

VARIABLES
    acc,          \* acc_
    pendingOp,    \* pendingOp_
    input,        \* input_, zero when it is empty
    fresh,        \* fresh_
    error,        \* error_
    display,      \* the number on the display
    line,         \* history: the keys since the last result, without those taken back
    carry,        \* history: that result
    plain,        \* history: neither a percentage nor a sign was keyed since
    keys

register == <<acc, pendingOp, input, fresh, error, display>>
calculatorVars == <<register, line, carry, plain, keys>>

Zero == <<0, 1>>
Same(a, b) == a[1] * b[2] = b[1] * a[2]

gcd[a \in Nat, b \in Nat] == IF b = 0 THEN a ELSE gcd[b, a % b]
Abs(n) == IF n < 0 THEN -n ELSE n
Reduced(a) == LET g == gcd[Abs(a[1]), Abs(a[2])] IN <<a[1] \div g, a[2] \div g>>

\* Without an operator that waits it is the second number.
Apply(op, a, b) ==
    CASE op = "+" -> Reduced(<<a[1] * b[2] + b[1] * a[2], a[2] * b[2]>>)
      [] op = "-" -> Reduced(<<a[1] * b[2] - b[1] * a[2], a[2] * b[2]>>)
      [] op = "*" -> Reduced(<<a[1] * b[1], a[2] * b[2]>>)
      [] op = "/" -> Reduced(<<a[1] * b[2], a[2] * b[1]>>)
      [] OTHER    -> b

Init ==
    /\ acc = Zero /\ pendingOp = "" /\ input = Zero /\ fresh = TRUE /\ error = FALSE
    /\ display = Zero /\ line = <<>> /\ carry = Zero /\ plain = TRUE /\ keys = 0

KeyOf(kind, d) == <<kind, d>>
IsDigit(l, i)  == i \in DOMAIN l /\ l[i][1] = "digit"

\* The place of the last operator among the first i keys of a line, or 0.
LastOperator(l, i) == Max({0} \union {k \in 1..i : ~IsDigit(l, k)})

Key == keys < MaxKeys /\ keys' = keys + 1

\* The display of an error stays; after an operator it has the register.
UpdateDisplay ==
    display' = IF error' THEN display
               ELSE IF fresh' /\ pendingOp' # "" THEN acc' ELSE input'

-----------------------------------------------------------------------------
(* The keys.                                                               *)

\* Mutant: what led to an error stays in the register.
HandleDigitKeeping(d) ==
    /\ Key /\ error' = FALSE /\ fresh' = FALSE
    /\ UNCHANGED <<acc, pendingOp>>
    /\ input' = IF fresh \/ error THEN <<d, 1>> ELSE <<10 * input[1] + d, 1>>
    /\ UpdateDisplay
    /\ line' = IF error THEN <<KeyOf("digit", d)>> ELSE Append(line, KeyOf("digit", d))
    /\ carry' = IF error THEN Zero ELSE carry
    /\ UNCHANGED plain

\* A digit after an error starts anew.
HandleDigit(d) ==
    /\ Key /\ error' = FALSE /\ fresh' = FALSE
    /\ fresh \/ input[2] = 1
    /\ acc' = IF error THEN Zero ELSE acc
    /\ pendingOp' = IF error THEN "" ELSE pendingOp
    /\ input' = IF fresh \/ error THEN <<d, 1>> ELSE <<10 * input[1] + d, 1>>
    /\ UpdateDisplay
    /\ line' = IF error THEN <<KeyOf("digit", d)>> ELSE Append(line, KeyOf("digit", d))
    /\ carry' = IF error THEN Zero ELSE carry
    /\ UNCHANGED plain

DividesByZero == ~fresh /\ pendingOp = "/" /\ input[1] = 0

ShowError(key) ==
    /\ error' = TRUE /\ line' = Append(line, KeyOf(key, 0))
    /\ UNCHANGED <<acc, pendingOp, input, fresh, display, carry>>

\* An operator settles the entry, if there is one, and waits for the next.
HandleOperator(op) ==
    /\ Key /\ ~error /\ UNCHANGED plain
    /\ IF DividesByZero THEN ShowError(op)
       ELSE /\ acc' = IF fresh THEN acc ELSE Apply(pendingOp, acc, input)
            /\ pendingOp' = op /\ fresh' = TRUE /\ UNCHANGED <<input, error>>
            /\ UpdateDisplay
            /\ line' = Append(line, KeyOf(op, 0)) /\ UNCHANGED carry

\* Without an entry, "=" does nothing, and an operator goes on waiting.
HandleEquals ==
    /\ Key /\ ~error /\ ~fresh /\ UNCHANGED plain
    /\ IF DividesByZero THEN ShowError("=")
       ELSE /\ acc' = Apply(pendingOp, acc, input) /\ input' = acc'
            /\ pendingOp' = "" /\ fresh' = TRUE /\ UNCHANGED error
            /\ UpdateDisplay
            /\ line' = <<>> /\ carry' = acc'

HandleClear ==
    /\ Key
    /\ acc' = Zero /\ pendingOp' = "" /\ input' = Zero /\ fresh' = TRUE /\ error' = FALSE
    /\ UpdateDisplay
    /\ line' = <<>> /\ carry' = Zero /\ plain' = TRUE

\* The digits at the end are taken back, and the display has the register again; but
\* it shows 0 where a result or a first number was, whatever is in the register.
HandleClearEntry ==
    /\ Key /\ input' = Zero /\ fresh' = TRUE
    /\ UNCHANGED <<acc, pendingOp, error>>
    /\ UpdateDisplay
    /\ line' = IF error THEN line
               ELSE SubSeq(line, 1, LastOperator(line, Len(line)))
    /\ plain' = (plain /\ (error \/ pendingOp # ""))
    /\ UNCHANGED carry

\* The sign of the entry, or of the register while there is none.
HandleNegate ==
    /\ Key /\ ~error /\ plain' = FALSE
    /\ acc' = IF fresh THEN <<-acc[1], acc[2]>> ELSE acc
    /\ input' = IF fresh THEN acc' ELSE <<-input[1], input[2]>>
    /\ UNCHANGED <<pendingOp, fresh, error, line, carry>>
    /\ UpdateDisplay

\* Of the register when an operator waits.  The entry stays as fresh as it was: after
\* an operator or a result the percentage is neither shown nor used.
HandlePercent ==
    /\ Key /\ ~error /\ plain' = FALSE /\ input[2] <= 100 /\ acc[2] <= 100   \* a bound
    /\ input' = Reduced(IF pendingOp = "" THEN <<input[1], 100 * input[2]>>
                        ELSE <<acc[1] * input[1], 100 * acc[2] * input[2]>>)
    /\ UNCHANGED <<acc, pendingOp, fresh, error, line, carry>>
    /\ UpdateDisplay

Next ==
    \/ \E d \in Digits : HandleDigit(d)
    \/ \E op \in Operators : HandleOperator(op)
    \/ HandleEquals \/ HandleClear \/ HandleClearEntry \/ HandleNegate \/ HandlePercent

Spec == Init /\ [][Next]_calculatorVars

-----------------------------------------------------------------------------
(* The value of a line, read from left to right: of operators in a row the *)
(* last counts, and a line that begins with one goes on from the result.   *)

\* The number whose digits end at key i.
Number(l, i) ==
    LET number[k \in 0..Len(l)] ==
            IF IsDigit(l, k) THEN 10 * number[k - 1] + l[k][2] ELSE 0
    IN  <<number[i], 1>>

\* The value of the first i keys, after the result c.
Value(l, c, i) ==
    LET value[k \in 0..Len(l)] ==
            LET o == LastOperator(l, k)
            IN  IF k = 0 THEN c
                ELSE IF ~IsDigit(l, k) THEN value[k - 1]
                ELSE IF o = 0 THEN Number(l, k)
                ELSE Apply(l[o][1], value[o], Number(l, k))
    IN  value[i]

\* A number divides by zero, and an operator or "=" came after it.
NoValue(l) == \E i \in 1..(Len(l) - 1) :
    /\ IsDigit(l, i) /\ ~IsDigit(l, i + 1) /\ Number(l, i)[1] = 0
    /\ LastOperator(l, i) # 0 /\ l[LastOperator(l, i)][1] = "/"

\* The display has the number being keyed, or the value of the keys before it,
\* through corrections, operators in a row, "=" pressed again and errors, of which
\* nothing is left when a new number is keyed; it has the error exactly when the
\* line has no value.  Percentages and signs are excepted, and taking back an entry
\* that no operator waits for, whose 0 is not what the next operator uses.
ShownIsTheValue ==
    plain => /\ error = NoValue(line)
             /\ ~error => Same(display, IF IsDigit(line, Len(line)) THEN Number(line, Len(line))
                                        ELSE Value(line, carry, Len(line)))
=============================================================================
