------------------------------ MODULE SmtMeaning -----------------------------
(***************************************************************************)
(* Values of SMT-LIB terms under an assignment of the variables.           *)
(***************************************************************************)
EXTENDS SmtTerms, Lexer

LOCAL INSTANCE Bitwise

RECURSIVE FreeSymbols(_)
FreeSymbols(t) ==
  IF t.head = "symbol" THEN {t.text}
  ELSE UNION { FreeSymbols(t.args[i]) : i \in DOMAIN t.args }

BoolValue(p) == IF p THEN 1 ELSE 0

\* Two's complement reading of a w-bit value, for the signed functions.
Signed(a, w) == IF a >= 2 ^ (w - 1) THEN a - 2 ^ w ELSE a

\* Division of reals and integers and the signed functions stand uninterpreted:
\* each a function of its arguments that no other one agrees with.
UninterpretedNames == << "/", "div", "mod", "bvsdiv", "bvashr" >>

Uninterpreted(f, a, b) ==
  10007 * (CHOOSE i \in DOMAIN UninterpretedNames : UninterpretedNames[i] = f) + 101 * a + b

\* A decimal or a string stands for a number of its own.
ValuedCharacters == "0123456789.abcdefghijklmnopqrstuvwxyz \"\\\n\t/*"

RECURSIVE TextValue(_)
TextValue(text) ==
  IF text = "" THEN 0
  ELSE 50 * TextValue(Tail(text))
         + (CHOOSE i \in 1..Len(ValuedCharacters) : At(ValuedCharacters, i) = At(text, 1))

RECURSIVE TermValue(_, _, _)

Apply(f, v, w) ==
  LET m == 2 ^ w
      a == v[1]
      b == v[2]
  IN CASE f = "not"      -> 1 - a
       [] f = "and"      -> BoolValue(a = 1 /\ b = 1)
       [] f = "or"       -> BoolValue(a = 1 \/ b = 1)
       [] f = "="        -> BoolValue(a = b)
       [] f = "distinct" -> BoolValue(a # b)
       [] f \in {"<", "bvult"}  -> BoolValue(a < b)
       [] f \in {"<=", "bvule"} -> BoolValue(a <= b)
       [] f \in {">", "bvugt"}  -> BoolValue(a > b)
       [] f \in {">=", "bvuge"} -> BoolValue(a >= b)
       [] f = "bvslt"    -> BoolValue(Signed(a, w) < Signed(b, w))
       [] f = "+"        -> a + b
       [] f = "-"        -> IF Len(v) = 1 THEN 0 - a ELSE a - b
       [] f = "*"        -> a * b
       [] f = "bvadd"    -> (a + b) % m
       [] f = "bvsub"    -> (m + a - b) % m
       [] f = "bvmul"    -> (a * b) % m
       [] f = "bvneg"    -> (m - a) % m
       [] f = "bvnot"    -> m - 1 - a
       [] f = "bvand"    -> a & b
       [] f = "bvor"     -> a | b
       [] f = "bvxor"    -> a ^^ b
       [] f = "bvshl"    -> IF b >= w THEN 0 ELSE (a * 2 ^ b) % m
       [] f = "bvlshr"   -> IF b >= w THEN 0 ELSE a \div 2 ^ b
       [] f = "bvudiv"   -> IF b = 0 THEN m - 1 ELSE a \div b
       [] f = "bvurem"   -> IF b = 0 THEN a ELSE a % b
       [] OTHER          -> Uninterpreted(f, a, b)

TermValue(vs, values, t) ==
  CASE t.head = "symbol" -> values[t.text]
    [] t.head = "true"   -> 1
    [] t.head = "false"  -> 0
    [] t.head \in {"decimal", "string"} -> TextValue(t.text)
    [] t.head \in {"numeral", "_", "#x", "#b"} -> t.value
    [] OTHER -> Apply(t.head, [i \in DOMAIN t.args |-> TermValue(vs, values, t.args[i])],
                      TermSort(vs, t.args[1]).width)
=============================================================================
