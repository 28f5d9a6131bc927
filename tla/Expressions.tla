----------------------------- MODULE Expressions -----------------------------
(***************************************************************************)
(* The expression trees of the domain layer, and the sorts of variables.   *)
(* A node is a record whose field `node` names the alternative of          *)
(* Expression::Node.  A constant has the value of a Bool (0 or 1), an Int  *)
(* or a BitVec, or the text of a Real or a String.  VariableRef keeps the  *)
(* name only: names are unique in a problem, so the id adds nothing.       *)
(* FunctionCall has no producer.                                           *)
(***************************************************************************)
EXTENDS Integers, Sequences, TLC

CONSTANT WordBits   \* bits of the integers the program stores; 64 in the code

ASSUME WordBitsAssumption == WordBits \in Nat \ {0}

MaxUnsigned == 2 ^ WordBits - 1
MaxSigned   == 2 ^ (WordBits - 1) - 1

-----------------------------------------------------------------------------
(* Sorts: a VariableType with the width TypeParams gives a BitVec.          *)

Sort(type, width) == [type |-> type, width |-> width]

BoolSort      == Sort("Bool", 0)
IntSort       == Sort("Int", 0)
RealSort      == Sort("Real", 0)
StringSort    == Sort("String", 0)
BitVecSort(w) == Sort("BitVec", w)

-----------------------------------------------------------------------------
(* Nodes.                                                                   *)

Constant(kind, value, width) ==
  [node |-> "Constant", kind |-> kind, value |-> value, width |-> width, text |-> ""]

Boolean(b)          == Constant("Bool", b, 0)
Integer(n)          == Constant("Int", n, 0)
RealValue(text)     == [Constant("Real", 0, 0) EXCEPT !.text = text]
StringValue(text)   == [Constant("String", 0, 0) EXCEPT !.text = text]
BitVector(bits, w)  == Constant("BitVec", bits, w)

Variable(name)      == [node |-> "VariableRef", name |-> name]
Unary(op, operand)  == [node |-> "Unary", op |-> op, operand |-> operand]
Binary(op, lhs, rhs) == [node |-> "Binary", op |-> op, lhs |-> lhs, rhs |-> rhs]

IsIntLiteral(e) == e.node = "Constant" /\ e.kind = "Int"

\* toString(UnaryOp) and toString(BinaryOp).
UnarySymbol == [Not |-> "!", Neg |-> "-", BvNot |-> "~"]

BinarySymbol ==
  [And |-> "&&", Or |-> "||", Eq |-> "==", Neq |-> "!=",
   Lt |-> "<", Le |-> "<=", Gt |-> ">", Ge |-> ">=",
   Add |-> "+", Sub |-> "-", Mul |-> "*", Div |-> "/", Rem |-> "%",
   BvAnd |-> "&", BvOr |-> "|", BvXor |-> "^", BvShl |-> "<<", BvShr |-> ">>"]

UnaryOps  == DOMAIN UnarySymbol
BinaryOps == DOMAIN BinarySymbol
=============================================================================
