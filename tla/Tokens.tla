-------------------------------- MODULE Tokens --------------------------------
(***************************************************************************)
(* Tokens of the workbench language.  A token's type is its lexeme for     *)
(* keywords and operators; an identifier carries its name, a literal its   *)
(* spelling and a string literal the string it stands for.  The Eof token  *)
(* that ends every token list is left out: it is what a reader meets past  *)
(* the end of the sequence.                                                *)
(***************************************************************************)
EXTENDS Expressions

CONSTANT NumberOf(_)   \* the number the spelling of an integer literal stands for

Token(type, text) == [type |-> type, text |-> text]
Lexeme(type)      == Token(type, "")
Identifier(name)  == Token("Identifier", name)

AnyToken == [type: STRING \ {"Eof"}, text: STRING]

Keywords == {"var", "constraint", "true", "false", "Bool", "Int", "Real", "String", "BitVec"}
=============================================================================
