---------------------------- MODULE Declarators ----------------------------
(***************************************************************************)
(* What a declaration may say of one name.  An array type keeps its number *)
(* of elements (0: unknown), other types only their kind; n of a struct or *)
(* union, the type of its tag, is its number.  No name is declared with a  *)
(* type of that kind, so Compatible is not asked of two of them.  An       *)
(* initialiser is a constant other than zero.                              *)
(***************************************************************************)
EXTENDS Naturals, Sequences

CONSTANTS
  Names,       \* ordinary identifiers
  Tags,        \* tags of structs, unions and enums
  NoTag,       \* what a specifier without a tag has for one
  InitLength   \* the number of elements an initialiser gives an array

ASSUME DeclaratorsAssumption ==
  /\ NoTag \notin Tags
  /\ InitLength \in Nat \ {0}

Storages == {"", "typedef", "extern", "static"}
Types    == [k : {"int", "char", "func"}, n : {0}] \cup [k : {"array", "struct"}, n : Nat]
Decls    == [name : Names, storage : Storages, ty : {ty \in Types : ty.k # "struct"},
             init : BOOLEAN]

IntType == [k |-> "int", n |-> 0]
IsComplete(ty) == ty.k = "array" => ty.n # 0
Compatible(a, b) ==
  /\ a.k = b.k
  /\ a.k = "array" => a.n = 0 \/ b.n = 0 \/ a.n = b.n

Kind(d) == IF d.storage = "typedef" THEN "typedef"
           ELSE IF d.ty.k = "func" THEN "func" ELSE "object"
===========================================================================
