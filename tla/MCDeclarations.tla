--------------------------- MODULE MCDeclarations ---------------------------
(* The inputs of the run of Declarations. *)
EXTENDS Declarations, TLC

CONSTANTS x, y, pt, none
TwoNames == {x, y}
OneTag == {pt}

D(name, storage, k, n, init) ==
  [name |-> name, storage |-> storage, ty |-> [k |-> k, n |-> n], init |-> init]

(* One name, declared in every way. *)
OneName == {d \in [name : {x}, storage : Storages, init : BOOLEAN,
                   ty : {[k |-> "int", n |-> 0], [k |-> "array", n |-> 0],
                         [k |-> "array", n |-> 2], [k |-> "func", n |-> 0]}] :
              d.init => Kind(d) = "object" /\ d.ty.n = 0}
Linking == [decls |-> OneName, tags |-> {}, names |-> {x}, does |-> {"{}", "use", "&"},
            steps |-> 6, depth |-> 2]

(* Two names in nested scopes. *)
Nesting ==
  [decls |-> {D(x, "", "int", 0, FALSE), D(y, "", "func", 0, FALSE), D(x, "static", "int", 0, TRUE),
              D(x, "typedef", "char", 0, FALSE), D(x, "extern", "int", 0, FALSE)},
   tags |-> {}, names |-> {x}, does |-> {"()", "{}", "use", "enum"}, steps |-> 7, depth |-> 3]

(* Tags. *)
Tagging ==
  [decls |-> {D(y, "", "func", 0, FALSE)}, tags |-> {pt}, names |-> {x},
   does |-> {"()", "{}", "use", "struct", "enum"}, steps |-> 7, depth |-> 3]

Everything == [linking |-> Linking, nesting |-> Nesting, tagging |-> Tagging]
=============================================================================
