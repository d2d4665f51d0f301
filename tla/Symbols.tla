------------------------------ MODULE Symbols ------------------------------
(***************************************************************************)
(* The symbols of the LLVM module: what becomes of the identifiers of      *)
(* Scopes.  The code generator visits the declarations, definitions and    *)
(* uses of code in order once the file is parsed; before that, the parser  *)
(* makes a symbol for each address in a constant initialiser.  symbols are *)
(* those: a symbol is a name, and the scope of a static local (its name is *)
(* made from the function and the address of the scope); 0 is none.        *)
(***************************************************************************)
EXTENDS Scopes

VARIABLE symbols

IsGlobalVar(i) == idents[i].linkage # "none"
IsLocalStaticVar(i) == idents[i].linkage = "none" /\ idents[i].storage = "static"
IsStaticDuration(i) ==
  IsObject(i) /\ (IsGlobalVar(i) \/ IsLocalStaticVar(i))

Symbol(i) == [name |-> idents[i].name,
              scope |-> IF IsGlobalVar(i) THEN 0 ELSE idents[i].scope]

With(M, sym, r) == [s \in DOMAIN M \cup {sym} |-> IF s = sym THEN r ELSE M[s]]

(* CreateGlobalVar, and GetGlobalPtr for a static local.  ok is whether    *)
(* the initialiser has the type the symbol was made with.                  *)
InitialLinkage(i) ==
  CASE idents[i].storage = "static" -> "internal"
    [] idents[i].storage = "extern" -> "external"
    [] OTHER -> IF idents[i].const THEN "external" ELSE "common"

CreateGlobalVar(M, i) ==
  LET id == idents[i]
      old == IF Symbol(i) \in DOMAIN M THEN M[Symbol(i)]
             ELSE [linkage |-> InitialLinkage(i), ty |-> id.ty, init |-> "none",
                   ok |-> TRUE]
  IN  With(M, Symbol(i),
           IF ~id.const /\ id.storage = "extern" THEN old
           ELSE [old EXCEPT !.init = IF id.const THEN "value" ELSE "zero",
                            !.ok = @ /\ old.ty = id.ty])

(* A function is made where it is first named, of the linkage it has there.*)
CreateFunction(M, i) ==
  IF Symbol(i) \in DOMAIN M THEN M
  ELSE With(M, Symbol(i), [linkage |-> idents[i].linkage, ty |-> idents[i].ty,
                           init |-> "none", ok |-> TRUE])

Emit(M, event) ==
  LET i == event.ident
  IN  CASE event.what = "define" ->
             LET N == CreateFunction(M, i)
             IN  [N EXCEPT ![Symbol(i)].init = "value"]
        [] event.what = "use" /\ idents[i].kind = "func" -> CreateFunction(M, i)
        [] event.what = "use" /\ IsStaticDuration(i) -> CreateGlobalVar(M, i)
        [] event.what = "declare" /\ IsGlobalVar(i) /\ idents[i].storage # "static" ->
             CreateGlobalVar(M, i)
        [] OTHER -> M

(* The module, if the file ended here. *)
Generated ==
  LET upTo[n \in 0 .. Len(code)] ==
        IF n = 0 THEN symbols ELSE Emit(upTo[n - 1], code[n])
  IN  upTo[Len(code)]

(* SetLocalPtr asserts that a local gets its storage once. *)
LocalsOnce ==
  \A m, n \in DOMAIN code :
    m # n /\ code[m] = code[n] /\ code[m].what = "declare" =>
      IsStaticDuration(code[m].ident)

(* The verifier: a common symbol is zero. *)
Verified(M) ==
  \A s \in DOMAIN M : M[s].ok /\ ~(M[s].linkage = "common" /\ M[s].init = "value")

(* &n, an array n or a function n in a constant initialiser. *)
Mention(n) ==
  /\ ~In("struct") /\ ~In("proto")
  /\ Name(n)
  /\ LET i == FindUsual(scope, n)
     IN  /\ idents[i].kind = "func" \/ IsStaticDuration(i)
         /\ symbols' = IF idents[i].kind = "func" THEN CreateFunction(symbols, i)
                       ELSE CreateGlobalVar(symbols, i)
===========================================================================
