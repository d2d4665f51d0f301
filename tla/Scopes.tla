------------------------------- MODULE Scopes -------------------------------
(***************************************************************************)
(* The scopes of the parser (scope.cpp) and everything that enters a name  *)
(* into one: MakeDeclaration (parse.cpp) for objects, functions, typedefs  *)
(* and parameters, struct and enum specifiers and members                  *)
(* (parse_decl.cpp), blocks and function bodies (parse_stmt.cpp).          *)
(*                                                                         *)
(* A scope is its number in scopes, an identifier its number in idents, a  *)
(* struct or union its number in types; 0 is the null pointer.  What is    *)
(* declared is the environment's choice.  open is the call stack of the    *)
(* parser: the parameter list, member lists, blocks and the body it is in. *)
(* A definition of a struct or an enum is the specifier alone: the         *)
(* declarator behind it declares a name that is no concern of the model.   *)
(***************************************************************************)
EXTENDS Declarators

VARIABLES scopes, scope, idents, types, open, verdict,
          last,   \* what the last step did, and the identifier it denoted
          code    \* the declarations, definitions and uses to generate

svars == <<scopes, scope, idents, types, open, verdict, last, code>>

ScopeTypes == {"file", "proto", "block"}
Linkages   == {"none", "internal", "external"}
IdentKinds == {"typedef", "func", "object", "enumerator", "tag"}

---------------------------------------------------------------------------
(* Scopes. chain is the scope and what parent_ leads to from it, innermost   *)
(* first; a lookup takes the first that has the name.                        *)

NewScope(type, chain) ==
  [type |-> type, chain |-> <<Len(scopes) + 1>> \o chain,
   usual |-> [n \in Names |-> 0], tags |-> [t \in Tags |-> 0]]

Parent(s) == scopes[s].chain[2]
First(at) == CHOOSE i \in at : \A j \in at : i <= j

FindUsualInCurrScope(s, n) == scopes[s].usual[n]
FindUsual(s, n) ==
  LET chain == scopes[s].chain
      at == {i \in DOMAIN chain : scopes[chain[i]].usual[n] # 0}
  IN  IF at = {} THEN 0 ELSE scopes[chain[First(at)]].usual[n]

FindTagInCurrScope(s, t) == scopes[s].tags[t]
FindTag(s, t) ==
  LET chain == scopes[s].chain
      at == {i \in DOMAIN chain : scopes[chain[i]].tags[t] # 0}
  IN  IF at = {} THEN 0 ELSE scopes[chain[First(at)]].tags[t]

InsertUsual(s, n, i) == [scopes EXCEPT ![s].usual[n] = i]
InsertTag(s, t, i) ==
  IF t = NoTag THEN scopes ELSE [scopes EXCEPT ![s].tags[t] = i]

IsFileScope(s)  == scopes[s].type = "file"
IsBlockScope(s) == scopes[s].type = "block"

Ident(kind, name, ty, linkage, storage, s) ==
  [kind |-> kind, name |-> name, ty |-> ty, linkage |-> linkage,
   storage |-> storage, const |-> FALSE, scope |-> s, params |-> 0]
NewIdent == Len(idents) + 1
IsObject(i) == i # 0 /\ idents[i].kind = "object"

In(what)   == open # <<>> /\ open[1].what = what
InFunction == \E i \in DOMAIN open : open[i].what = "body"
Going      == verdict = "ok"
Denotes(act, i) == last' = [act |-> act, ident |-> i] /\ UNCHANGED verdict
Stop(how) ==
  /\ verdict' = how
  /\ UNCHANGED <<scopes, scope, idents, types, open, last, code>>

---------------------------------------------------------------------------
(* MakeDeclaration, of d in scope s, and the initialiser behind it.          *)

DeclaredLinkage(d, s) ==
  IF ~IsFileScope(s) THEN "none"
  ELSE IF d.storage = "static" THEN "internal" ELSE "external"

\* What an "extern" may refer to.
Outer(d, s) == IF d.storage = "extern" THEN FindUsual(s, d.name) ELSE 0

Mismatch(d, i) == i # 0 /\ ~Compatible(d.ty, idents[i].ty)

\* Mutant: a name of a block may be declared again.
LinkageConflictNotInBlock(d, s) ==
  LET here == FindUsualInCurrScope(s, d.name)
  IN  here # 0 /\ DeclaredLinkage(d, s) # "none" /\ idents[here].linkage = "none"

\* Mutant: the linkage has to be the one there is.
LinkageConflictAny(d, s) ==
  LET here == FindUsualInCurrScope(s, d.name)
  IN  here # 0 /\ (DeclaredLinkage(d, s) = "none"
                   \/ DeclaredLinkage(d, s) # idents[here].linkage)

LinkageConflict(d, s) ==
  LET here == FindUsualInCurrScope(s, d.name)
      linkage == DeclaredLinkage(d, s)
  IN  /\ here # 0
      /\ \/ linkage = "none"
         \/ linkage = "external" /\ idents[here].linkage = "none"
         \/ linkage = "internal" /\ idents[here].linkage # "internal"

\* The object that d declares once more, or 0.
Redeclared(d, s) ==
  LET here == FindUsualInCurrScope(s, d.name)
  IN  IF IsObject(here) THEN here
      ELSE IF IsObject(Outer(d, s)) THEN Outer(d, s) ELSE 0

\* ParseInitDeclarator: a constant, or else ParseInitDeclaratorSub.
StaticInit(d, s) == IsFileScope(s) \/ (IsBlockScope(s) /\ d.storage = "static")
InitRefused(d, s) ==
  /\ d.init /\ ~StaticInit(d, s) /\ Redeclared(d, s) # 0
  /\ idents[Redeclared(d, s)].linkage = "external"

Refused(d, s) ==
  LET here == FindUsualInCurrScope(s, d.name)
  IN  IF d.storage = "typedef" THEN Mismatch(d, here)
      ELSE \/ d.ty.k = "func" /\ ~IsFileScope(s)
           \/ Mismatch(d, here)
           \/ LinkageConflict(d, s)
           \/ ~IsObject(here) /\ Mismatch(d, Outer(d, s))
           \/ InitRefused(d, s)

Initialised(id, d, s) ==
  IF ~d.init THEN id
  ELSE [id EXCEPT
          !.const = @ \/ StaticInit(d, s),
          !.ty = IF IsComplete(@) THEN @ ELSE [@ EXCEPT !.n = InitLength]]

\* Mutant: an object once extern remains so.
MergedExtern(i, d, s) ==
  [idents[i] EXCEPT !.ty = IF IsComplete(@) THEN @ ELSE d.ty]

Merged(i, d, s) ==
  [idents[i] EXCEPT
     !.storage = IF i = FindUsualInCurrScope(s, d.name)
                    /\ d.storage # "extern" /\ @ = "extern" THEN "" ELSE @,
     !.ty = IF IsComplete(@) THEN @ ELSE d.ty]

\* The statement of a declaration; a parameter has none.
Generates(what, i, s) ==
  code' = IF scopes[s].type = "proto" THEN code
          ELSE Append(code, [what |-> what, ident |-> i])

\* One more declaration of an object.
Redeclare(d, s) ==
  LET i == Redeclared(d, s)
  IN  /\ idents' = [idents EXCEPT ![i] = Initialised(Merged(i, d, s), d, s)]
      /\ Generates("declare", i, s)
      /\ Denotes("declare", i)
      /\ UNCHANGED scopes

\* params is the scope of a function's parameters.
DeclareNew(d, s, params) ==
  LET linkage == IF d.storage = "typedef" THEN "none" ELSE DeclaredLinkage(d, s)
      id == Ident(Kind(d), d.name, d.ty, linkage, d.storage, s)
  IN  /\ idents' = Append(idents,
                     Initialised([id EXCEPT !.params = params], d, s))
      /\ scopes' = InsertUsual(s, d.name, NewIdent)
      /\ IF Kind(d) = "object" THEN Generates("declare", NewIdent, s)
                               ELSE UNCHANGED code
      /\ Denotes("declare", NewIdent)

\* A name that is there already, of a compatible type: a warning.
RedeclareTypedef(d, s) ==
  /\ Denotes("warn", FindUsualInCurrScope(s, d.name))
  /\ UNCHANGED <<scopes, idents, code>>

MakeDeclaration(d, s, params) ==
  IF d.storage = "typedef" /\ FindUsualInCurrScope(s, d.name) # 0
  THEN RedeclareTypedef(d, s)
  ELSE IF d.storage # "typedef" /\ Redeclared(d, s) # 0
  THEN Redeclare(d, s)
  ELSE DeclareNew(d, s, params)

\* What the grammar has at this point.
MayDeclare(d) ==
  /\ Going /\ ~In("struct")
  /\ In("proto") => d.storage = "" /\ ~d.init /\ d.ty.k \in {"int", "char"}
  /\ d.init => Kind(d) = "object"

Declare(d) ==
  /\ MayDeclare(d)
  /\ \/ Refused(d, scope) /\ Stop("error")
     \/ /\ ~Refused(d, scope)
        /\ MakeDeclaration(d, scope, 0)
        /\ UNCHANGED <<scope, types, open>>

---------------------------------------------------------------------------
(* Functions and blocks.                                                     *)

Opened(what, back, type, decl) ==
  [what |-> what, back |-> back, type |-> type, decl |-> decl]
NoDecl == [name |-> "", storage |-> "", ty |-> IntType, init |-> FALSE]

\* "(" behind the name of a function.
EnterProto(d) ==
  /\ MayDeclare(d) /\ ~In("proto")
  /\ Kind(d) = "func"
  /\ scopes' = Append(scopes, NewScope("proto", scopes[scope].chain))
  /\ scope' = Len(scopes) + 1
  /\ open' = <<Opened("proto", scope, 0, d)>> \o open
  /\ Denotes("enter", 0)
  /\ UNCHANGED <<idents, types, code>>

\* ")", which completes the declarator.
ExitProto ==
  /\ Going /\ In("proto")
  /\ LET d == open[1].decl
         s == Parent(scope)
     IN  \/ Refused(d, s) /\ Stop("error")
         \/ /\ ~Refused(d, s)
            /\ MakeDeclaration(d, s, scope)
            /\ scope' = s
            /\ open' = Tail(open)
            /\ UNCHANGED types

EnterBlock ==
  /\ Going /\ InFunction /\ (In("block") \/ In("body"))
  /\ scopes' = Append(scopes, NewScope("block", scopes[scope].chain))
  /\ scope' = Len(scopes) + 1
  /\ open' = <<Opened("block", scope, 0, NoDecl)>> \o open
  /\ Denotes("enter", 0)
  /\ UNCHANGED <<idents, types, code>>

\* Mutant: the body of a function does not see its parameters.
NoParameters(p) == [n \in Names |-> 0]

Parameters(p) ==
  [n \in Names |-> IF p # 0 /\ IsObject(scopes[p].usual[n])
                   THEN scopes[p].usual[n] ELSE 0]

\* "{" behind the declarator of a function: the body's scope is filled with
\* the parameters.
EnterBody ==
  /\ Going /\ open = <<>> /\ last.act = "declare" /\ last.ident # 0
  /\ idents[last.ident].kind = "func"
  /\ scopes' = Append(scopes,
       [NewScope("block", scopes[scope].chain)
          EXCEPT !.usual = Parameters(idents[last.ident].params)])
  /\ scope' = Len(scopes) + 1
  /\ open' = <<Opened("body", scope, 0, NoDecl)>>
  /\ code' = Append(code, [what |-> "define", ident |-> last.ident])
  /\ Denotes("enter", 0)
  /\ UNCHANGED <<idents, types>>

ExitBlock ==
  /\ Going /\ (In("block") \/ In("body"))
  /\ scope' = Parent(scope)
  /\ open' = Tail(open)
  /\ Denotes("exit", 0)
  /\ UNCHANGED <<scopes, idents, types, code>>

\* An expression that names n. It is code if it is in a function.
Use(n) ==
  /\ Going
  /\ LET i == FindUsual(scope, n)
     IN  \/ i = 0 /\ Stop("error")
         \/ /\ i # 0
            /\ code' = IF InFunction /\ idents[i].kind \in {"func", "object"}
                       THEN Append(code, [what |-> "use", ident |-> i]) ELSE code
            /\ Denotes("use", i)
            /\ UNCHANGED <<scopes, scope, idents, types, open>>

\* n in a constant expression, which is evaluated and not generated.
Name(n) ==
  /\ Going /\ FindUsual(scope, n) # 0
  /\ Denotes("use", FindUsual(scope, n))
  /\ UNCHANGED <<scopes, scope, idents, types, open, code>>

---------------------------------------------------------------------------
(* Structs, unions and enums.                                                *)

NewType == Len(types) + 1
StructType == [k |-> "struct", n |-> NewType]

\* Mutant: the tag is entered before there is an identifier for it.
MakeStructEarly(t) ==
  /\ types' = Append(types, [scope |-> Len(scopes) + 1, complete |-> FALSE])
  /\ scopes' = Append(InsertTag(scope, t, NewIdent),
                      NewScope("block", scopes[scope].chain))
  /\ UNCHANGED idents

\* StructType::Get, which makes the scope of the members, and its tag.
MakeStruct(t) ==
  /\ types' = Append(types, [scope |-> Len(scopes) + 1, complete |-> FALSE])
  /\ idents' = IF t = NoTag THEN idents
               ELSE Append(idents, Ident("tag", t, StructType, "none", "", scope))
  /\ scopes' = Append(InsertTag(scope, t, NewIdent),
                      NewScope("block", scopes[scope].chain))

\* "struct t", alone or in front of a declarator.
TagSpecifier(t) ==
  /\ Going
  /\ LET tag == FindTag(scope, t)
     IN  IF tag # 0
         THEN Denotes("tag", tag) /\ UNCHANGED <<scopes, idents, types>>
         ELSE Denotes("tag", NewIdent) /\ MakeStruct(t)
  /\ UNCHANGED <<scope, open, code>>

\* "struct t {"
EnterStruct(t) ==
  /\ Going
  /\ LET tag == IF t = NoTag THEN 0 ELSE FindTagInCurrScope(scope, t)
     IN  \/ /\ tag = 0
            /\ MakeStruct(t)
            /\ scope' = Len(scopes) + 1
            /\ open' = <<Opened("struct", scope, NewType, NoDecl)>> \o open
            /\ Denotes("enter", 0)
            /\ UNCHANGED code
         \/ /\ tag # 0 /\ idents[tag].ty.k = "struct"
            /\ ~types[idents[tag].ty.n].complete
            /\ LET ty == idents[tag].ty.n
               IN  /\ scope' = types[ty].scope
                   /\ open' = <<Opened("struct", scope, ty, NoDecl)>> \o open
            /\ Denotes("enter", 0)
            /\ UNCHANGED <<scopes, idents, types, code>>
         \/ /\ tag # 0
            /\ idents[tag].ty.k = "struct" => types[idents[tag].ty.n].complete
            /\ Stop("error")

\* A member, entered by AddMember when GetMember has not found its name.
Member(n) ==
  /\ Going /\ In("struct")
  /\ LET here == FindUsualInCurrScope(scope, n)
     IN  \/ here # 0 /\ Stop(IF IsObject(here) THEN "error" ELSE "crash")
         \/ /\ here = 0
            /\ idents' = Append(idents, Ident("object", n, IntType, "none", "", scope))
            /\ scopes' = InsertUsual(scope, n, NewIdent)
            /\ Denotes("member", NewIdent)
            /\ UNCHANGED <<scope, types, open, code>>

\* Mutant: leaves a member list as one leaves a block.
ExitStructToParent ==
  /\ Going /\ In("struct")
  /\ LET tags == scopes[scope].tags
         back == Parent(scope)
     IN  \/ /\ \E t \in Tags : tags[t] # 0 /\ scopes[back].tags[t] # 0
            /\ Stop("error")
         \/ /\ \A t \in Tags : tags[t] # 0 => scopes[back].tags[t] = 0
            /\ scopes' = [scopes EXCEPT
                 ![back].tags = [t \in Tags |-> IF tags[t] # 0 THEN tags[t] ELSE @[t]]]
            /\ types' = [types EXCEPT ![open[1].type].complete = TRUE]
            /\ scope' = back
            /\ open' = Tail(open)
            /\ Denotes("exit", 0)
            /\ UNCHANGED <<idents, code>>

\* "}": the tags go out into the scope around.
ExitStruct ==
  /\ Going /\ In("struct")
  /\ LET tags == scopes[scope].tags
         back == open[1].back
     IN  \/ /\ \E t \in Tags : tags[t] # 0 /\ scopes[back].tags[t] # 0
            /\ Stop("error")
         \/ /\ \A t \in Tags : tags[t] # 0 => scopes[back].tags[t] = 0
            /\ scopes' = [scopes EXCEPT
                 ![back].tags = [t \in Tags |-> IF tags[t] # 0 THEN tags[t] ELSE @[t]]]
            /\ types' = [types EXCEPT ![open[1].type].complete = TRUE]
            /\ scope' = back
            /\ open' = Tail(open)
            /\ Denotes("exit", 0)
            /\ UNCHANGED <<idents, code>>

\* "enum t"
EnumSpecifier(t) ==
  /\ Going
  /\ LET tag == FindTag(scope, t)
     IN  \/ tag = 0 /\ Stop("error")
         \/ /\ tag # 0
            /\ Denotes("tag", tag)
            /\ UNCHANGED <<scopes, scope, idents, types, open, code>>

\* "enum t { n }"; a longer list is as several of one enumerator.
Enum(t, n) ==
  /\ Going
  /\ LET tag == IF t = NoTag THEN 0 ELSE FindTagInCurrScope(scope, t)
         new == IF t = NoTag THEN <<>>
                ELSE <<Ident("tag", t, IntType, "none", "", scope)>>
         i == NewIdent + Len(new)
     IN  \/ /\ tag # 0 \/ FindUsualInCurrScope(scope, n) # 0
            /\ Stop("error")
         \/ /\ tag = 0 /\ FindUsualInCurrScope(scope, n) = 0
            /\ idents' = idents \o new
                 \o <<Ident("enumerator", n, IntType, "none", "", scope)>>
            /\ scopes' = [InsertTag(scope, t, NewIdent) EXCEPT ![scope].usual[n] = i]
            /\ Denotes("declare", i)
            /\ UNCHANGED <<scope, types, open, code>>

ScopesInit ==
  /\ scopes = <<[type |-> "file", chain |-> <<1>>,
                 usual |-> [n \in Names |-> 0], tags |-> [t \in Tags |-> 0]]>>
  /\ scope = 1 /\ idents = <<>> /\ types = <<>> /\ open = <<>>
  /\ verdict = "ok" /\ last = [act |-> "enter", ident |-> 0] /\ code = <<>>

ScopesNext ==
  \/ \E d \in Decls : Declare(d) \/ EnterProto(d)
  \/ ExitProto \/ EnterBody \/ EnterBlock \/ ExitBlock \/ ExitStruct
  \/ \E n \in Names : Use(n) \/ Name(n) \/ Member(n)
  \/ \E t \in Tags \cup {NoTag} : EnterStruct(t) \/ \E n \in Names : Enum(t, n)
  \/ \E t \in Tags : TagSpecifier(t) \/ EnumSpecifier(t)

ScopesSpec == ScopesInit /\ [][ScopesNext]_svars

(***************************************************************************)
(* Properties.                                                             *)
(***************************************************************************)
ScopeType == [type : ScopeTypes, chain : Seq(Nat),
              usual : [Names -> Nat], tags : [Tags -> Nat]]
IdentType == [kind : IdentKinds, name : Names \cup Tags, ty : Types,
              linkage : Linkages, storage : Storages, const : BOOLEAN,
              scope : DOMAIN scopes, params : 0 .. Len(scopes)]
OpenType  == [what : {"proto", "struct", "block", "body"}, back : Nat,
              type : Nat, decl : Decls \cup {NoDecl}]

\* A chain begins at its scope; what a scope knows exists, and a tag that
\* names a struct has one.
EntriesOf(s) ==
  /\ scopes[s].chain # <<>> /\ scopes[s].chain[1] = s
  /\ \A i \in DOMAIN scopes[s].chain : scopes[s].chain[i] \in DOMAIN scopes
  /\ \A n \in Names : scopes[s].usual[n] \in 0 .. Len(idents)
  /\ \A t \in Tags :
       LET i == scopes[s].tags[t]
       IN  i # 0 => /\ i \in DOMAIN idents /\ idents[i].kind = "tag"
                    /\ idents[i].ty.k = "struct" => idents[i].ty.n \in DOMAIN types
EntriesOK == \A s \in DOMAIN scopes : EntriesOf(s)

ScopesTypeOK ==
  /\ scopes \in Seq(ScopeType) /\ scope \in DOMAIN scopes
  /\ idents \in Seq(IdentType)
  /\ types \in Seq([scope : DOMAIN scopes, complete : BOOLEAN])
  /\ open \in Seq(OpenType)
  /\ verdict \in {"ok", "error", "crash"}
  /\ last \in [act : {"declare", "warn", "enter", "exit", "use", "tag", "member"},
               ident : 0 .. Len(idents)]
  /\ code \in Seq([what : {"declare", "define", "use"}, ident : DOMAIN idents])
  /\ EntriesOK

(* However they are nested, each list, block and body is read in a scope   *)
(* of its own, and its end leads back to the scope it began in: by the     *)
(* parent for a parameter list and a block, by what was kept for a member  *)
(* list, whose scope may have been made elsewhere, where its tag was first *)
(* seen. Between external declarations the scope is the file's.            *)
ScopeAt(k) == IF k = 1 THEN scope ELSE open[k - 1].back
ScopeRestored ==
  /\ ScopeAt(Len(open) + 1) = 1
  /\ \A k \in DOMAIN open :
       /\ open[k].back \in DOMAIN scopes
       /\ scopes[ScopeAt(k)].type = IF open[k].what = "proto" THEN "proto" ELSE "block"
       /\ open[k].what # "struct" => Parent(ScopeAt(k)) = open[k].back

(* A name of a scope is not taken over by another: Insert overwrites what  *)
(* is there, so its callers have to look first. Only a function is entered *)
(* again, by its next declaration. And the scopes around are left alone.   *)
EntriesKept ==
  [][\A s \in DOMAIN scopes :
       /\ scopes'[s] # scopes[s] => s \in {scope, scope'}
       /\ \A t \in Tags : scopes[s].tags[t] \in {0, scopes'[s].tags[t]}
       /\ \A n \in Names :
            LET old == scopes[s].usual[n]
                new == scopes'[s].usual[n]
            IN  \/ old \in {0, new}
                \/ idents[old].kind = "func" /\ idents'[new].kind = "func"
    ]_svars
=============================================================================
