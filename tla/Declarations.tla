---------------------------- MODULE Declarations ----------------------------
(***************************************************************************)
(* A translation unit, read by kcc (Scopes, Symbols) and by C (CNames) at  *)
(* once: each step is a declaration, a specifier, a brace or a use, and    *)
(* both take it.  An identifier of kcc stands for an entity of C.  Nothing *)
(* is said of a file after its first error, nor after it meets one of the  *)
(* differences that are known.                                             *)
(***************************************************************************)
EXTENDS Symbols, CNames

CONSTANT Kits   \* by name, what the files of a run are made of:
                \*   decls   the declarations
                \*   tags    the tags of specifiers
                \*   names   enumerators, members and what is used
                \*   does    which of the other constructs there are
                \*   steps   bound: how many steps a file has
                \*   depth   bound: how deep they nest

ASSUME KitsAssumption ==
  \A k \in DOMAIN Kits :
    Kits[k].decls \subseteq Decls /\ Kits[k].names \subseteq Names /\ Kits[k].tags \subseteq Tags

VARIABLES kit, steps, stands, known

vars == <<svars, symbols, cvars, kit, steps, stands, known>>

(***************************************************************************)
(* Where kcc and C are known to part; README.md has each.                  *)
(***************************************************************************)
Known(what, holds) == IF holds THEN {what} ELSE {}

Forgotten(cs, n) == Known("extern forgotten",
  ~AtFile(cs) /\ LinkageOf(Here(cs, n).ent) # "none")

DeclareDiffers(cs, d) ==
  LET entry == Visible(cs, d.name)
      prior == entry.ent
      here == Here(cs, d.name).ent
      inner == ~AtFile(cs)
      object == Kind(d) = "object"
      linked == LinkageOf(prior) # "none"
      sym == [name |-> d.name, scope |-> 0]
  IN  Known("function in a block",
            inner /\ Kind(d) = "func" /\ d.storage # "static")
      \cup Known("extern in a block", inner /\ object /\ d.storage = "extern" /\ ~linked)
      \cup Forgotten(cs, d.name)
      \cup Known("extern initialised",
            inner /\ object /\ d.storage = "extern" /\ d.init /\ LinkageOf(prior) = "internal")
      \cup Known("array completed in a block",
            /\ inner /\ object /\ d.storage = "extern" /\ linked
            /\ IsComplete(d.ty) /\ ~IsComplete(entry.ty))
      \cup Known("function made external",
            /\ ~inner /\ Kind(d) = "func" /\ d.storage # "static"
            /\ LinkageOf(here) = "internal")
      \cup Known("defined twice", ~inner /\ d.init /\ here # 0 /\ ents[here].def = "yes")
      \cup Known("address before the definition",
            /\ ~inner /\ object /\ sym \in DOMAIN symbols
            /\ \/ d.init /\ symbols[sym].linkage \in {"common", "internal"}
               \/ ~IsComplete(symbols[sym].ty))

IsInStruct(i) == idents[i].scope \in {types[ty].scope : ty \in DOMAIN types}
OutsideTag(t) == In("struct") /\ t # NoTag /\ TagIn(t) # 0
                 /\ FindTagInCurrScope(scope, t) = 0

(***************************************************************************)
(* Steps.                                                                  *)
(***************************************************************************)
Does(construct) == construct \in Kits[kit].does
Begins == Len(open) < Kits[kit].depth

(* New identifiers stand for what the step meant, the last for the last. *)
Both(differs) ==
  /\ Going /\ cverdict = "ok" /\ known = {} /\ steps < Kits[kit].steps
  /\ steps' = steps + 1
  /\ known' = differs
  /\ LET new == Len(idents') - Len(idents)
     IN  stands' = IF cverdict' = "ok"
                   THEN stands \o SubSeq(meant', Len(meant') - new + 1, Len(meant'))
                   ELSE stands
  /\ UNCHANGED kit

FileDeclare(d) ==
  /\ Declare(d) /\ UNCHANGED symbols
  /\ CDeclare(d)
  /\ Both(DeclareDiffers(cscopes, d))

BeginParameters(d) ==
  /\ Begins
  /\ EnterProto(d) /\ UNCHANGED symbols
  /\ CEnterScope
  /\ Both({})

EndParameters ==
  /\ ExitProto /\ UNCHANGED symbols
  /\ CExitProto(open[1].decl)
  /\ Both(DeclareDiffers(Tail(cscopes), open[1].decl))

BeginBody ==
  /\ Begins
  /\ EnterBody /\ UNCHANGED symbols
  /\ CEnterBody
  /\ Both(Known("tag or enumerator of a parameter list",
            \/ \E t \in Tags : params.tags[t] # 0
            \/ \E n \in Names : params.names[n].ent # 0
                                /\ ents[params.names[n].ent].kind = "enumerator")
          \cup Known("defined twice", ents[meant[1]].def = "yes"))

BeginBlock == Begins /\ EnterBlock /\ UNCHANGED symbols /\ CEnterScope /\ Both({})
EndBlock == ExitBlock /\ UNCHANGED symbols /\ CExitBlock /\ Both({})

UseName(n) ==
  /\ Use(n) /\ UNCHANGED symbols
  /\ CUse(n)
  /\ LET i == FindUsual(scope, n)
     IN  Both(Known("member found", i # 0 /\ IsInStruct(i)))

TakeAddress(n) == Mention(n) /\ CUse(n) /\ Both({})

Specifier(t, alone) ==
  /\ alone => ~In("struct") /\ ~In("proto")
  /\ TagSpecifier(t) /\ UNCHANGED symbols
  /\ CTagSpecifier(t, alone)
  /\ LET e == VisibleTag(cscopes, t)
     IN  Both(Known("tag alone", alone /\ e # TagIn(t))
              \cup Known("tag of another kind", e # 0 /\ ents[e].kind = "enum"))

BeginStruct(t) ==
  /\ Begins
  /\ EnterStruct(t) /\ UNCHANGED symbols
  /\ CEnterStruct(t)
  /\ Both(Known("tag from outside a struct", OutsideTag(t)))

AddMember(n) ==
  /\ Member(n) /\ UNCHANGED symbols
  /\ CMember(n)
  /\ Both({})

EndStruct == ExitStruct /\ UNCHANGED symbols /\ CExitStruct /\ Both({})

SpecifierEnum(t) ==
  /\ EnumSpecifier(t) /\ UNCHANGED symbols
  /\ CEnumSpecifier(t)
  /\ LET e == VisibleTag(cscopes, t)
     IN  Both(Known("tag of another kind", e # 0 /\ ents[e].kind = "struct"))

DefineEnum(t, n) ==
  /\ Enum(t, n) /\ UNCHANGED symbols
  /\ CEnum(t, n)
  /\ Both(Known("enumeration in a struct", In("struct")) \cup Forgotten(cscopes, n))

Init ==
  /\ ScopesInit /\ symbols = [s \in {} |-> 0] /\ CInit
  /\ kit \in DOMAIN Kits /\ steps = 0 /\ stands = <<>> /\ known = {}

Next ==
  \/ \E d \in Kits[kit].decls : FileDeclare(d)
  \/ \E d \in Kits[kit].decls : Does("()") /\ BeginParameters(d)
  \/ EndParameters
  \/ Does("{}") /\ BeginBody
  \/ Does("{}") /\ BeginBlock
  \/ EndBlock
  \/ \E n \in Kits[kit].names : Does("use") /\ UseName(n)
  \/ \E n \in Kits[kit].names : Does("&") /\ TakeAddress(n)
  \/ \E t \in Kits[kit].tags, alone \in BOOLEAN : Specifier(t, alone)
  \/ \E t \in Kits[kit].tags \cup {NoTag} : Does("struct") /\ BeginStruct(t)
  \/ \E n \in Kits[kit].names : AddMember(n)
  \/ EndStruct
  \/ \E t \in Kits[kit].tags : Does("enum") /\ SpecifierEnum(t)
  \/ \E t \in Kits[kit].tags \cup {NoTag}, n \in Kits[kit].names :
       Does("enum") /\ DefineEnum(t, n)

Spec == Init /\ [][Next]_vars

(***************************************************************************)
(* Properties.                                                             *)
(***************************************************************************)
Claimed == Going /\ cverdict = "ok" /\ known = {}

(* A file that keeps the rules of C is accepted, and none makes kcc crash. *)
AcceptsValid == cverdict = "ok" /\ known = {} => verdict = "ok"

(* A file that breaks a constraint of C is not taken in silence. *)
Diagnosed ==
  cverdict = "constraint" /\ known = {} => verdict = "error" \/ last.act = "warn"

(* A name means the entity C has for it, of the same type; a tag too, and  *)
(* its type is complete when C's is.                                       *)
NameAgrees(n) ==
  LET i == FindUsual(scope, n)
      entry == Visible(cscopes, n)
  IN  \/ i # 0 /\ IsInStruct(i)
      \/ i = 0 /\ entry.ent = 0
      \/ i # 0 /\ stands[i] = entry.ent /\ idents[i].ty = entry.ty
TagAgrees(t) ==
  LET i == FindTag(scope, t)
      e == VisibleTag(cscopes, t)
  IN  IF i = 0 THEN e = 0
      ELSE /\ stands[i] = e
           /\ (idents[i].ty.k = "struct") = (ents[e].kind = "struct")
           /\ idents[i].ty.k = "struct" =>
                types[idents[i].ty.n].complete = (ents[e].def = "yes")
LookupAgrees ==
  Claimed => /\ \A n \in Names : NameAgrees(n)
             /\ \A t \in Tags : TagAgrees(t)

(* Where the file may end, the module has a symbol for each entity that    *)
(* is defined here for other files, one symbol for one entity, with its    *)
(* linkage and its initial value.                                          *)
InitOf(e) ==
  CASE ents[e].def = "yes" -> "value"
    [] ents[e].def = "tentative" -> "zero"
    [] OTHER -> "none"
HasSymbol(i) == idents[i].kind = "func" \/ IsStaticDuration(i)
SymbolRight(i, M) ==
  LET e == stands[i]
      s == Symbol(i)
  IN  /\ ents[e].linkage = "external" /\ ents[e].def # "no" => s \in DOMAIN M
      /\ s \in DOMAIN M =>
           /\ (M[s].linkage = "internal") = (ents[e].linkage # "external")
           /\ M[s].init = InitOf(e)
           /\ M[s].ty = ents[e].ty
SymbolsRight ==
  Claimed /\ open = <<>> =>
    LET M == Generated
    IN  /\ Verified(M) /\ LocalsOnce
        /\ \A i \in DOMAIN idents : HasSymbol(i) => SymbolRight(i, M)
        /\ \A i, j \in DOMAIN idents : HasSymbol(i) /\ HasSymbol(j) =>
             (Symbol(i) = Symbol(j)) = (stands[i] = stands[j])
=============================================================================
