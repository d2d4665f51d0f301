------------------------------- MODULE CNames -------------------------------
(***************************************************************************)
(* The names of a translation unit as C has them, stated apart from the    *)
(* code: scopes (6.2.1), linkage (6.2.2), name spaces (6.2.3), composite   *)
(* types (6.2.7), and the rules for declarations, tags and definitions     *)
(* (6.7, 6.7.2.3, 6.7.9, 6.9).  What names denote are entities: a function *)
(* or an object with linkage is one entity however often it is declared.   *)
(*                                                                         *)
(*   cscopes  the scopes, innermost first: a member list is none, and the  *)
(*            body of a function is the scope of its parameters            *)
(*   ents     by number: what it is, its linkage, its type as far as any   *)
(*            declaration gives it, and whether it is defined: "yes" with  *)
(*            an initialiser or a body, "tentative" without; of a tag,     *)
(*            whether it has its content                                   *)
(*   members  for each member list open, the struct and its members' names *)
(*   params   the scope of the parameters of the declarator just ended     *)
(*   meant    the entities the last step declared or named                 *)
(***************************************************************************)
EXTENDS Declarators

VARIABLES cscopes, ents, members, params, cverdict, meant

cvars == <<cscopes, ents, members, params, cverdict, meant>>

NoEntry == [ent |-> 0, ty |-> IntType]
EmptyScope == [names |-> [n \in Names |-> NoEntry], tags |-> [t \in Tags |-> 0]]

Entity(kind, name, linkage, ty) ==
  [kind |-> kind, name |-> name, linkage |-> linkage, ty |-> ty,
   static |-> FALSE, def |-> "no"]
NewEntity == Len(ents) + 1

(* Looking up, in a stack of scopes. *)
Innermost(at) == CHOOSE i \in at : \A j \in at : i <= j
Here(cs, n) == cs[1].names[n]
Visible(cs, n) ==
  LET at == {i \in DOMAIN cs : cs[i].names[n].ent # 0}
  IN  IF at = {} THEN NoEntry ELSE cs[Innermost(at)].names[n]
VisibleTag(cs, t) ==
  LET at == {i \in DOMAIN cs : cs[i].tags[t] # 0}
  IN  IF at = {} THEN 0 ELSE cs[Innermost(at)].tags[t]
AtFile(cs) == Len(cs) = 1

LinkageOf(e) == IF e = 0 THEN "none" ELSE ents[e].linkage

(* 6.2.2: the linkage of what d declares in the innermost of cs. *)
CLinkage(cs, d) ==
  LET prior == LinkageOf(Visible(cs, d.name).ent)
  IN  CASE Kind(d) = "typedef" -> "none"
        [] Kind(d) # "typedef" /\ AtFile(cs) /\ d.storage = "static" -> "internal"
        [] d.storage = "extern" \/ (Kind(d) = "func" /\ d.storage = "") ->
             IF prior # "none" THEN prior ELSE "external"
        [] OTHER -> IF AtFile(cs) THEN "external" ELSE "none"

Linked(n) == {e \in DOMAIN ents : ents[e].name = n /\ ents[e].linkage # "none"}

(* The entity d declares once more, or 0. *)
Again(cs, d) ==
  IF Kind(d) = "typedef" THEN Here(cs, d.name).ent
  ELSE IF CLinkage(cs, d) = "none" \/ Linked(d.name) = {} THEN 0
  ELSE CHOOSE e \in Linked(d.name) : TRUE

Composite(a, b) == IF IsComplete(a) THEN a ELSE b
DeclaredType(d) ==
  IF d.init /\ ~IsComplete(d.ty) THEN [d.ty EXCEPT !.n = InitLength] ELSE d.ty

(* 6.7, 6.7.1, 6.7.9, 6.9: the constraints. *)
CConstraint(cs, d) ==
  LET here == Here(cs, d.name)
      linkage == CLinkage(cs, d)
      old == Again(cs, d)
  IN  \/ /\ here.ent # 0 /\ Kind(d) = "typedef"
         /\ ents[here.ent].kind # "typedef" \/ here.ty # d.ty
      \/ /\ here.ent # 0 /\ Kind(d) # "typedef"
         /\ \/ "none" \in {linkage, LinkageOf(here.ent)}
            \/ ~Compatible(here.ty, d.ty)
      \/ ~AtFile(cs) /\ Kind(d) = "func" /\ d.storage = "static"
      \/ ~AtFile(cs) /\ d.init /\ linkage # "none"
      \/ d.init /\ linkage = "internal" /\ old # 0 /\ ents[old].def = "yes"

(* What C leaves undefined, outside the constraints. *)
CUndefined(cs, d) ==
  LET linkage == CLinkage(cs, d)
      old == Again(cs, d)
  IN  \/ /\ old # 0 /\ Kind(d) # "typedef"
         /\ \/ ents[old].linkage # linkage
            \/ ~Compatible(ents[old].ty, d.ty)
            \/ d.init /\ ents[old].def = "yes"
      \/ /\ Kind(d) = "object" /\ linkage = "none"
         /\ ~IsComplete(DeclaredType(d))
      \/ /\ Kind(d) = "object" /\ AtFile(cs) /\ d.storage = "static"
         /\ ~IsComplete(DeclaredType(d))
         /\ old # 0 => ~IsComplete(ents[old].ty)

Defined(cs, d, old) ==
  CASE d.init -> "yes"
    [] ~d.init /\ Kind(d) = "object" /\ d.storage # "extern"
       /\ (AtFile(cs) \/ d.storage = "static") ->
         IF old = "no" THEN "tentative" ELSE old
    [] OTHER -> old

(* The effect of d in the innermost of cs, which are then the scopes. *)
Enter(cs, d) ==
  LET old == Again(cs, d)
      e == IF old = 0 THEN NewEntity ELSE old
      seen == Visible(cs, d.name)
      ty == IF seen.ent = e THEN Composite(seen.ty, DeclaredType(d)) ELSE DeclaredType(d)
      was == IF old = 0 THEN Entity(Kind(d), d.name, CLinkage(cs, d), d.ty) ELSE ents[old]
      now == [was EXCEPT !.ty = Composite(@, DeclaredType(d)),
                         !.def = Defined(cs, d, @),
                         !.static = @ \/ was.linkage # "none" \/ d.storage = "static"]
  IN  /\ ents' = IF old = 0 THEN Append(ents, now) ELSE [ents EXCEPT ![e] = now]
      /\ cscopes' = [cs EXCEPT ![1].names[d.name] = [ent |-> e, ty |-> ty]]
      /\ meant' = <<e>>

Breaks(how) ==
  /\ cverdict' = how
  /\ UNCHANGED <<cscopes, ents, members, params, meant>>

CDeclaration(cs, d, inner) ==
  \/ CConstraint(cs, d) /\ Breaks("constraint")
  \/ ~CConstraint(cs, d) /\ CUndefined(cs, d) /\ Breaks("undefined")
  \/ /\ ~CConstraint(cs, d) /\ ~CUndefined(cs, d)
     /\ Enter(cs, d)
     /\ params' = inner
     /\ UNCHANGED <<members, cverdict>>

CDeclare(d) == CDeclaration(cscopes, d, EmptyScope)

(* A parameter list, and the declarator it ends. *)
COpen(inner) ==
  /\ cscopes' = <<inner>> \o cscopes /\ meant' = <<>>
  /\ UNCHANGED <<ents, members, params, cverdict>>
CEnterScope == COpen(EmptyScope)
CExitProto(d) == CDeclaration(Tail(cscopes), d, cscopes[1])
CExitBlock ==
  /\ cscopes' = Tail(cscopes) /\ meant' = <<>>
  /\ UNCHANGED <<ents, members, params, cverdict>>

(* 6.9.1: the body of the function just declared. *)
CEnterBody ==
  LET f == meant[1]
  IN  IF ents[f].def = "yes"
      THEN Breaks(IF ents[f].linkage = "internal" THEN "constraint" ELSE "undefined")
      ELSE /\ cscopes' = <<params>> \o cscopes /\ meant' = <<>>
           /\ ents' = [ents EXCEPT ![f].def = "yes"]
           /\ UNCHANGED <<members, params, cverdict>>

CUse(n) ==
  IF Visible(cscopes, n).ent = 0 THEN Breaks("constraint")
  ELSE /\ meant' = <<Visible(cscopes, n).ent>>
       /\ UNCHANGED <<cscopes, ents, members, params, cverdict>>

(***************************************************************************)
(* 6.7.2.3.  The kind of a tag's entity is "struct" or "enum".             *)
(***************************************************************************)
TagIn(t) == IF t = NoTag THEN 0 ELSE cscopes[1].tags[t]
WithTag(t, e) ==
  IF t = NoTag THEN cscopes ELSE [cscopes EXCEPT ![1].tags[t] = e]
TagEntity(kind, t) == Entity(kind, t, "none", IntType)
Named(t, e) == IF t = NoTag THEN <<>> ELSE <<e>>

(* "struct t": alone, followed by a semicolon, it means this scope's. *)
CTagSpecifier(t, alone) ==
  LET e == IF alone THEN TagIn(t) ELSE VisibleTag(cscopes, t)
  IN  \/ e # 0 /\ ents[e].kind = "enum" /\ Breaks("constraint")
      \/ /\ e # 0 /\ ents[e].kind = "struct"
         /\ meant' = <<e>>
         /\ UNCHANGED <<cscopes, ents, members, params, cverdict>>
      \/ /\ e = 0
         /\ ents' = Append(ents, TagEntity("struct", t))
         /\ cscopes' = WithTag(t, NewEntity)
         /\ meant' = <<NewEntity>>
         /\ UNCHANGED <<members, params, cverdict>>

CEnterStruct(t) ==
  LET old == TagIn(t)
      e == IF old = 0 THEN NewEntity ELSE old
  IN  IF /\ old # 0
         /\ \/ ents[old].kind = "enum" \/ ents[old].def = "yes"
            \/ \E i \in DOMAIN members : members[i].ent = old
      THEN Breaks("constraint")
      ELSE /\ ents' = IF old = 0 THEN Append(ents, TagEntity("struct", t)) ELSE ents
           /\ cscopes' = WithTag(t, e)
           /\ members' = <<[ent |-> e, names |-> {}]>> \o members
           /\ meant' = Named(t, e)
           /\ UNCHANGED <<params, cverdict>>

CMember(n) ==
  IF n \in members[1].names THEN Breaks("constraint")
  ELSE /\ members' = [members EXCEPT ![1].names = @ \cup {n}]
       /\ meant' = <<0>>
       /\ UNCHANGED <<cscopes, ents, params, cverdict>>

CExitStruct ==
  /\ ents' = [ents EXCEPT ![members[1].ent].def = "yes"]
  /\ members' = Tail(members) /\ meant' = <<>>
  /\ UNCHANGED <<cscopes, params, cverdict>>

CEnumSpecifier(t) ==
  LET e == VisibleTag(cscopes, t)
  IN  IF e = 0 \/ (e # 0 /\ ents[e].kind = "struct") THEN Breaks("constraint")
      ELSE /\ meant' = <<e>>
           /\ UNCHANGED <<cscopes, ents, members, params, cverdict>>

CEnum(t, n) ==
  LET tag == Named(t, NewEntity)
      e == NewEntity + Len(tag)
  IN  IF TagIn(t) # 0 \/ Here(cscopes, n).ent # 0 THEN Breaks("constraint")
      ELSE /\ ents' = ents \o (IF tag = <<>> THEN <<>>
                               ELSE <<[TagEntity("enum", t) EXCEPT !.def = "yes"]>>)
                           \o <<Entity("enumerator", n, "none", IntType)>>
           /\ cscopes' = [WithTag(t, NewEntity) EXCEPT
                            ![1].names[n] = [ent |-> e, ty |-> IntType]]
           /\ meant' = tag \o <<e>>
           /\ UNCHANGED <<members, params, cverdict>>

CInit ==
  /\ cscopes = <<EmptyScope>> /\ ents = <<>> /\ members = <<>>
  /\ params = EmptyScope /\ cverdict = "ok" /\ meant = <<>>
=============================================================================
